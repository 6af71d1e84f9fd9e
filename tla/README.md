# A verification project for the AttAcc simulator

The AttAcc simulator estimates the time and energy of transformer inference on
xPUs with processing-in-memory (PIM) devices. Its behaviour lives in three places:
a cycle-level model of an HBM3-PIM channel (C++ patched into Ramulator2), scripts
that generate the PIM command traces of an attention layer, and a Python
analysis that calls both and combines their results. This directory holds TLA+
models of all three, the TLC runs that check them and proofs that TLAPS checks.

Contents: [inventory](#inventory), [plan](#plan), [modules](#modules-and-the-code),
[runs](#runs), [proofs](#proofs), [limits](#what-is-not-covered).

## Inventory

| part (under `src/`) | state | operations | interacts with |
|---|---|---|---|
| HBM3-PIM device: `HBM3-PIM.cpp`, `patches/src_dram_lambdas_{action,preq}.patch` | open row of each bank, the cycle from which each command is ready at each node | prerequisite of a command, readiness, issue, row hit | called by controller and scheduler |
| PIM scheduler: `pim_scheduler.cpp` | none of its own; removes barriers from the PIM buffer | `compare`, `get_best_request` | reads the device, shares the controller's buffers |
| HBM3-PIM controller: `hbm3_pim_controller.cpp` | five request buffers, `pending` reads, write mode, `is_pim` | `send`, `priority_send`, `tick` with two command slots | called by the memory system and the refresh manager; calls scheduler, device and the callbacks of reads |
| refresh manager: `all_bank_refresh_hbm3.cpp`, `no_refresh.cpp` | `m_next_refresh_cycle` | `tick` | sends to the controller's priority buffer, throws when it is full |
| memory system, frontend, main loop: `PIM_DRAM_system.cpp`, `pim_loadstore_trace.cpp`, `patches/src_main.patch` | position in the trace, statistics, one controller per channel | `send`, `tick`, `is_finished`, the loop that ends the simulation | frontend to memory system to controllers |
| address mappers: `hbm3_pim_linear_mappers.cpp`, `hbm3_linear_mappers.cpp` | none | `apply` | called by the memory system |
| trace generators: `trace_gen/gen_trace_attacc_{bank,bg,buffer}.py` | lists of the commands of each head, `total_cmd` | `Attention`, `run_attention` | write the file the frontend reads |
| Ramulator wrapper: `src/ramulator_wrapper.py` | table of results, its copy on disk, the files of the simulations in progress | `output`, `run`, `run_ramulator`, `update_log_file` | starts a generator and a simulation in subprocesses |
| system simulation: `src/system.py`, `devices.py`, `model.py`, `config.py`, `type.py`, `main.py` | accumulated times and energies, the layers | `simulate`, `_pipeline`, device time and energy | calls the wrapper for attention layers on PIM |
| plain HBM3 controller: `hbm3_controller.cpp` | as the PIM controller, without the PIM buffer | as the PIM controller | as the PIM controller |
| trace recorder, build patches, set-up script | - | output, build | - |

Ramulator2 itself is not in the repository. What the code needs of it (the request
buffers, `RequireRowOpen`, `ACT`, `PRE`, the update of the timing tables, the
conversion of a row) is modelled from how the code uses it and marked external in
`PROJECT.json`.

### What is hard here, and what makes each part correct

- **Device.** Commands that broadcast (`ACTAB`, `PREPB`, ...) change many banks, while
  the prerequisite decides for all of them by the first bank it visits. Correct: no bank
  has two rows open, and the banks of a broadcast agree.
- **Scheduler and controller.** Requests move between buffers while others open and
  close rows under them, barriers hold back a part of one buffer, refreshes close all
  rows at any time, and two commands are issued per cycle with state (`req_it`,
  `is_pim`) that outlives what it refers to. Correct: an accepted request is served
  exactly once, barriers keep their order, and the buffers drain.
- **Refresh.** It must fit its buffer whatever traffic holds it up, or the simulation throws.
- **Memory system and main loop.** Termination when all controllers are idle although refreshes
  never stop; a request refused by a full buffer is tried again, in the order of the trace.
- **Trace generators.** Two heads overlap in one trace; the only ordering the controller
  respects is that of the barriers. Correct: what a command reads is complete before the
  last barrier in front of it, every head is computed once, and the buffers suffice.
- **Address mapper.** The layout of an address exists twice, in Python and in C++. Correct: a
  request reaches the place its generator meant, and no two places become one.
- **Wrapper.** Results are cached under a key, read, extended and rewritten, by several
  processes that share the files and may be killed anywhere; a subprocess may fail unnoticed.
  Correct: within a life, a question has one answer, looked up or simulated; a result was
  counted on a complete trace of its own type; results are not dropped.
- **System simulation.** One object is reconfigured and asked in any order, and its state
  (tables of tiles, times and energies written into the layers) outlives the calls. Correct: an
  answer is a function of the configuration and the call, the parts of a row add up to its
  totals, the pipeline is the overlap of its stages, and all of the model is counted.

`PROJECT.json` lists the single hazards with their lines.

## Plan

In the order of importance. Done:

1. `HBM3PIM`: the device, with `DeviceSpec`, the abstract specification of what may appear
   on a channel's bus: any request, served through the device's own prerequisites and readiness.
2. `PIMScheduler`, `PIMController`: the controller over that device; runs for each kind of trace.
3. `PIMController_proofs`: the device's and the controller's types, that the controller implements `DeviceSpec`
   (proved only: its steps are built from the device's, so a run would not add anything), and the single open row.
4. `TraceGen`: the generators, with the regions of the banks that the heads use.
5. `RequestService`, the abstract specification of a channel, which `PIMController` implements,
   and `PIMSystem`, which composes channels of that kind with the frontend and the main loop.
6. `AddrMapper`: the mappers and the generators' addresses, used by `PIMSystem`.
7. `ResultStore` (abstract) and `RamulatorCache`, which implements it: the wrapper with failed,
   concurrent and killed processes.
8. `Estimator` (abstract) and `Simulation` over `Layers` and `Devices`, which implements it:
   the system object with all its methods.
9. `AddrMapper_proofs`, `PIMSystem_proofs`, `RamulatorCache_proofs`, `Simulation_proofs`.
10. `NaturalFacts`: division, induction and recursive functions, for the proofs about what the model
    computes with folds and loops.
11. The controller's order of barriers, its books of requests and its service, in `PIMController_proofs`.
12. `TraceGen_proofs`: all invariants of the generators.
13. The types, times, energies, operations and memory of `Simulation`, in `Simulation_proofs`.
14. The composition: every channel of `PIMSystem` is a `RequestService`, in `PIMSystem_proofs`.
15. `AnswersFromConfiguration`: the steps of `simulate` against the answer in closed form, in `SimulationAnswers_proofs`.

## Modules and the code

### HBM3PIM: the device of a channel

`rows[b]` is the set of rows open in bank `b` (`m_row_state`); the empty set is the
state "Closed", which the code keeps redundantly. Ramulator2 stores
for every node and command the first cycle in which it is ready; the model keeps
instead the commands issued (`history`) with their age, and `CheckReady` evaluates the
table of constraints (`PIMTiming`, `DRAMTiming`, line by line as in
`set_timing_vals`) over them. Both say the same: a node's entry is the maximum over the commands
issued through it. `history` forgets what is older than `Horizon`, the
longest latency, so the state stays finite. `Scope` models that `check_ready` stops at
a command's scope, `Touches` which nodes an issued command updates: the addressed path,
every child below a -1, and the neighbouring banks that the actions of `MACSB` and
`MACPB` update. `Reach`, `AfterCommand`, `RequireRowOpen` are the
action and prerequisite lambdas. The channel's own id is left out.

### PIMScheduler

`PassBarrier` is the removal of a barrier at the head, `Considered` the barrier loop, `Overtakes`
the comparison, `Best` the fold over the buffer. The arrival times only decide ties
by order, so `arrive` is the number of requests accepted when the cycle began instead of a clock.

### PIMController

One memory cycle is `Tick`, then `Slot` twice (`phase`: idle, first, second);
requests are sent while idle. Nothing interleaves with the three steps, as in the code.
`Slot` is `schedule_request` in the first and `schedule_sec_request` in the second
phase. The alternatives of the search are the actions `ServeActive`, `WaitForPriority`,
`ServePriority`, `ServePim`, `ServeReadWrite`, exclusive by their guards, and `Issue` is the
rest of the slot: issue, removal from its buffer, the move to the active buffer.

`req_it->command` is read in the second slot (line 151, 325) after `req_it`
may have been removed or be an `end()`. That is undefined, so `seen` takes any of the
kinds "row", "col", "none" in that case. A refresh that finds no room ends the program with an
exception: phase "thrown".

`accepted` and `done` are history variables for the properties.
`pending` keeps for a read the cycles left until `depart`.

### TraceGen

`run_attention` is one action per block or loop of the script; a loop takes a step per turn of `j`.
The lists `cmd_*` are functions of the arguments (`Shape`, `VectorSize`, `Rows`, `Tiles`,
`Parts`), since `Attention` only fills them: the three scripts differ in `Shape` alone.
`total_cmd` is the sequence of segments between barriers. A MAC row or a move is one item for
all its channels and banks. The commands that write a vector are single items, because
the loops cut their list into pieces without regard to its structure.
`Pieces` and `InPieces`, in the property `OperandsReady`, say how much of a vector is in any piece.
`PlacesOf` are the places of a command in the trace, segment by segment.
`ColumnPlace` and `MatrixAddr` are the arithmetic of the addresses of the MACs, within one
channel and with one bank for all that a command is broadcast to: the three scripts spread a
matrix differently over the banks, but share `partition_size` and `v_offset`.

### RequestService and PIMSystem: from the trace to the end of the simulation

`RequestService` says what the memory system needs of a channel: requests are served once, a
barrier after the PIM requests before it and before those after it, a refresh that is due is
over before the next one, and all that was accepted is served again and again.
`PIMController` implements it (`ServiceSpec`), with `done` its own history and a refresh
waiting as long as the priority buffer is not empty.

`PIMSystem` composes such channels. `Send` is one turn of the loop in
`pim_loadstore_trace.cpp` with the memory system's `send`: mapping, counting and the controller's
acceptance; `Refuse` ends the frontend's cycle with the line still at the head. `MemoryTick` is a
cycle of all controllers, each of which serves any set of requests its barriers allow;
`LoopTest` is the condition of `src_main.patch`. A controller may refuse a line only while it has
another one waiting: the real ones refuse when a buffer is full, which is less often, so
the model has more behaviours. All refresh managers start with the program and count the
same cycles, so one clock (`untilRefresh`) serves all channels. This is why the loop ends: in
the last cycle before a refresh is due no channel has one waiting, so when all lines have been
served such a cycle finds nothing pending anywhere. `ServeFor` is what the loop needs
of a controller for that, and `Drains` and `ServiceSpec` of the controller's runs provide it.
`ChannelService` maps the lines sent to each channel onto `RequestService` again.

A line names a place and an entry, the bytes behind it. A write of the GEMV buffer adds its entry to the address, and
the scripts of AttAcc_buffer let it grow beyond the access: with elements of two bytes from L = 1025 on (of one byte,
from 2049), where the entry carries into the column bits. `Meant` is the access that such a line names, and
`SentAsMeant` that the memory system decodes it so. Beyond L = 32768 (two bytes) the entry leaves the row; `Line` leaves that out.

### AddrMapper

`SliceTurn` gives the order in which each of the four mappers cuts the levels off an address, and
`Unit` the bytes below a level; `Apply` is then one division and remainder per level
(the code's shifts and masks, for sizes that are powers of two; the presets with three ranks
are not, and there `calc_log2` cuts a rank off). `HBM_GS` and `AddressOf` are the
generators' side.

### ResultStore and RamulatorCache: the wrapper

A step of `RamulatorCache` is one access to a file that processes share, so
that they interleave between any two. `df` keeps, as the table does, the first row of a
key; `log` is the CSV file. A trace file holds the PIM type it was made for, or `"part"`, and what a simulation counts is
abstracted to what it read. `FileName` leaves the PIM type out, as the code does.
`Stop` kills a process at any point; `FailTo...` are subprocesses that fail, which the code does
not notice. `LookupKey` and `RunKey` are the two keys of the code, `CachedFigures` and
`FreshFigures` its two computations of an answer; `Comparable` are the questions for which they
agree, and only about those does `ResultStore` promise anything: within a life, what is known
for a key stays, and every answer is computed from it.

While a process writes the log its state is `"open"`, and a reader finds any beginning of it. A process that is killed
then leaves it `"empty"`, which `read_csv` refuses, or with some of its rows (`LeftOver`), which `read_csv` reads without
complaint: the last row intact, without the last digits of its last figure (`"short"`, which is then used as it is),
without whole figures (`"missing"`, at which `output` raises when it is asked for them), or without a complete key
(`LostKey`, which no lookup finds). Killed while it waits for the generator of a trace, a process may leave it running
(`StopWaiting`): `EndOrphan` ends it later, and until then the process counts as alive in `overlapped`. What this abstracts:

- which rows a cut hits is left open, as their order in the file is not modelled;
- a cut within the header does not appear, as the header goes out with the first rows;
- a figure cut within the flag `power_constraint` is only approximated, by `LostKey`;
- when two processes write at once, the contents are those of the one that ends last, not a mixture;
- of a generator that was left running, only its writing: the `rm` of the shell that follows a simulation does not come late.

### Layers, Devices, Estimator and Simulation

`Layers` builds the layers of a decoder (`model.py`), `Devices` times them and computes their energy:
tables of tiles (`tiles`, which outlive a call), the traffic between the levels of the memory, the
roofline, communication, and the PIM device. `Simulated` is what a simulation counts; what the device is told
goes through the table of the wrapper: `WithRow` is the lookup and the run of `Ramulator.output`, with its keys
(`RowKey`: a run is made with the dhead of the simulator and looked up with that of the layer), and `Answered` its two
formulas, of which the one for a result just simulated counts the accesses of AttAcc_buffer once and the other twice. So an
answer depends on what was asked before, and on the log (`log`: one of `Logged` at the start, then what the
simulations add). The fast mode is left out here: `System` never sets it (`RamulatorCache` has it).
`Simulation` is the object `System`: its methods may be called in any order (`New`, `SetModel`,
`SetPim`, `SetCpu`, `SetXpu`, `Simulate`). A call is a step per layer (`SumLayer`, `GenLayer`), then a step
per stage that rewrites the times of its decoder (`_pipeline`, `_ff_parallel`), and the row for the
output file. `Estimator` is the abstract object: an answer is a function of configuration and
call; `Figures` computes it without tables, without accumulation, and with the pipeline in closed
form (`Overlapped`). It has only the columns that are `Promised`: the time of the prompt always; the time of the generation
unless the PIM simulator was made for heads of another width; its energy, in addition, not on AttAcc_buffer. Without either
exception TLC finds `AnswersFromConfiguration` violated: there the program's answers do depend on history. Figures of the generated tokens stay multiplied by `lout - 1`, times are
integer numbers of `Quantum`, rounded up, and factors for units are left out.
The ratio of the feed-forward width (8/3 in LLAMA) is a natural number here.

## Runs

Each takes under four minutes with two workers.

| run | question | distinct states |
|---|---|---|
| `bank_mode` | traces of AttAcc_bank: single row, barriers, refresh room, draining; does the controller implement `RequestService` | 860k |
| `load_store` | loads and stores with row conflicts, write mode and forwarding: loss, room in an active buffer that could fill up, draining, `RequestService` | 918k |
| `buffer_mode` | per-bank MACs: are the banks of a broadcast in lock step, single row | 121k |
| `bg_mode_precharge` | does a same-bank precharge close the bank everywhere | refuted |
| `pim_before_refresh` | does the PIM buffer yield to a refresh | refuted |
| `read_not_forwarded` | does a read see the writes before it | refuted |
| `system` | two channels, the frontend and the main loop: is every line served where it was meant, does the loop end | 37k |
| `traces` | traces of all three scripts: operands before their use, each head scored once, two vectors alive, matrices apart | 33k |
| `vector_pieces` | is every vector written | refuted |
| `second_context` | is the context of every head computed | refuted |
| `cache` | processes that share the wrapper's files: does each answer from what it holds, what is in the log | 1.76M, with symmetry |
| `simulation` | a system configured and asked in any order: does it answer from its configuration, do its figures add up | 345k |

**Bounds of the controller's runs.** Two to four banks, such that a broadcast reaches two
(two pseudochannels for MACAB and MACPB); three bank groups of one bank for loads and stores; two rows, for
conflicts; one column, as a column changes nothing but data. `MaxRequests` = 2 or 3
accepted requests, sent at any time and in any order: two for a bank and a third
between them is what a barrier, a row conflict or a forwarding needs. A buffer holds `MaxSize` + 1 requests: three in
`bank_mode`, for a barrier that is not at the head with a request behind it, and in `load_store`; two
elsewhere, so that send is refused. `nREFI` = 18 (10 in `load_store`) makes refreshes come in the middle of every behaviour, several
times; the latencies of `MCTiming` are ordered as those of the presets are, scaled down. `MaxRequests`
bounds histories only: `done` and `accepted` grow no further, the clock runs on.

**Limits of these bounds.** In `load_store` three requests for three banks may want to be active, and `RoomToOpen` says that
none of them is refused when its row is opened. A request that is active already and must reopen its row, which a refresh has
closed, needs a further place for a moment, as the code enqueues it before it removes it; there are two active requests when this
happens, and it takes the third place. At these latencies three are never active at once: a request is served before a
third row opens. With room for two the same traffic does lose requests, at that very enqueue, whose result the code ignores:
the buffer has to have one place more than there are active requests. In the
real organization a channel has 64 banks (2 x 2 x 4 x 4) and an active buffer of 33 places, so that
`ActiveOnePerBank` does not show that there is always room; it rests on the rate of
activations (`nRRD`, `nFAW`) against `nRCD`. `Issue` models the loss, should it happen.

`load_store` has one pseudochannel, and that matters. There `ActiveOnePerBank` holds; without refreshes it holds in every
organization, as `OneRequestPerBankUnrefreshed` proves; PIM requests never enter the active buffer. But in the organization of the presets, with **two pseudochannels**, a mixed trace
of loads and stores may break it. Suppose a refresh has closed the rows of seven active requests. Four of one pseudochannel reopen
theirs, which fills the window of four activations (`nFAW` = 39 cycles at 5.2 Gbps, `nRCD` = 19); the fifth waits. In the
cycle in which the window opens, columns of both pseudochannels may be ready as well: the first slot issues the one, the
second slot's `Best` is the other, which it may not issue beside the first, and so it goes on to the read
buffer, where a request for the bank of the fifth opens a row of its own. From then on the bank has two active requests. After
the one is served, the other needs the row closed, which `Interrupts` refuses for ever, because that very request is active; the
first slot picks it in every cycle, so no refresh gets through either, until the priority buffer is full and
"Failed to send refresh!" is thrown. From such a state (with the latencies of the preset, two pseudochannels, one rank, four bank groups of two
banks) TLC finds the violation of `ActiveOnePerBank` and of `Drains`; the state itself takes more requests than a search from
`Init` can afford, and no run states it. The traces of the generators hold PIM requests only and are not affected.

**Bounds of the system run.** Two channels of one bank each with two pseudochannels, rows and
columns and two bytes in an access; all traces of up to three lines out of MACs and barriers of
both channels and a GEMV-buffer write whose entry carries into the column, and one of five lines of five types: enough for a line held up
by another channel's refusal, and for barriers on both sides of it. `Period` = 3 lets a refresh
last none, one or two cycles and be waiting in either channel when all is served.

**Bounds of the traces run.** Two bank groups, two banks, two channels, tiles of two rows (16 in
the scripts), rows of two columns of two bytes, and all calls with L up to 10, three head sizes, elements of one
and two bytes and up to 9 heads:
sizes that divide evenly and ones that do not, one to five tiles, loops of odd and even
length, one to five iterations, the last with one channel or with both. The longest sequence
is 8, so that calls fill the partition of a head exactly and exceed it.

**Bounds of the cache run.** Two processes (symmetric), two setups (PIM types whose file names
coincide; the second has all that makes a question not comparable), two head counts, three
lives and two questions in a behaviour: one process after the other's death and a third after both, so that a log that was cut is
read, extended and read again, or two at once, each asking what the other simulates.

**Bounds of the simulation run.** Three models (one of each kind, of one and of two bytes), one or four
GPUs, a PIM device of each of the three types and a CPU, a log that is empty or has the row of a score for BA
or BUFFER, five calls that reach both pipeline levels, feed-forward
sharing, a second batch and `lout` = 1, and three operations after the first: a call after another
configuration, a failed call, or another call, which finds what the first one simulated. The rates of `MCSimulation` make every branch
of `_pipeline` the one that is taken in some call.

**Fairness.** The main loop ticks the memory system for ever, so the controller's phase
always advances: `WF_phase(AdvancePhase)`. Nothing makes the trace send. `Drains` is
checked under it: the buffers are empty again and again, whatever the refreshes do. `ServiceSpec`
adds that this is the progress `RequestService` promises.
`PIMSystem` has `WF_vars(Next)`, as the loop is a single thread, and for each channel `SF_vars(ServeFor(c))`: a
controller that has requests again and again serves one at last. This is what `Drains` shows of the
real controller, whatever is sent to it; it must be strong fairness because serving is only possible in one
phase of the loop. The generator runs to its end (`WF_vars(Next)`); no property
of the runs needs it. `RamulatorCache` and `Simulation` have safety properties only: a killed process promises
nothing, and `simulate` is a loop over finite lists.

**Deadlock** is checked in the controller's runs, and is off where a program ends: `traces`, `system`,
`cache` (all processes may be down) and `simulation` (the operations are bounded).

### Disagreements found

`bg_mode_precharge`: PRESB, listed among the same-bank actions, closes one bank group.
`pim_before_refresh`: PIM commands pass a waiting refresh, against the priorities
the controller states. `read_not_forwarded`: a write that moved to the active buffer is no
longer forwarded. `vector_pieces`: the interleaving loses up to a loop's length minus one
commands of a vector when the division leaves a remainder; with the real sizes
this is so for L from 2049 to 2304 (nine tiles against 128 commands). `second_context`: the fourth loop
repeats the context of the first head in the place of the second's. `PROJECT.json` quotes the lines.

## Proofs

Eight modules hold proofs. Each holds for all values of the constants that its assumptions allow: TLC
evaluates the assumptions (`OrganizationAssumption`, `TimingAssumption`, `RequestTypesAssumption`,
`TrafficAssumption`, `ControllerAssumption`, `CountAssumption`, `SystemAssumption`, `SizesPositive`, `InputsType`,
`CacheAssumption`, `DeviceAssumption`, `SimulationAssumption`) in the runs. They say that sizes are
positive naturals and sets are of the right type, and no more, but for the relations the code itself
relies on (no more GPUs than heads; a quantum that its divisors divide). Each strengthened invariant
named below was checked by TLC before it was proved, as far as TLC can evaluate it.

**Numbers** (`NaturalFacts`): division with remainder, the least number of a set, induction with a set in the
place of the predicate, and, from these, that a recursive function of the naturals exists
(`RecursiveFunctionExists`). A fold or a loop in the model is defined by `CHOOSE`; only with its existence can a
proof use what it computes.

**Device and controller** (`PIMController_proofs`): for every organization, timing table, traffic
and size of the buffers.

- `DeviceTypeCorrect`: `DeviceSpec => []DeviceTypeOK`, one lemma per kind of step.
- `DeviceSingleRowOpen`: `DeviceSpec /\ OneMode => [](SingleRowOpen /\ LockStep)`.
  `SingleRowOpen` is not inductive: an activation opens its row in every bank
  of its reach and was asked for because the *first* bank lacking the row was closed. The
  invariant `ModeInv` adds that the banks an access of the mode reaches hold the same rows. Then
  one closed bank means that all are closed, and a row command keeps the banks alike because
  it reaches whole classes of the partition that the access defines (`ReachIsPartition`,
  `RowCommandReach`). Traces that mix modes, and same-bank MACs (whose
  precharge is the finding above), are outside: `OneMode` excludes them.
- `TypeCorrect`: the controller's `TypeOK`, with a lemma per action (`SendStep`, `TickStep`,
  `SlotStep`) over lemmas about queues (`IssueKeepsQueues`, ...).
- `ImplementsDevice`: `Spec => DeviceSpec`. The device's variables are the controller's own, so the
  mapping is the identity; each `Issue` is a device step because a queued request is of a type
  and address the device specification admits, which is what `TypeOK` is needed for.
- `ControllerSingleRowOpen`: both composed.
- `PimRequestsKept`, `NoneLostOfPim`, `NoneLostWithRoom`: the books of the requests. The inductive invariant
  (`Ledger`) gives every accepted request exactly one place: a buffer, `pending` or `done`. The one exit that
  breaks it is the enqueue into the active buffer whose result the code ignores. So without a condition no
  request is in two places and none that stays in the PIM buffer is lost; loads and stores are kept as long as a
  row is opened only with room in the active buffer. That condition, `RoomToOpen`, is a property of the timing and is
  checked by `load_store`.
- `BarriersKeepOrder`: `BarrierOrder` for every traffic. The scheduler's `Best` is a recursive function over the
  buffer, unfolded with `RecursiveFunctionExists`; inductions along the buffer show that it returns the head or a
  request the barrier loop lets through (`BestIsConsidered`), and a head that is ready before any other
  (`ReadyHeadIsBest`). A request behind a barrier only opens or closes rows. The inductive
  invariant `OrderInv` joins the books with the times of arrival (`InTime`).
- `ImplementsService`: if a refresh is over when the next is due (`RefreshDone`, which `ServiceSpec`
  asks and `bank_mode` and `load_store` check), the controller implements `RequestService` but for its liveness.
- `OneRequestPerBankUnrefreshed`: `ActiveOnePerBank` with loads and stores only and without refreshes, in every organization: an
  active request keeps its row open (`RowsHeld`), and a bank is only opened while it is closed. With refreshes and two
  pseudochannels it is not true (see "Limits of these bounds").

**Trace generators** (`TraceGen_proofs`): for every size of a channel, every script and every call.

- `TypeCorrect`: the invariant `TraceOK` has the type of every command of the trace and, stage by stage, the counters
  and the head of each loop.
- `OperandsAlwaysReady`: `Ready` says for each stage which vectors, scores and softmaxes are complete before the
  barrier that is yet to be placed: what the next turn of each loop reads. Two operands have no barrier behind them
  (`Unguarded`): the last scores of a softmax, which are moved in the last turn of a loop, and a softmax that is
  copied to the vector of the context in its own turn or block, when that is the only one. The theorem says of these that they stand
  in front of their use in the same segment, for which `Scored` says what was moved and taken, and in which segment.
- `EveryScoreOnce`: the lists of a head have no repetition (`Lists`, `Adds`), so placing a slice of one counts
  it once; `ScoresCounted` and `SoftmaxCounted` say for each stage how far each head has been placed.
- `TwoBuffersSuffice`: the vectors of even heads and those of odd heads take turns in a buffer each. `Orderly` says that
  within a parity a vector of an earlier turn is only touched in earlier segments, that no vector has a later
  turn than the one the stage works on, and that no vector is touched since the last barrier. So at no place
  two vectors of one parity are alive.
- `MatricesAlwaysApart`: arithmetic of addresses: a matrix of keys or values is within its partition
  (`InPartition`) and takes a range of columns of its own (`ColumnsOfBanks`), under the
  conditions that the property states (no sequence longer than the partition; rows that an element divides).

**Addresses** (`AddrMapper_proofs`): for every organization and size of an access.

- `MapperInvertsGenerators`: for the mapper HBM3-PIM, `Apply` of `AddressOf(p, entry)` is `p`, and the
  address is below the capacity. The address is brought into Horner form, one level around the
  next, and `SliceOut` takes off one level at a time (`DivideUnique`, `DivideTwice`).
- `MappersKeepPlacesApart`: no mapper gives two places of the generators the same address vector.

**System** (`PIMSystem_proofs`): for every number of channels, trace, period and mapper.

- `SystemTypeCorrect`, `EveryLineServed`: the inductive invariant is `TypeOK`, that the line in turn is the
  number of those sent (`InTurn`; the index wraps around at the end, so this holds only before it), that every line
  sent is with a controller and nothing else is (`NoneMissing`), and that the loop has ended only with
  nothing sent pending (`EndsQuiet`).
- `SentAsGeneratorsMean`: what is accepted is located where its generator meant it, no two
  places coincide, and the counters are the numbers of lines of each type; from the two
  theorems about addresses.
- `ChannelsAreServices`: for the mapper HBM3-PIM, every channel is a `RequestService` of the lines meant for it.
  `SentTo` collects them in the order of the trace (`SentInOrder`, by induction along the trace). The inductive invariant
  `ChannelInv` says besides that a controller accepted its lines in that order (`AcceptedInOrder`), served them in
  an order that its barriers allow (`BarriersKept`) and has no refresh waiting when the next one is due. With
  `ImplementsService` this composes: what the controller guarantees on its own holds of every channel of the system.

**Wrapper** (`RamulatorCache_proofs`): for any number of processes, setups and layers,
and whatever the bounds are.

- `CacheTypeCorrect`.
- `LogNeverShrinks`: `LogIsHeld` with `Alone`, that at most one process is up as long as none
  overlapped, and what the states of the log say of its rows. A process that is killed while it writes the log loses rows; what
  is left is all in the table of the next.
- `OnlyOwnTraces`: `ResultsOfOwnTrace` is not inductive; `OwnTrace` adds, for each place in
  `run()`, what its files hold by then: a run that is alone makes its YAML file and its trace anew
  before it reads them, so nothing that a killed one left counts. A kill in the middle of writing the log may leave a row
  without the end of its figures, which later processes use; the theorem says that this is the only way (`cut`), and that such a row
  is never one of another PIM type.
- `ImplementsStore`: the processes implement `ResultStore`. `AnswersReady` adds that a question is
  simulated only while its row is missing, so that the result that is returned without
  another lookup is the one the table has got.

**Simulation** (`Simulation_proofs`, and `SimulationAnswers_proofs` for the last): for every set of models, devices and calls.

- `SimulationConsistent`: the number of parts and the kind of the attention device agree with the
  devices; strengthened by the types of the devices (`DevicesOK`).
- `PipelineShortensTimes`, `PipelineIsOverlap`: about the operator `Pipelined`, for all times.
- `SimulationTypes`, `TimesOfRowsAddUp`, `EnergiesOfRowsAddUp`: a row is summed up only after the last layer, so the
  inductive invariant `TypedInv` has the types of every device, layer and local variable of `simulate`, and that the energies
  collected so far split both ways alike (`SplitOK`; communication is in the sixth place of an energy only for
  the layers that communicate, `EnergyOK`). From a list of such layers the columns follow: a layer is in
  one column of each breakdown (`SumTimesSplit`, `GenTimesSplit`), the keys of the header are all different so
  that a column has one place (`RowIsRead`), and sums over finite sets may be split (`SumOfSums`), although
  `SumFunction` adds in an order that `CHOOSE` picks. That devices answer numbers (`CostType`) needs the loops
  of the tiling to end with tiles of positive sizes.
- `DecodersAreShortened`: `TimesInv` says that every decoder has one `qkv` and one `proj`, that the layers timed so far have
  the time of their device, and that the stages that have ended are `Shortened`. It goes on holding while the devices
  are asked more: what a device once computed stays in its table, and a time depends on nothing else (`TimeKept`,
  `TimeOfBare`). The exception is a score on a PIM device whose simulator was made for heads of another width (`OfOneWidth`): a
  result just simulated and one found in the table are then for different widths, and may have different times.
- `OperationsOfWholeModel`, `MemoryOfLayers`: the layers that were timed still have all figures of those that were built
  but their times, energies and bounds (`BuiltInv`), and the counters are those of the batches before, of the
  stages that have ended and of the layers up to the one in turn (`CountedInv`). Both are inductive together
  (`CountInv`). The rest is about lists of layers: the total over a decoder is the sum of its parts (`TotalJoin`), each
  layer of one of n GPUs stands in a fixed proportion to the layer of one GPU alone (`LayerInProportion`: its operations
  are an n-th, those of a norm all), the weights of a decoder are those of `WeightBytes` (`WeightsOfSum`), and `score` is
  the name of one layer only (`ScoreOfDecoder`). Both properties say for which divisions this is so: what a
  division in `PerGpu`, `HeadsPerGpu` or `HeadDim` leaves is lost.

- `AnswersAreFigures`: `Spec => AnswersFromConfiguration`, the system implements `Estimator`. The invariant `AsNewInv` has
  three parts. `RightInv`: what the table of a device holds for a layer is what the device would choose
  now, so the device costs as much as one that was just made (`AsGoodAsNew`), and `AsNew` of it, which is what the
  configuration shows, never changes while layers are timed. A new PIM device has an empty table of results, too; that the
  old one's does not show holds only for what is promised. `FirstBatchInv`: in the first batch the layers of the prompt
  up to the one in turn are as new devices time them and the others as they were built; if the time of the generation is promised (`SteadyTimes`),
  its layers are so but for their energies (`ButEnergy`), and a stage that has ended takes what `BlockTime` says of it; if
  its energy is (`SteadyEnergies`), the energies collected are those of the layers so far. `UnmadeInv`: there is no
  answer before there is a system. An answer is only ever given in the first batch, and then these say
  that the row is `Figures` (`RowReadsFigures`). Every other step of `Simulation` is one of `Estimator` or not seen
  in it (`StepsImplementService`). The heart is `StageInPipeline`: the decoder of one token, after the branches of
  `_pipeline` and the sharing of `_ff_parallel` rewrote the times of its layers, takes in all what the closed form
  says; for this a quantum has to be divisible as `SimulationAssumption` says. TLC checked `FirstBatchInv` and `UnmadeInv` on the
  bounds of the run; `RightInv` is about all layers there could be, which TLC cannot go through.

The last seven suppose `SimulatorAnswers`: that a simulation of the PIM channels counts natural numbers. The
operator `Simulated` has arguments from infinite sets, so this is a hypothesis of the
theorems and not an assumption that TLC could evaluate. `AnswersAreFigures` supposes two more things.
`SimulatorInQuanta`: its times are counted in the same quanta as all others, which is how integers stand in
for the program's floating point numbers. `KeysApart`: the key of the table of tiles
(`devices.py:40`) leaves out whether a layer has weights, on which its tile depends, so no layer without weights may have the key of one
with. That is so if every GPU has two columns of the model's width at least, and several heads of the batch, or else neither the
width of a head nor a length of the sequences is the width of a model. Otherwise an answer does depend on history: with one head and one request
on a GPU and a prompt as long as the model is wide, `proj` and `score` are one key, the second of them gets the tile of the first, and
TLC finds `AnswersFromConfiguration` violated. The models of `config.py` have 32 heads and more.

**Only model-checked.** `RoomToOpen` and `RefreshDone`, and with them `NoneLost` and `ServiceSpec` without their
conditions: they depend on the latencies and on the order in which the timing lets the slots issue,
and do not hold for every table of them. That the refresh manager never throws (`RefreshKeepsUp`). Liveness (`Drains`,
`Terminates`, the fairness in `ServiceSpec`) and ENABLED are out of the prover's reach.

## What is not covered

- The plain controller (`hbm3_controller.cpp`) as a module of its own. It is, line for line, the HBM3-PIM controller
  without the PIM buffer, so `load_store`, in which that buffer is always empty and `is_pim` never set, runs through
  its steps. The HBM3 device under it is Ramulator2's and not in the repository, and so is
  the order of commands that its `switch` over numbers (lines 340-353) relies on.
- The presets of `config.py` (devices and models) and `main.py`'s parsing of its arguments. `main` calls
  the methods of the system in one fixed order each; `Simulation` has them in any. That dgx-cpu
  ignores `--ngpu` is listed as a hazard.
- Real times: `Simulation` counts in integers, so that what is lost in floating point is not seen.
- Reading the trace file and the exceptions of its parser; the YAML's contents.
- In `TraceGen`, the addresses of commands other than MACs, and the file.
- Long sequences: with `L * dbyte` above `maxlen` keys of consecutive heads share columns
  (hazard at `gen_trace_attacc_bank.py:184`); `MatricesApart` says nothing about these.
- Organizations whose sizes are not powers of two.
- Statistics other than the request counters, logging, the trace recorder and the build.
- SET_MODEL and SET_HEAD requests are in the device and controller models but in no run's
  traffic: the generators do not produce them, and they have no prerequisite.
- Traces that mix loads and stores with PIM requests: no run has them (the generators make none), and of the theorems only
  those about any traffic hold for them (`TypeCorrect`, `BarriersKeepOrder`, `PimRequestsKept`, `NoneLostWithRoom`,
  `ImplementsService`).
- What the model of the wrapper abstracts of files that are cut off or written by two processes at once (see `RamulatorCache` above).
- The order in which completed reads leave `pending` and are reported: `Drains` says that they do.
- The fast mode of the simulator in `Simulation`, as `System` never sets it.
