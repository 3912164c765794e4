# A TLA+ model of FastDivert

FastDivert is a Windows packet and file diverter: a kernel driver (`src/src`) whose
WFP callouts and file-system minifilter copy what they intercept into shared-memory
rings, and a client library (`src/dll/src`) that reads those rings without system
calls, blocks in an IOCTL when they are empty, and sends packets and decisions back.
Everything difficult in it happens between two parties that share memory or a
request: callouts at different IRQLs writing one ring, a client mapping and reading
it, a thread going to sleep while a record is being committed, a file operation
waiting on its own stack for an answer. This directory models those exchanges in
TLA+, checks them with TLC on small instances, and proves the central ones with
TLAPS for every instance.

Source references below are relative to `src/`: `src/ringbuffer/data.rs` is the
driver's file, `dll/src/ringbuffer.rs` the client's.

## 1. The system

| Component | State | Operations | What is hard | What makes it correct |
|---|---|---|---|---|
| Ring (`src/ringbuffer/data.rs`) | `head`, `tail`, `reserved_tail`, the bytes | `reserve_space`, `push_slice_at`, `push_mdl_at`, `commit_tail` | many producers reserve at once, copy in any order, commit in order; the reader moves `head` meanwhile | reservations never overlap, nothing is published before it is written, no gap blocks the commit |
| Transactions (`src/ringbuffer/per_cpu_ring.rs`) | the rings of a handle, the watching flag, the notify callback | `transaction`, `set_watching`, `test_and_clear_watching_flag`, `has_unread_packets` | a failed closure must not leave a hole; the flag is taken down by a callout while a client arms it | a failed transaction becomes a dummy record; the flag wakes every sleeper |
| Locked ring (`src/ringbuffer/locked_ring.rs`, `cas_queue.rs`) | a Michael-Scott queue, `drain_lock`, an inner per-core ring | `push_record`, `push_slice`, `drain` | threads leave their record to whoever drains; the drainer may be just about to stop | one drainer at a time, order kept, nothing left behind |
| Client reader (`dll/src/ringbuffer.rs`) | the mapped headers and data, `PacketRef`, `FileEventRef` | `next_packet_for_core`, `next_file_event_for_core`, `drop`, `set_decision` | zero-copy: the reference points into memory a producer may reuse | a reference stays one whole record until dropped; `head` only advances |
| Client loops (`dll/src/raw.rs`, `divert.rs`) | the cores a thread polls | `poll_cores`, `wait_for_data`, `poll_file_events` | the decision to sleep races the next record | a sleeper with data is woken |
| Receive requests (`src/network/module.rs`, `src/ioctl_handler.rs`) | `recv_queue` of the handle | `handle_recv`, `arm_recv`, `packet_arrived_callback` | arming, double check and completion by three parties | no lost wake-up, every parked request completed |
| File monitor (`src/file_monitor/`) | `ACTIVE_FILE_MODULE`, the transaction tracker, rules, one ring | `minifilter_pre_op`, `push_event`, `tracker.add/remove/signal`, `handle_send` | the decision races the time-out; the decision travels in the ring's memory | only waiting threads are in the tracker; each is woken by its own decision and ends as decided |
| Handle life cycle (`src/file.rs`, `src/context.rs`, `src/ioctl_handler.rs`) | context, modules, queues | create, initialize, startup, map, recv, send, cleanup, close, destroy | parallel dispatch, clean-up against callouts in flight, requests completed twice | each request completed once; nothing used after clean-up |
| WFP set-up (`src/network/wfp_init.rs`) | engine handle, callout ids | init, uninit | each of a dozen steps can fail | what was registered is unregistered |
| Network callouts and injection (`src/network/callout_*.rs`, `inject.rs`) | clones, completion contexts | classify, inject, completion | every early return must complete or permit | each packet and request is finished once |
| BPF (`src/network/bpf.rs`, `dll/src/bpf_compiler.rs`) | none | run, compile | bounds, jump resolution | the interpreter computes BPF; the compiler resolves jumps |

How they interact: a callout (or the minifilter) calls `transaction` or `push_record`;
that ends by swapping the watching flag and, if it was up, calling
`packet_arrived_callback`, which completes the requests parked in `recv_queue`. A client
thread polls the mapped rings, and when it finds nothing issues `IOCTL_RECV`, which parks
the request and arms the flag. Dropping a `PacketRef` stores `head`, which is what gives
the callouts room again. For files, the client writes its decision into the record and
signals the suspended thread with `IOCTL_SEND`; the thread reads the decision back from
the record.

`PROJECT.json` lists all components with their status and, under `hazards`, the lines
where this code is hard to test.

## 2. Modules

| Module | What it models |
|---|---|
| `RecordFifo` | abstract: a bounded FIFO of records, reserved, then published in order, received once, one at a time |
| `RingBufferData` | one ring: `reserve_space`, the copy, `commit_tail` (both modes), dummy records, `next_packet_for_core`, `PacketRef::drop` |
| `RingBufferFifo` | the refinement mapping from the ring to `RecordFifo` |
| `RingBufferData_proofs` | TLAPS proofs about the ring: cursors, reservations, the bytes of held records, and that it implements `RecordFifo` |
| `RecvNotify` | sleeping and waking: polling, `handle_recv`, `arm_recv`, the flag, the completion loops |
| `RecvNotify_proofs` | TLAPS proofs about the wake-up protocol |
| `LockFreeQueue` | `enqueue`, `dequeue`, `is_empty` of the Michael-Scott queue, one action per access, and the freeing of nodes |
| `LockedRing` | `push_record` and `drain` over that queue |
| `LockedRing_proofs` | TLAPS proofs about the queue and the drain, and that they implement `RecordQueue` |
| `RecordQueue`, `LockedRingOrder` | abstract: records leave in the order accepted, each delivered or dropped; and the mapping to it |
| `FileTx` | a suspended file operation, its record, the tracker, the client's decision, the time-out |
| `FileTx_proofs` | TLAPS proofs about it |
| `PacketPath` | a packet on its way: classify callouts, the verdict, the client's answer, injection and its completion |
| `PacketPath_proofs` | TLAPS proofs about packets and send requests |
| `BpfMachine` | the interpreter of filter programs, `bpf_run_filter` |
| `BpfFilter` | the filter compiler, and its programs in the interpreter |
| `BpfFilterInv` | the invariants of compiler and interpreter, and the words they are said in |
| `BpfFilter_proofs` | TLAPS proofs about both: a compiled program decides what its text says |
| `FileRules` | rules: `add_filter`, drive letters, the search for a rule in `minifilter_pre_op`, the wildcard loop |
| `FileRules_proofs` | TLAPS proofs that the search for a rule decides what the rules mean |
| `HandleFilters` | a handle with either of them, for one run |
| `HandleLifecycle` | create, INITIALIZE, STARTUP, RECV, clean-up, destroy, against callouts and pre-operations in progress |
| `HandleLifecycle_proofs` | TLAPS proofs about it |
| `MC*` | constants for TLC |

The modules stack by abstraction. `RingBufferData` has the ring's bytes; `RecvNotify`
sees a ring as a count of records, `LockedRing` sees its inner ring as the sequence of
records it took, `FileTx` sees the file ring one record at a time, which is what the
refinement `RingBufferData => RecordFifo` justifies. `LockedRing` EXTENDS
`LockFreeQueue` and composes its steps with its own. `PacketPath` in turn has one ring of
records for all processors and takes a filter to be the set of packets it accepts, which is
what `BpfFilter` says of filters. `FileTx` takes an operation from where `FileRules` leaves it
suspended. `HandleLifecycle` has what the others take for given: the module, ring and callback
they work on exist as long as they do. A suffix `_proofs` marks a module that EXTENDS the
component's and TLAPS; in the modules, a definition headed "Variant" is a plausible
mistake in the one after it, there to show that a property notices.

### RingBufferData

One action is one load, compare-exchange or store of a shared cursor, or one copied
cell. `pc` follows `transaction`: `load` (first cursor read), `check` (second one and the
free-space test), `take` (the compare-exchange, or reading `tail`), `write` (the
closure), `dummy` (it failed, the record is being marked). The counters are naturals: they
count bytes in 64 bits. A byte is a *cell* that remembers its writer, its record and its
offset, so that a torn or overwritten record is visible; the first cell of a record is its
`RecordHeader`. `Preempts` says which producer is a DPC on the processor of which other
one: the interrupted one does not run until the DPC is done (`CanRun`).

The copy into a per-core ring that fails leaves `tail` alone (`Abandon`); in the CAS ring it
becomes a dummy record (`PushDummy`) that the reader steps over (`SkipDummy`). `NoRecord`, the
reader's defensive return, is reached only when two references have moved `head` back.

### RecvNotify

`cpc` is where a client thread is: polling, in `arm_recv` (`arm`, `check`, `clear`,
`complete`) or blocked (`wait`). `ppc` is where a callout is after its commit. The scan
of the rings is one ring at a time, both in `poll_cores` and in `has_unread_packets`. The
WDF queue's forward and retrieve are atomic. `Layer` chooses between the packet layers,
whose `arm_recv` looks at the rings again, and the flow, socket and file layers, whose does not.
`Delays` is the set of machines considered: on one with `delays` (x86 store buffering) the
release store of the flag becomes visible later (`FlushStore`), and the locked exchanges
wait for it.

### LockFreeQueue and LockedRing

Every access to a shared pointer of the queue is an action. Nodes are numbers; `live` is the
set allocated and not freed, so that following a freed pointer can be stated
(`NoDanglingAccess`). A number is never given out again, so the ABA of a reused address is
not modelled. `drain` is `LockDrain`, then dequeue and `Ship` until the queue is empty,
`UnlockDrain`, then the double check `StartProbe`/`Probed`. The inner ring may refuse
any record; `push_record` ignores that, and so does the model.

### FileTx

Three parties: threads in `minifilter_pre_op` (`push`, `add`, `wait`, `remove`, `read`,
`finish`), the tracker under its spin lock (one step per operation), and the client in
`poll_file_events`. The tracker is the set of threads whose stack transaction is in it. The
time-out may strike at any moment of the wait. The client's callback returns a choice, or
calls `set_decision` itself and returns `Allow`; either way the event is dropped, and its
space released, *before* `write_to_rb` stores the choice. The operations are those that
match a rule. A record is one slot, all records being alike.

### PacketPath

One handle on one layer. A net buffer list (NBL) is a record: its packets, the leg of its
path it is on, the injection handle that marked it, and where it is (`st`). The legs are the
directions in which the callouts see it; a packet to the machine itself has two.
`Classify` is the start of a classify function that is entitled to write the verdict, one
`Process...` step handles one buffer (filter, copy into the ring), and one `...Returns`
step per layer gives the verdict. The client receives a record, may send it back once
(`SendPacket`), may send packets of its own (`SendCrafted`), and drops the record.
`rq` is where a send request is in `handle_send`; `owns` what was allocated for it;
`owed` the requests for which WFP still has to call `injection_completion_fn`, which may run
before `handle_send` has returned. External: WFP accepts or rejects an injection, shows
the NBL to the callout of its layer, may discard it, and completes it. `SetBpf` replaces
and frees the program while a callout may be running it; what that callout's filter then says is
left open (`torn`). `matched` has what the callout copies, and for a socket what it blocks, which it
decides before it pushes. A request that `StreamLayer::inject` turns away is never completed
(`"lost"`), although the comment at module.rs:307 leaves completion to the callback;
`AnsweredOnce` states it as its one exception (section 3).

### BpfMachine and BpfFilter

`BpfMachine` runs one instruction per action (`StepLd` ... `StepMisc`)
with the registers, the 16 cells and `pc` as variables; loads are sets that are empty where
`bpf_run_filter` returns 0. The programs are any sequences of `Instruction`, as
IOCTL_SET_BPF takes them, and not only those the compiler makes. A packet is its header fields and
the number of bytes the callout can see (the first MDL); the interpreter gets at them by offset only
(`ByteAt`). `Word` is 2^32 in the code; TLC's integers are narrower. The bits of `BitAnd` are
taken apart by halves, because the provers do not read `Bitwise`; `filters` compares it with
`&` there.

In `BpfFilter` a text is its sequence of tokens. The empty text and the word `true` alone never
get to the parser (`MatchesAll`); anywhere else `true` is a name the grammar does not know. The recursive functions of the code are their
stacks: `calls` holds the calls of `parse_expr`, `parse_term` and `parse_factor` that are under
way, innermost last, with the tree each has put together, and `ret` the tree just returned. An
action is one call or one return (`ParseFactor`, `ReturnToNot`, `ReturnToParen`, `ReturnToTerm`,
`ReturnToExpr`, `Parsed`). `todo` is what `compile_expr` has still to emit, the next item last,
and `insns` the list with its labels; one action takes one call apart (`CompileJunction`,
`CompileNegation`, `CompileTest`) or appends one item (`Emit`). `ResolveInsns` is
`resolve_insns`, and `Finish` loads what came of it, or `Refused`.

The properties compare with `TextSays`, that is, but for `true`, with `FilterSays`, which reads a text by the grammar and knows the fields
by name: for every position the table `Readings` has every way to read a factor, a term or an
expression from there, and what each way says of the packet. It is a table and not a recursive
operator because the provers do not see those. A text may have several readings, or none; that
the readings of an accepted text agree is part of what is shown.

The compiler never asks for the IP version, so `tcp` looks at byte 9 of an IPv6 packet as well,
and `filter_packet` sets only the direction and IPv6 in the flags, so `loopback` and `impostor`
match nothing in a callout; the model does the same. `port` loads behind as many words as the
first byte says a header has. `HeaderAssumption` is that this is at least five, as for IPv4;
behind fewer (most IPv6 packets say none) `port` compares bytes of the header, and what the text
says of such packets is not stated.

### FileRules

The client puts a configuration together with `AddFilter`, which reads a drive letter as its
device, or gives up (`AddFilterFails`); `OpenRaw` is a program that sends a configuration of
its own, whose counts may exceed the arrays. An operation goes through the rules with one
`TryRule` per rule, and through a wildcard with one action per turn of the loop (`Take`,
`TakeStar`, `Back`, `Mismatch`, `PathEnds`), so that `MatchingEnds` speaks of that loop. The
property `SuspendedIfAsked` compares with what the filters mean: a pattern as the set of
strings it stands for (`Stands`), unit by unit and not by backing up. It says nothing of
names longer than `path_buf`, and of a name with a star in it only that it is not suspended
without a filter (section 3).

### HandleLifecycle

`pc` is where a handle's control requests are, and then its clean-up: each step of
`init_wfp` and of `FileModule::startup` is an action that may fail, and `file_cleanup` is
taking the module out of the context, tearing down (`CloseEngine`, `UnregisterFilter`), clearing
the callback, freeing the module. Beside it run the threads of receive requests
(`rpc`: forward, look for the module, arm) and the kernel's calls (`cpc`: a callout or
pre-operation looks for its module, commits, notifies, waits, gives its verdict). `module`
is the life of the module, `answers` counts the completions of a request, `closes` those
of a session. Memory a thread may still touch is not modelled by its contents but by
whether the module it found (`cm`) has been freed; a handler that arms a freed ring
(`ArmFreed`) does anything.

External, and assumed: `FltUnregisterFilter` waits for the calls in progress; so does closing
the engine if `EngineWaits` (wfp_init.rs:310-312 relies on it instead of unregistering the
callouts); the framework cancels what is parked when
`file_cleanup` has returned and destroys the file object when no request is outstanding.
`SingleMonitor` is an assumption on clients: one handle of the file layer at a time.

## 3. Runs

| Run | Instance | Shows |
|---|---|---|
| `ring` | 4 bytes, records of 1 to 3; the CAS ring with 2 producers for one turn, the per-core ring with the single writer it assumes for two; 1 reader | disjoint reservations, no stranded one, intact records, `head` advancing, `RecordFifo` implemented, and under fairness every reservation closes |
| `notify_packet` | 2 client threads with a core each, 2 callouts, both machines | the packet layers: no lost wake-up with stores in order; in any case the next record wakes; sleepers return to polling |
| `locked_ring` | 2 threads, 2 records each, both machines | one drainer, order, nothing lost, nothing frozen with stores in order, `RecordQueue` implemented, the queue drains |
| `file_tx` | 2 threads, a ring of 2 events, 3 transactions | the tracker, the wake-up and the verdict of file operations, and that all come back |
| `packet_path` | a list of 2 packets to the machine itself, every layer, 2 send requests, a filter loaded at any moment | what the client sends back is recognised and intercepted once per leg, a packet arrives at most once, each request is completed once and its memory freed when the stack is done with it, except one that a stream layer not yet registered refuses |
| `filters` | packets: all texts of up to 4 tokens and 9 more, longer or with the word `true`, on packets cut off at several places; all programs of 2 instructions and a return. Files: single rules of every type on paths and patterns of up to 4 units, pairs of rules that watch and exempt, configurations with counts out of range | a packet matches when the text says so, only ungrammatical or too long texts are refused, every program stays in its bounds, goes forward and returns; an operation is suspended when a filter asks for it and not otherwise, and every filter and every search for a rule ends |
| `handle_life` | 2 handles of either layer, 2 receive requests, 1 callout or pre-operation; every step of a start-up may fail | no call works on a freed module, requests are completed once, nothing is left registered, every close ends |

Five runs show a disagreement between the code and what it says of itself; each ends in
the counterexample named.

| Run | Statement violated | What happens |
|---|---|---|
| `cas_ring_dpc` | `ReservationsClose` (per_cpu_ring.rs:311-313) | the DPC spins in `commit_tail` for the reservation of the thread it interrupted |
| `notify_ale` | `NoLostWakeup` (divert.rs:320) | flow and socket layers arm the flag and never look at the ring again |
| `locked_ring_dangling` | `NoDanglingAccess` (cas_queue.rs:16) | a thread that loaded a node's address reads the node after the drainer freed it |
| `file_decision_lost` | `NoDecisionLost` (minifilter.rs:60) | the event is visible to the client before its transaction is in the tracker; the decision finds nobody |
| `packet_ignored` | `IgnoredNotBlocked` (callout_network.rs:348) | a list none of whose packets passes the filter is copied nowhere and blocked all the same |

More disagreements have no run of their own. These show when one line of a configuration is
changed:

- `NoConcurrentWriters` (data.rs:68) fails in `ring` with `CoreProducers <- TwoProducers` and
  `Preempts <- DpcOverThread`: a callout at PASSIVE_LEVEL picks the ring of its processor
  (callout_network.rs:583) and is interrupted there by a DPC callout, so both are in the
  single-writer path.
- `HeldIntact` (dll/src/ringbuffer.rs:79-81) fails in `ring` with
  `Readers <- TwoReaders`: `next_packet_for_core` takes `&self` and hands out the record at
  `head` twice, and dropping one reference frees the bytes behind the other.
- `NothingFrozen` (locked_ring.rs:122-123) fails in `locked_ring`: with store buffers the
  release store of the unlock may still be buffered when `is_empty` reads the queue.
  `NothingFrozenInOrder` is what remains true.
- `NoLostWakeup` fails in `notify_packet`: the flag's store may become visible
  after the loads of the double check (per_cpu_ring.rs:245). `DoubleCheckWorks` therefore
  speaks only of the other machine.
- `VerdictIsChosen` fails in `file_tx`: the record's space is released before the decision
  is written and long before it is read back (minifilter.rs:396), so once the ring comes round
  to the slot an operation can end with another operation's decision, and the client's late
  write can replace a new event. `VerdictBeforeWrap` is what remains true.
- `EveryRequestAnswered` (module.rs:307, "Completion callback completes request") fails in
  `packet_path`: `StreamLayer::inject` returns before it has called anything while its callouts are
  not registered (callout_stream.rs:70-78), as between `IOCTL_INITIALIZE` and the commit of
  `init_wfp`. `handle_send` answers STATUS_PENDING, nobody completes the request, and its MDL,
  context and NBL are never freed. `AnsweredOnce` is what remains true: it has this exception
  and says what becomes of such a request.
- `FilterFindsItsModule` (file_module.rs:337) fails in `handle_life` with
  `SingleMonitor = FALSE`: a second file handle overwrites `ACTIVE_FILE_MODULE`, its failed start or
  its clean-up sets it to null, and operations of the first may use the second's module after
  it is freed (`CallsSeeLiveModule` fails as well).
- `CallsSeeLiveModule` fails there with `EngineWaits = FALSE`: `file_cleanup` frees the module
  right after `FwpmEngineClose0` and never calls `FwpsCalloutUnregisterById0`, so everything
  rests on the engine waiting for classify callouts.

These were met while modelling, and the model does as the code does:

- A receive request that finds no module, or whose `arm_recv` fails, has been forwarded to the
  queue already, and `handle_recv_request` completes it although it is parked, or has been
  completed from the queue by the clean-up (ioctl_handler.rs:220-238). `AnsweredOnce` excepts
  it (`refused`).
- When `FwpmTransactionBegin0` fails, `init_wfp` closes the engine and keeps the handle, and
  `uninit_wfp` closes it again (wfp_init.rs:63). `SessionClosedOnce` excepts it (`beganNot`).
- `uninit_wfp` asks the context for the module to delete the filters by id
  (wfp_init.rs:293), but `file_cleanup` has taken it; only the dynamic session removes
  them.
- `IOCTL_SET_BPF` frees the old program while a callout may be running it (`torn` in
  `PacketPath`); a packet whose classify callout is running at clean-up is blocked without being
  copied when the module is gone.
- The client's mapping of a ring is used by `dll/src/ringbuffer.rs` for as long as its handle
  lives, and the driver frees the memory at clean-up.
- The comment at ioctl_internal.rs:171 gives a rename the bit 8, `minifilter.rs:270` gives it
  4: a rule with mask 8 alone never matches.
- `get_file_path` cuts a name at 1024 units, so a suffix rule is compared with the middle of
  a longer name; `SuspendedIfAsked` speaks of names that fit.
- `matches_glob_u16` compares the units before it asks whether the pattern's is a star
  (minifilter.rs:148-157). A star in the name then stands for itself, and with no earlier star to go
  back to the match fails: the rule `*B` passes an operation on `*Ab`. No file on a Windows
  volume has such a name, but the name of an operation that opens one is what its
  caller asked for. `SuspendedIfAsked` excepts it; without the exception `filters` shows it.

### Bounds

- `MaxPos` stops new transactions once the frontier is that far. With 4 bytes and records
  of up to 3, `MaxPos = 3` already wraps records over the end of the memory, fills the
  ring and leaves two reservations open at once; the per-core ring goes twice round. The proofs
  have any number of producers.
- `Lens = {1, 2, 3}` has records that fit beside another and some that do not fit twice.
- `MaxUnread = 2`: empty, not empty, full. Consumption makes counts return, so the run is not
  bounded in time.
- `Pushes = 2`, `MaxNodes = 5`: the sentinel and one node per record; two threads are enough
  for every pair of accesses to meet, and for help with a lagging tail.
- `Slots = 2`, `MaxSends = 2` in `packet_path`: the ring is full when both packets of the list are
  in it, and both can be sent back, or one sent back on both legs. One list is enough:
  lists meet only in the ring and in the send requests.
- `MaxTokens = 4`: every pair of operators with and without brackets, and every malformed
  beginning; the longer texts nest deeper. `MaxJump = 12` (255 in the code) is exceeded
  by one of them. Packet lengths end before, in and after each field a test loads.
- `Slots = 2`, `MaxTx = 3`: the third event reuses the first one's slot while it is decided,
  timed out or being read.

- `MaxRules = 2` (16 in the code), `MaxPath = 5` (260), `MaxName = 5` (1024): a configuration that
  is full, a pattern and a name that just fit and ones that do not. Pattern and name of
  up to 4 units have two stars with text between and behind them, which is what the loop has to go back
  for; only the filters of `MCTogether` are combined with each other.
  Some names have a star.
- Two handles, two requests and one call in `handle_life`: a handle of each layer, or the same
  layer closed and opened again; the double check of one request completes the other. The
  proofs have any number of each.

Deadlock is checked in `handle_life`, where it can only be that all handles are gone. The other
systems really stop when the bounded traffic has been used up and the client waits for more.

### Fairness

`RingBufferData`: a producer inside `transaction` keeps being scheduled and its
compare-exchange does not fail for ever (strong fairness: the spin in `commit_tail` and
the retry are enabled and disabled by others). `RecvNotify`: client threads and callouts
that can run do run, and a store buffer is written out. `LockedRing`: a thread inside
`push_record` keeps running. `FileTx`: a thread in `minifilter_pre_op` runs and its time-out expires
(`KeWaitForSingleObject` with `timeout_ms`). `BpfMachine`: a filter that runs is run
to its end; `FileRules`: a thread looking for a rule goes on. `HandleLifecycle`: a clean-up that
has begun, a thread in `handle_recv` and a call in a callout or pre-operation go on, for they are running
kernel code and the one wait among them has a time-out; nobody has to close a handle.
`PacketPath` is checked for safety only. Nowhere is new traffic
assumed, nor that the client keeps reading a ring or answers an event. `cas_ring_dpc` has
the same fairness and is still violated, because the interrupted producer is never
enabled.

## 4. Proofs

All theorems hold for every value of the constants that satisfies the ASSUMEs of the
module.

**RingBufferData_proofs.** `TypeCorrect` needs no hypothesis. `ReservationsNeverOverlap`,
`SomeCommitIsNext` and `HeadNeverRetreats` assume `SingleReader` (one `PacketRef` per ring)
and `SingleWriter` (one producer of a per-core ring; any number on the CAS ring). Both are
needed: without them TLC refutes the statements. None of the three properties is inductive. The
invariant `CursorInv` adds
- `CursorOrder`: head <= tail <= reserved <= head + Size;
- `LoadsStillHold`: what a producer loaded bounds the shared cursor from the safe side.
  `reserved_tail` only grows, so a successful compare-exchange proves it unchanged since the
  load; `head` only grows, so free space computed from an older `head` is an underestimate.
  This is why two separate loads are enough;
- `OpenWithin`: a reservation lies below the frontier and is not written past its end;
- `ReaderAtHead`: what the reader knows of the record at `head` is published.

Taking a reservation and committing one are the two steps with content: the new
reservation must fit between the others and head + Size, and after a commit the next link of
the chain must start at the new tail.

`HeldRecordsIntact` (`HeldIntact`) and `NoRecordRejected` are about the bytes. `MemoryInv` adds
that an open reservation holds what its producer has written so far (`OpenWritten`), what the
reader knows of the record it holds (`ReaderKnows`), and that a set of positions exists, the
*boundaries*, with head and tail among them, where at every boundary below tail there is a header
that leads to another boundary, over an intact record or a dummy. A producer's write cannot spoil
one: it goes to its own reservation, which `CursorInv` keeps less than a ring length above
head, and positions less than a ring length apart are different cells (`IndexApart`). A commit
adds the end of its record to the set, and moving head past a record takes no position away.

`RingIsAFifo`: `Spec => ImplementsFifo`, for both modes and any size,
producers and lengths, under the same two assumptions. The mapping reads the entries of the
FIFO off the memory: from head to tail by the headers, from tail to the frontier by the
reservations. The proof sees both as one thing, a sequence of *cuts* that starts at head, ends
at the frontier and has tail among its members (`Cut`); between two cuts lies a published
record or an open reservation of just that length. The invariant is that such a sequence
exists; the mapped queue is shown to be its differences, by the least position that would not be. Then `TakeReservation` appends a cut (`Reserve`), a commit moves tail to the next one and
leaves the cuts alone (`Publish`), giving up drops the last (`Withdraw`), and a release or a skipped
dummy drops the first; everything else, the loads and copies and retries, is a stutter.

**RecvNotify_proofs.** `NextRecordWakes` (`SleeperStaysArmed`) holds for every layer and
machine; `DoubleCheckSuffices` (`DoubleCheckWorks`) for the packet layers. The invariant
`WakeupInv` replaces "asleep" by "parked and armed", which is true earlier: from the moment
the flag is stored, either it is up or somebody is completing (`FlagGuardsArmed`), and for
every ring the thread has looked past and that has data, somebody is about to look at the flag
(`DataIsSeen`). The step with content is `NotifyCompletedAll`: a completer may stop because
nobody is parked any more.

**LockedRing_proofs.** `TypeCorrect`, `DrainersExclude` (`OneDrainer`), `NothingLeftFrozen`
(`NothingFrozenInOrder`) and `TailAtEnd`, for any threads, pushes and nodes. The linked list is
described without walking it: no node has two predecessors, of the linked nodes one links to
null, and `tail` is that node or links to it and never links to the head. One thread drains at a time, so the head it loaded is the head,
which is why its compare-exchange cannot fail there. For `NothingLeftFrozen`, a drainer that has
found the queue empty has seen the last link null while it holds the lock, or looks again
after it has released it; whoever enqueues later goes for the lock itself.
`TailNeverLags` (`TailKeepsUp`) does walk the list: `Chain(L)` says that L is the nodes
ever linked, in order, each linked to the next and the last to null. It is enough to show that a
chain exists and what a step does to it: an enqueue appends to it, a dequeue moves head along it,
and by the invariant above tail is one of its last two. `After`, the recursive definition the property
is stated with, is then what follows head in L, by induction on the distance to the end.

`RingIsAQueue`: `Spec => ImplementsQueue`, for any threads, pushes and
nodes. The queue of the abstract specification is what the nodes after head carry, then the
record the drainer has in its hands. `OrderInv` adds to the chain that every node behind
head carries one accepted record, that a node not yet linked carries its owner's newest, and that
the drainer holds the value of the new head (`Contents`). The accepting step is the
compare-exchange that links the node, wherever in `push_record` its thread then stops;
shipping or dropping is the drainer's; the rest, the help with tail included, are stutters.

**FileTx_proofs.** `TypeCorrect`, `NoPointerOutlivesWait` (`TrackerPointsToWaiters`) and
`NobodyElseWakes` (`WokenByOwnDecision`), also after the ring has wrapped. `TxInv` adds that
every slot behind the tail carries a transaction id (`SlotsAreEvents`), whatever the
client has written over it, and that the client signals only what it has decided
(`ClientHasEvent`). `VerdictStands` (`VerdictBeforeWrap`) holds until the ring comes round. Its
invariant says that transactions in progress have numbers of their own, that a record stays
where its thread put it (`Records`), that precisely the records before `head` have been decided
on and hold that decision, save the one the client is about to write (`Decisions`), and that a
signalled thread's record is among those and is not that one (`Wakes`). `tail` never goes back,
so the hypothesis holds before every step it holds after.

**FileRules_proofs.** `TypeCorrect` and `RulesDecide` (`SuspendedIfAsked`), for any
filters, operations and sizes of the arrays. A way to read a name by a pattern is a function: where
in the name the part that the first m units of the pattern stand for ends (`Walks`). That the
recursive definition the property is stated with means there is one (`StandsForWhatItReads`)
is an induction over the units. Of the wildcard loop the invariant `GlobState` says two things.
`Sound`: what lies behind the loop has been read, up to the last star and from it on,
so a loop that comes to the end has found a reading. `Complete`: if there is any reading, there
is one whose last star, of those the loop has come past, takes up the name just as far as the
loop has it now or further. It is why going back to the last star is enough: whatever an
earlier star could give up or take in addition, the last one can make up for. That part, and
only it, needs a name without stars. Around the loop, `ConfigInv` ties the rules in the driver to the
filters asked for, and `SearchInv` says that no rule passed over means the operation.

**BpfFilter_proofs, the interpreter.** `MachineTypeCorrect` (`MachineTypeOK`) and `NeverGoesBack`
(`RunsForward`), for any programs of any instructions and any packets; of `Word` it is assumed
that it is a multiple of 2^24 and greater. The invariant `Inv` adds that the operands of
instructions are words and their jumps bytes (`Fits`) and that `pc` is 0 when no packet is
filtered: a load of another program, which may be shorter, then leaves `pc` inside. The steps
with content are the jump, whose target is tested against the length and which cannot lead back
because offsets have no sign, and the loads, whose bytes make a word whatever the packet's fields
are (`LoadBytesAreWords`); the arithmetic stays in a word because it wraps, and `&` because a bit
of it is a bit of its operand (`AndBound`). The two theorems bound the time a callout spends in a
filter; that it comes to an end (`Halts`, half of `WorkEnds`) is liveness.

**BpfFilter_proofs, the compiler.** `FilterIsRight` (`MatchesWhatFilterSays`): a program that
`compile_bpf` makes returns non-zero for a packet if and only if the text says yes of it.
`RefusalIsRight` (`RefusedForCause`): what is refused has no reading, or so many tests that a
jump over five instructions for each might exceed `MaxJump`. Both hold for any texts of tokens,
any packets and any `MaxJump` that satisfy `TextAssumption` (the numbers in a text are words, as
the tokenizer makes them), `HeaderAssumption` (which has `Word` at most 2^32, too),
`WordAssumption` and `JumpAssumption` (255 in the code). `FilterTypeCorrect` and `FilterNeverGoesBack` are the interpreter's two theorems for
compiled programs. The definitions are in `BpfFilterInv`.

The inductive invariant `CompilerInv` carries one value through all the stages, for every packet:
what the text says of it.
- *Parser* (`Parsing`). Each call under way makes a set of answers out of a way to go on reading;
  the stack of calls makes a continuation (`Cont`). While a factor is to be read (`Pending`),
  what the text says is what the continuation makes of all factors that can be read there; when a
  tree has been returned (`HasRead`), what it makes of that one reading. So the steps with
  content are those that choose: that the greedy loop over "and" and juxtaposition, over "or",
  and the first factor that fits lose no reading. They lose none because "and" and "or" are
  associative on the three values (`MoreFactorsAssoc`), and because no reading goes on at a token
  where the parser stops (`NoFactor`). That the table explains itself (`ReadingsTable`) is an
  induction over the text from its end.
- *Trees*. What a tree says, and how many tests it has, is said without recursion: there is a set
  of pairs that contains its parts' (`TreeSays`, `TreeTests`).
- *Code* (`Emission`). At every place of the list is a *point*: the values the registers may have
  there, and the value that will be returned (`Leads`, `Behind`). A label is a point. What is
  still to be emitted has its points as well, known from its end (`Means`, `Ahead`): a call that
  is still to be made for a tree goes to one label if the tree says yes, to the other if it says
  no, and returns 0 if a load finds no bytes. `Codes` joins the two; each action moves one item
  from one side to the other.
- *Labels* (`Layout`). Every label is emitted once, behind each jump to it; the code ends in a
  return, and no jump is first. A test has at most five instructions, so
  the list has at most `5 * All + 2`.
- *Program* (`Compiled`). `resolve_insns` counts the instructions between a jump and its label;
  the place in the program is then a place in the list (`RunsAt`), and `RunStep` follows one
  instruction from point to point.

`Unconditional` has the text `true`, which takes no part in this: its program is one return, and
accepts. `CompilerInv` speaks of all packets and of sets of points, so TLC cannot evaluate it; it was
found from what `filters` checks and from the proof attempts. `ShapeInv`, for the last two
theorems, says that trees are made of tests with words (`Forest`), that the items in the list
hold such words and labels, and that `Inv` holds; `CompilerInv` and it together are inductive.

**HandleLifecycle_proofs.** Six theorems, one for each invariant of `handle_life`, for any number
of handles, requests and calls; all assume `EngineWaits` and `SingleMonitor`, without
which TLC refutes some of them (section 3). `LifeInv` says what each phase of a handle leaves of its module
(`ModuleByPhase`), its session (`SessionByPhase`) and its minifilter (`MonitorByPhase`); that a
call is in progress only while the handle is running, tearing down or draining, and
works on that handle's module (`CallsInPlace`); and how often a request can have been
completed, by where it is (`RequestsCounted`). The step with content is the end of the drain:
no call is left, so whatever comes later finds nobody in the module.

**PacketPath_proofs.** `CompletedOnce` (`AnsweredOnce`) for any layer, traffic and number of
requests: every one is completed once, save those that `StreamLayer::inject` refuses, which
are never. The invariant `RequestInv` says for each phase of a request what it owns, whether the
stack has it and whether it is completed: untouched, prepared, in the stack, finished; a refused
one stays prepared. The
steps with content are those that race: `Completion` may come while `handle_send` has still to
return, and `SendReturns` must leave the request as it finds it.

`SentBackIsRecognised` (`InterceptedOnce`), `NeverBoth` (`DeliveredOnce`) and `TypeCorrect`, for
any traffic that satisfies `TrafficAssumption` (packets are told apart, so two copies of one
packet are the same packet on its way; the client's own packet is none of them), any paths,
programs and number of sends. Neither invariant is inductive: that two blocked NBLs cannot
carry the same packet on one leg depends on how the second came to be there. `PlaceInv`
therefore says where a packet can be. A copy in an NBL is done with when its classify function
has filtered it and is going to block; a record waits until the client has sent its packet
back. A packet has at most one copy that is not done, or else one record that waits (`OneCopy`,
`CopyOrRecord`, `OneRecord`), and every leg on which it has been intercepted lies behind that
place or is the same leg, where the mark of the injection handle lets it past
(`BehindCopy`, `BehindRecord`, `OncePerLeg`). On a handle that only receives, or whose layer sends
nothing back, no request ever carries a packet of the traffic.

Every invariant and every safety property of a step that a passing run checks is stated by one of these
theorems. Only model-checked is liveness (`ReservationsClose`,
`SleepersWake`, `QueueDrains`, `OpsComeBack`, `WorkEnds`, `CloseEnds`), which is out
of the prover's reach.

## 5. Not modelled

Memory management (`mm.rs`), the framework wrappers, type layouts, the packet parser of the
client, driver installation, the demos and the build script keep no state worth a model or
are pure I/O. Of the modelled components: the set-up of driver and device (`driver.rs`),
IOCTL_MAP, which adds a view and changes nothing else, the checks of buffer lengths in the dispatch,
allocation failure, `pop_slice`/`add_head` (which only their wrappers in `per_cpu_ring.rs:299-305`
call), a client that sends file decisions outside `poll_file_events`, 64-bit wrap-around of the
cursors, and reuse of a freed node's address are not modelled. Nor are, in `PacketPath`, the header
retreat, the parsing of classify values and an injection outstanding when the handle closes.
`packet_read_only` is modelled, but set only after the callouts are live (module.rs:73), so a
receive-only handle blocks the packets of its first moments: no property denies it. In
`BpfFilter`, cutting a text into tokens and converting numbers are left out; in `FileRules`, the
query for the file name and its failure. In `HandleLifecycle` the control requests of a handle
come one after the other, as `open_handle` sends them. The machine is x86-like where
`Delays` says so and sequentially consistent elsewhere.

## 6. Plan

Done in this order: the ring with its FIFO and proofs, the wake-up protocol with proofs, the
locked ring, the file operation with proofs, the packet path with the proof about its requests,
filters, the life of a handle with proofs, rules for files, the proofs about the locked ring,
about the verdict of a file operation and about the place of a packet, the proofs about the bytes of
the ring, about the list of the locked ring, of the two refinements, of the search
for a rule, about the interpreter and about the filter compiler. Next:

1. A receive request and an injection in one life cycle: an injection outstanding when the handle
   closes.
