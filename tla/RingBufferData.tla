---------------------------- MODULE RingBufferData ----------------------------
(***************************************************************************)
(* One ring of PerCpuRingBuffer: the byte ring shared by the driver's      *)
(* callouts (producers, kernel mode) and the client's packet references    *)
(* (readers, user mode).  src/src/ringbuffer/data.rs reserves and commits, *)
(* per_cpu_ring.rs wraps both in `transaction`, dll/src/ringbuffer.rs      *)
(* reads.                                                                  *)
(*                                                                         *)
(* head, tail and reserved are the free-running byte counters of the code. *)
(* They are naturals here: a 64-bit counter of bytes does not wrap in the  *)
(* life of a handle.  A byte is abstracted to a cell, and a cell remembers *)
(* who wrote it and for which record, so that torn, overwritten and stale  *)
(* data can be told apart.  The first cell of a record stands for its      *)
(* RecordHeader (len and the dummy mark in _reserved).                     *)
(*                                                                         *)
(* The atomic steps are the loads, compare-exchanges and stores of the     *)
(* shared cursors, and one copied cell.                                    *)
(***************************************************************************)
EXTENDS Integers, Sequences

CONSTANTS
  Producers,      \* threads or DPCs that run a callout writing to this ring
  Readers,        \* PacketRefs the client may hold on this ring at one time
  Size,           \* RingBufferData.size
  Lens,           \* the expected_total_size values callers ask for
  Modes,          \* the values of RingBufferData.is_cas an instance starts from
  CoreProducers,  \* the producers whose traffic a per-core ring may receive
  MaxPos,         \* bound, by mode: no transaction begins once the frontier is here
  Preempts        \* <<d, p>>: d is a DPC on the processor that runs p

ASSUME SizeAssumption == Size \in Nat \ {0} /\ \E k \in 0..Size : Size = 2^k
ASSUME LensAssumption == Lens \subseteq Nat \ {0}
ASSUME ModeAssumption == Modes \subseteq {"cas", "core"} /\ CoreProducers \subseteq Producers
ASSUME BoundAssumption == MaxPos \in [Modes -> Nat]
ASSUME PreemptAssumption == Preempts \subseteq Producers \X Producers

VARIABLES
  mode,      \* RingBufferData.is_cas: shared MPSC ring ("cas"), or per-core ring
  head,      \* ConsumerHeader.head, written by the client
  tail,      \* ProducerHeader.tail, the end of the published records
  reserved,  \* RingBufferData.reserved_tail (CAS ring only)
  mem,       \* the ring's bytes
  pc,        \* where each producer is in transaction()
  want,      \* expected_total_size
  cur,       \* the cursor a producer loaded first: reserved_tail, or head
  start,     \* RingBufferTransaction.start_tail
  off,       \* RingBufferTransaction.offset
  rpc,       \* where each reader is in next_packet_for_core()
  at,        \* the head a reader loaded; PacketRef.old_head
  unread,    \* the unread_size that reader computed
  rlen       \* PacketRef.record_len

prodVars == <<pc, want, cur, start, off>>
readVars == <<rpc, at, unread, rlen>>
vars == <<mode, head, tail, reserved, mem, pc, want, cur, start, off, rpc, at, unread, rlen>>

(* A cell: the `off`-th byte of the record `by` wrote at position `start`. *)
Cell == [by : SUBSET Producers, start : Nat, off : Nat, len : Nat, dummy : BOOLEAN]
ZeroCell == [by |-> {}, start |-> 0, off |-> 0, len |-> 0, dummy |-> FALSE]

(* The ring is zeroed by allocate() and its cursors by new(). *)
Init ==
  /\ mode \in Modes
  /\ head = 0 /\ tail = 0 /\ reserved = 0
  /\ mem = [i \in 0..(Size - 1) |-> ZeroCell]
  /\ pc = [p \in Producers |-> "idle"]
  /\ want = [p \in Producers |-> 0]
  /\ cur = [p \in Producers |-> 0]
  /\ start = [p \in Producers |-> 0]
  /\ off = [p \in Producers |-> 0]
  /\ rpc = [r \in Readers |-> "idle"]
  /\ at = [r \in Readers |-> 0]
  /\ unread = [r \in Readers |-> 0]
  /\ rlen = [r \in Readers |-> 0]

(* The ring is shared by all cores (get_ring_buffer), or belongs to one. *)
IsCas == mode = "cas"

(* A position's place in memory: `pos & mask`. *)
Index(pos) == pos % Size

(* A producer that owns ring space it has not published yet. *)
Open(p) == pc[p] \in {"write", "dummy"}

(* A DPC runs to completion before the thread it interrupted resumes. *)
CanRun(p) == \A d \in Producers : <<d, p>> \in Preempts => pc[d] = "idle"

-----------------------------------------------------------------------------
(* Producer: PerCpuRingBuffer::transaction *)

(* transaction() returns: its locals are gone. *)
Leave(p) ==
  /\ pc' = [pc EXCEPT ![p] = "idle"]
  /\ want' = [want EXCEPT ![p] = 0]
  /\ cur' = [cur EXCEPT ![p] = 0]
  /\ start' = [start EXCEPT ![p] = 0]
  /\ off' = [off EXCEPT ![p] = 0]

(* A callout calls transaction(core, n, f). *)
Begin(p, n) ==
  /\ pc[p] = "idle" /\ CanRun(p)
  /\ IsCas \/ p \in CoreProducers
  /\ (IF IsCas THEN reserved ELSE tail) < MaxPos[mode]
  /\ pc' = [pc EXCEPT ![p] = "load"]
  /\ want' = [want EXCEPT ![p] = n]
  /\ UNCHANGED <<mode, head, tail, reserved, mem, cur, start, off, readVars>>

(* First load of reserve_space: reserved_tail, or head (unread_size). *)
LoadCursor(p) ==
  /\ pc[p] = "load" /\ CanRun(p)
  /\ cur' = [cur EXCEPT ![p] = IF IsCas THEN reserved ELSE head]
  /\ pc' = [pc EXCEPT ![p] = "check"]
  /\ UNCHANGED <<mode, head, tail, reserved, mem, want, start, off, readVars>>

(* Variant: full and empty are told apart by one byte too many. *)
FreeSpaceOffByOne(p) ==
  IF IsCas THEN Size + 1 - (cur[p] - head) ELSE Size + 1 - (tail - cur[p])

(* Second load, and the free space it leads to.  A stale reserved_tail may  *)
(* lie behind head; the wrapped difference then counts as extra room, as    *)
(* the release build computes it.                                           *)
FreeSpace(p) == IF IsCas THEN Size - (cur[p] - head) ELSE Size - (tail - cur[p])

SpaceFound(p) ==
  /\ pc[p] = "check" /\ CanRun(p)
  /\ FreeSpace(p) >= want[p]
  /\ pc' = [pc EXCEPT ![p] = "take"]
  /\ UNCHANGED <<mode, head, tail, reserved, mem, want, cur, start, off, readVars>>

(* STATUS_INSUFFICIENT_RESOURCES: the record is dropped. *)
NoSpace(p) ==
  /\ pc[p] = "check" /\ CanRun(p)
  /\ FreeSpace(p) < want[p]
  /\ Leave(p)
  /\ UNCHANGED <<mode, head, tail, reserved, mem, readVars>>

(* Variant: takes the exchange's result for the end of the reservation. *)
TakeFromEnd(p) ==
  /\ pc[p] = "take" /\ CanRun(p)
  /\ IsCas => cur[p] = reserved
  /\ reserved' = IF IsCas THEN cur[p] + want[p] ELSE reserved
  /\ start' = [start EXCEPT ![p] = (IF IsCas THEN cur[p] ELSE tail) - want[p]]
  /\ off' = [off EXCEPT ![p] = 0]
  /\ cur' = [cur EXCEPT ![p] = 0]
  /\ pc' = [pc EXCEPT ![p] = "write"]
  /\ UNCHANGED <<mode, head, tail, mem, want, readVars>>

(* Variant: a plain store in place of the compare-exchange. *)
TakeWithoutCompare(p) ==
  /\ pc[p] = "take" /\ CanRun(p)
  /\ reserved' = IF IsCas THEN cur[p] + want[p] ELSE reserved
  /\ start' = [start EXCEPT ![p] = IF IsCas THEN cur[p] ELSE tail]
  /\ off' = [off EXCEPT ![p] = 0]
  /\ cur' = [cur EXCEPT ![p] = 0]
  /\ pc' = [pc EXCEPT ![p] = "write"]
  /\ UNCHANGED <<mode, head, tail, mem, want, readVars>>

(* compare_exchange_weak succeeds; the per-core ring just reads tail. *)
TakeReservation(p) ==
  /\ pc[p] = "take" /\ CanRun(p)
  /\ IsCas => cur[p] = reserved
  /\ reserved' = IF IsCas THEN cur[p] + want[p] ELSE reserved
  /\ start' = [start EXCEPT ![p] = IF IsCas THEN cur[p] ELSE tail]
  /\ off' = [off EXCEPT ![p] = 0]
  /\ cur' = [cur EXCEPT ![p] = 0]
  /\ pc' = [pc EXCEPT ![p] = "write"]
  /\ UNCHANGED <<mode, head, tail, mem, want, readVars>>

(* It fails because another producer moved reserved_tail, or spuriously. *)
LoseReservation(p) ==
  /\ IsCas
  /\ pc[p] = "take" /\ CanRun(p)
  /\ pc' = [pc EXCEPT ![p] = "load"]
  /\ cur' = [cur EXCEPT ![p] = 0]
  /\ UNCHANGED <<mode, head, tail, reserved, mem, want, start, off, readVars>>

(* The closure copies the record, header first. *)
PushSlice(p) ==
  /\ pc[p] = "write" /\ CanRun(p)
  /\ off[p] < want[p]
  /\ mem' = [mem EXCEPT ![Index(start[p] + off[p])] =
               [by |-> {p}, start |-> start[p], off |-> off[p],
                len |-> IF off[p] = 0 THEN want[p] ELSE 0, dummy |-> FALSE]]
  /\ off' = [off EXCEPT ![p] = @ + 1]
  /\ UNCHANGED <<mode, head, tail, reserved, pc, want, cur, start, readVars>>

(* The closure fails after any part of the copy, or returns Ok having       *)
(* written nothing: the CAS ring turns the reservation into a dummy record. *)
PushDummy(p) ==
  /\ IsCas
  /\ pc[p] = "write" /\ CanRun(p)
  /\ off[p] < want[p]
  /\ mem' = [mem EXCEPT ![Index(start[p])] =
               [by |-> {p}, start |-> start[p], off |-> 0,
                len |-> want[p], dummy |-> TRUE]]
  /\ pc' = [pc EXCEPT ![p] = "dummy"]
  /\ UNCHANGED <<mode, head, tail, reserved, want, cur, start, off, readVars>>

(* The per-core ring simply leaves tail where it is. *)
Abandon(p) ==
  /\ ~IsCas
  /\ pc[p] = "write" /\ CanRun(p)
  /\ off[p] < want[p]
  /\ Leave(p)
  /\ UNCHANGED <<mode, head, tail, reserved, mem, readVars>>

(* Variant: a dummy publishes only what was written of it. *)
CommitWritten(p) == off[p]

(* What commit_tail publishes: tx.offset, or all of a dummy's reservation. *)
CommitSize(p) == IF pc[p] = "dummy" THEN want[p] ELSE off[p]

(* Variant: tail is stored without waiting for the earlier reservations. *)
CommitUnordered(p) ==
  /\ pc[p] = "dummy" \/ (pc[p] = "write" /\ off[p] = want[p])
  /\ CanRun(p)
  /\ tail' = start[p] + CommitSize(p)
  /\ Leave(p)
  /\ UNCHANGED <<mode, head, reserved, mem, readVars>>

(* commit_tail: the CAS ring waits for its turn, the per-core ring stores. *)
CommitTail(p) ==
  /\ pc[p] = "dummy" \/ (pc[p] = "write" /\ off[p] = want[p])
  /\ CanRun(p)
  /\ IsCas => tail = start[p]
  /\ tail' = start[p] + CommitSize(p)
  /\ Leave(p)
  /\ UNCHANGED <<mode, head, reserved, mem, readVars>>

-----------------------------------------------------------------------------
(* Reader: RingBufferClient::next_packet_for_core and PacketRef::drop *)

(* next_packet_for_core() or drop() returns. *)
Return(r) ==
  /\ rpc' = [rpc EXCEPT ![r] = "idle"]
  /\ at' = [at EXCEPT ![r] = 0]
  /\ unread' = [unread EXCEPT ![r] = 0]
  /\ rlen' = [rlen EXCEPT ![r] = 0]

(* get_buffer_status; nothing to do when the ring is empty or out of range. *)
LoadStatus(r) ==
  /\ rpc[r] = "idle"
  /\ tail - head \in 1..Size
  /\ at' = [at EXCEPT ![r] = head]
  /\ unread' = [unread EXCEPT ![r] = tail - head]
  /\ rpc' = [rpc EXCEPT ![r] = "header"]
  /\ UNCHANGED <<mode, head, tail, reserved, mem, prodVars, rlen>>

HeaderAt(r) == mem[Index(at[r])]
WholeRecord(r) == HeaderAt(r).len > 0 /\ unread[r] >= HeaderAt(r).len

(* A malformed header, or a record not fully published: return None.  One   *)
(* reader at a time never gets here; with two, head may have gone back.     *)
NoRecord(r) ==
  /\ rpc[r] = "header"
  /\ ~WholeRecord(r)
  /\ Return(r)
  /\ UNCHANGED <<mode, head, tail, reserved, mem, prodVars>>

(* A dummy record is stepped over, and the loop looks again. *)
SkipDummy(r) ==
  /\ rpc[r] = "header"
  /\ HeaderAt(r).dummy
  /\ WholeRecord(r)
  /\ head' = at[r] + HeaderAt(r).len
  /\ Return(r)
  /\ UNCHANGED <<mode, tail, reserved, mem, prodVars>>

(* A PacketRef is handed out; it points into the ring. *)
TakeRecord(r) ==
  /\ rpc[r] = "header"
  /\ ~HeaderAt(r).dummy
  /\ WholeRecord(r)
  /\ rlen' = [rlen EXCEPT ![r] = HeaderAt(r).len]
  /\ rpc' = [rpc EXCEPT ![r] = "hold"]
  /\ unread' = [unread EXCEPT ![r] = 0]
  /\ UNCHANGED <<mode, head, tail, reserved, mem, prodVars, at>>

(* The header of the record at head, and what is done with it. *)
ReadHeader(r) == IF WholeRecord(r) THEN SkipDummy(r) \/ TakeRecord(r) ELSE NoRecord(r)

(* Variant: the masked position is stored, not the free-running one. *)
DropMasked(r) ==
  /\ rpc[r] = "hold"
  /\ head' = Index(at[r] + rlen[r])
  /\ Return(r)
  /\ UNCHANGED <<mode, tail, reserved, mem, prodVars>>

(* Dropping it stores old_head + record_len. *)
DropRef(r) ==
  /\ rpc[r] = "hold"
  /\ head' = at[r] + rlen[r]
  /\ Return(r)
  /\ UNCHANGED <<mode, tail, reserved, mem, prodVars>>

-----------------------------------------------------------------------------
Transaction(p) ==
  \/ LoadCursor(p) \/ SpaceFound(p) \/ NoSpace(p)
  \/ TakeReservation(p) \/ LoseReservation(p)
  \/ PushSlice(p) \/ PushDummy(p) \/ Abandon(p) \/ CommitTail(p)

Poll(r) ==
  LoadStatus(r) \/ ReadHeader(r) \/ DropRef(r)

Next ==
  \/ \E p \in Producers : Transaction(p) \/ \E n \in Lens : Begin(p, n)
  \/ \E r \in Readers : Poll(r)

Spec == Init /\ [][Next]_vars

(* A callout that entered transaction() keeps being scheduled, and its      *)
(* compare-exchange does not fail spuriously for ever.  Nothing is assumed  *)
(* of the readers or of new traffic.                                        *)
Fairness ==
  \A p \in Producers : SF_vars(Transaction(p)) /\ SF_vars(TakeReservation(p))

FairSpec == Spec /\ Fairness

-----------------------------------------------------------------------------
(* Type invariant. *)
TypeOK ==
  /\ mode \in {"cas", "core"}
  /\ head \in Nat /\ tail \in Nat /\ reserved \in Nat
  /\ mem \in [0..(Size - 1) -> Cell]
  /\ pc \in [Producers -> {"idle", "load", "check", "take", "write", "dummy"}]
  /\ want \in [Producers -> Nat]
  /\ cur \in [Producers -> Nat]
  /\ start \in [Producers -> Nat]
  /\ off \in [Producers -> Nat]
  /\ rpc \in [Readers -> {"idle", "header", "hold"}]
  /\ at \in [Readers -> Nat]
  /\ unread \in [Readers -> Nat]
  /\ rlen \in [Readers -> Nat]

(* data.rs:61-65, "Atomically reserve space": open reservations lie between *)
(* the published tail and one ring length past head, and never overlap, so  *)
(* that a producer never writes into another's record or into unread data.  *)
ReservationsDisjoint ==
  /\ \A p \in Producers : Open(p) =>
       tail <= start[p] /\ start[p] + want[p] <= head + Size
  /\ \A p, q \in Producers : p # q /\ Open(p) /\ Open(q) =>
       start[p] + want[p] <= start[q] \/ start[q] + want[q] <= start[p]

(* data.rs:106-107: the ordered commit of the CAS ring can always go on.    *)
(* Reserved space that is not published belongs to a chain of open          *)
(* reservations whose first one starts at tail: no gap stops the others.    *)
NoStrandedReservation ==
  IsCas =>
    /\ tail <= reserved
    /\ tail # reserved => \E p \in Producers : Open(p) /\ start[p] = tail
    /\ \A p \in Producers : Open(p) /\ start[p] + want[p] # reserved =>
         \E q \in Producers : Open(q) /\ start[q] = start[p] + want[p]

(* data.rs:68: "SPSC Path: No concurrent writers" on a per-core ring.       *)
NoConcurrentWriters ==
  ~IsCas => \A p, q \in Producers : Open(p) /\ Open(q) => p = q

(* dll/src/ringbuffer.rs:79-81: the bytes behind a PacketRef are one whole  *)
(* record of one producer, from when it is handed out until it is dropped.  *)
HeldIntact ==
  \A r \in Readers : rpc[r] = "hold" =>
    \E p \in Producers : \A i \in 0..(rlen[r] - 1) :
      LET c == mem[Index(at[r] + i)]
      IN  c.by = {p} /\ c.start = at[r] /\ c.off = i /\ ~c.dummy

(* The client gives ring space back only in one direction: head never moves *)
(* backwards and never passes what was published (dll/src/ringbuffer.rs:97, *)
(* 282).                                                                    *)
HeadAdvances == [][head' >= head /\ head' <= tail]_head

(* data.rs:105-107 and per_cpu_ring.rs:311-313: whoever reserved space      *)
(* eventually publishes it, as a record or as a dummy.                      *)
ReservationsClose == \A p \in Producers : Open(p) ~> ~Open(p)

-----------------------------------------------------------------------------
(* Who may share a ring.  SingleWriter is what data.rs:68 assumes of a      *)
(* per-core ring, SingleReader what PacketRef assumes of any ring.          *)
SingleWriter == \A p, q \in CoreProducers : p = q
SingleReader == \A r, s \in Readers : r = s

(* The inductive invariant behind ReservationsDisjoint,                     *)
(* NoStrandedReservation and HeadAdvances: the order of the cursors, what   *)
(* each load still tells a producer when it acts on it, and what a reader   *)
(* knows of the record at head.                                             *)
CursorOrder ==
  /\ head <= tail /\ tail <= head + Size
  /\ IsCas => tail <= reserved /\ reserved <= head + Size

LoadsStillHold ==
  \A p \in Producers :
    /\ pc[p] = "check" /\ IsCas => cur[p] <= reserved
    /\ pc[p] = "check" /\ ~IsCas => cur[p] <= head
    /\ pc[p] = "take" /\ IsCas => cur[p] <= reserved /\ cur[p] + want[p] <= head + Size
    /\ pc[p] = "take" /\ ~IsCas => cur[p] <= head /\ tail + want[p] <= cur[p] + Size

OpenWithin ==
  \A p \in Producers :
    /\ pc[p] # "idle" => want[p] > 0
    /\ pc[p] # "idle" /\ ~IsCas => p \in CoreProducers
    /\ Open(p) => off[p] <= want[p]
    /\ Open(p) /\ IsCas => start[p] + want[p] <= reserved
    /\ Open(p) /\ ~IsCas => start[p] = tail

ReaderAtHead ==
  \A r \in Readers :
    /\ rpc[r] # "idle" => at[r] = head
    /\ rpc[r] = "header" => at[r] + unread[r] <= tail
    /\ rpc[r] = "hold" => at[r] + rlen[r] <= tail

CursorInv ==
  /\ TypeOK
  /\ CursorOrder /\ LoadsStillHold /\ OpenWithin /\ ReaderAtHead
  /\ ReservationsDisjoint /\ NoStrandedReservation
=============================================================================
