------------------------------- MODULE EdgeCore -------------------------------
(***************************************************************************)
(* edgecore (src/src/core/edgecore.c): the syscall-free core with its      *)
(* event ring, its table of host-owned buffers and its active              *)
(* configuration, together with the host that drains the ring and owns the *)
(* heap (src/src/host/host_alloc.c, ADR-003).                              *)
(*                                                                         *)
(* The core never allocates: a request makes a slot PENDING and queues a   *)
(* NEED_ALLOC or NEED_REALLOC event, the host pulls the event, allocates   *)
(* and hands the block over with edgecore_provide_buffer.  Every call is   *)
(* one action; a call that returns an error without touching the core is a *)
(* stuttering step and is not written down.                                *)
(***************************************************************************)
EXTENDS EdgeConfig, FiniteSets

CONSTANTS
  QSize,       \* qsz, the capacity of the event ring
  MaxBufs,     \* EDGECORE_MAX_BUFS
  IdMod,       \* alloc ids are taken modulo IdMod (2^32 in the code)
  MaxSize,     \* bound: largest buffer size asked for
  Blocks,      \* bound: heap blocks the host can have live at once
  NULL,        \* the null pointer
  Configs,     \* configurations a reload may present, valid or not
  MaxMints,    \* bound: alloc ids minted
  MaxDropped,  \* bound: events dropped
  MaxOom,      \* bound: host allocations that fail
  MaxApply     \* bound: configurations presented

ASSUME CoreAssumption ==
  /\ QSize \in Nat \ {0}
  /\ MaxBufs \in Nat \ {0}
  /\ IdMod \in Nat /\ IdMod > 1
  /\ MaxSize \in Nat \ {0}
  /\ NULL \notin Blocks
  /\ {MaxMints, MaxDropped, MaxOom, MaxApply} \subseteq Nat

VARIABLES
  events, head, tail, cnt, dropped,      \* the event ring
  bufs, next_alloc_id,                   \* the buffer table
  cfg, generation, cfg_applied,          \* the active configuration
  heap,                                  \* host: size of each block, 0 if free
  minted, oom, presented, seen,          \* history: ids minted, failed
                                         \* allocations, configurations
                                         \* presented, last generation announced
  abandoned,                             \* history: ids detached while PENDING
  stale                                  \* history: host_realloc was handed a
                                         \* block that was no longer its slot's

ring == <<events, head, tail, cnt, dropped>>
buffers == <<bufs, next_alloc_id, minted, abandoned>>
config == <<cfg, generation, cfg_applied, presented>>
host == <<heap, oom, seen, stale>>
vars == <<ring, buffers, config, host>>

Slots == 1 .. MaxBufs
Index == 0 .. QSize - 1
Sizes == 1 .. MaxSize

EventTypes == {"NONE", "NEED_ALLOC", "NEED_REALLOC", "CONFIG_APPLIED",
               "CONFIG_REJECTED", "QUEUE_OVERFLOW"}
Event == [type : EventTypes, id : 0 .. IdMod - 1, size : 0 .. MaxSize,
          old : Blocks \cup {NULL}, gen : Nat]
Slot == [state : {"FREE", "PENDING", "READY"}, id : 0 .. IdMod - 1,
         ptr : Blocks \cup {NULL}, size : 0 .. MaxSize, requested : 0 .. MaxSize]

NoEvent == [type |-> "NONE", id |-> 0, size |-> 0, old |-> NULL, gen |-> 0]
FreeSlot == [state |-> "FREE", id |-> 0, ptr |-> NULL, size |-> 0,
             requested |-> 0]

\* The events the core emits and the slot of a new request.
NeedAlloc(id, n) ==
  [type |-> "NEED_ALLOC", id |-> id, size |-> n, old |-> NULL, gen |-> 0]
NeedRealloc(id, n, p) ==
  [type |-> "NEED_REALLOC", id |-> id, size |-> n, old |-> p, gen |-> 0]
ConfigApplied(g) ==
  [type |-> "CONFIG_APPLIED", id |-> 0, size |-> 0, old |-> NULL, gen |-> g]
ConfigRejected == [NoEvent EXCEPT !.type = "CONFIG_REJECTED"]
QueueOverflow == [NoEvent EXCEPT !.type = "QUEUE_OVERFLOW"]
PendingSlot(id, n) ==
  [state |-> "PENDING", id |-> id, ptr |-> NULL, size |-> 0, requested |-> n]

\* edgecore_create_with_config: empty ring, zeroed slots, default configuration.
Init ==
  /\ events = [i \in Index |-> NoEvent]
  /\ head = 0 /\ tail = 0 /\ cnt = 0 /\ dropped = 0
  /\ bufs = [s \in Slots |-> FreeSlot]
  /\ next_alloc_id = 1 /\ minted = 0 /\ abandoned = {}
  /\ cfg = edge_config_defaults /\ generation = 0 /\ cfg_applied = FALSE
  /\ presented = 0
  /\ heap = [b \in Blocks |-> 0] /\ oom = 0 /\ seen = 0 /\ stale = FALSE

-------------------------------------------------------------------------------
(* The event ring *)

Full == cnt >= QSize

\* Mutant: the overflow marker replaces the newest event.
emit_event_over_newest(ev) ==
  \/ /\ Full
     /\ dropped < MaxDropped
     /\ events' = [events EXCEPT ![(tail + QSize - 1) % QSize] =
                                 QueueOverflow]
     /\ dropped' = dropped + 1
     /\ UNCHANGED <<head, tail, cnt>>
  \/ /\ ~Full
     /\ events' = [events EXCEPT ![tail] = ev]
     /\ tail' = (tail + 1) % QSize
     /\ cnt' = cnt + 1
     /\ UNCHANGED <<head, dropped>>

\* emit_event: a full ring overwrites its oldest event and drops the new one.
emit_event(ev) ==
  \/ /\ Full
     /\ dropped < MaxDropped
     /\ events' = [events EXCEPT ![head] = QueueOverflow]
     /\ dropped' = dropped + 1
     /\ UNCHANGED <<head, tail, cnt>>
  \/ /\ ~Full
     /\ events' = [events EXCEPT ![tail] = ev]
     /\ tail' = (tail + 1) % QSize
     /\ cnt' = cnt + 1
     /\ UNCHANGED <<head, dropped>>

\* edgecore_next_event on a non-empty ring; the event is events[head].
edgecore_next_event ==
  /\ cnt > 0
  /\ head' = (head + 1) % QSize
  /\ cnt' = cnt - 1
  /\ UNCHANGED <<events, tail, dropped>>

-------------------------------------------------------------------------------
(* The buffer table *)

FreeSlots == {s \in Slots : bufs[s].state = "FREE"}
SlotsOf(id) == {s \in Slots : bufs[s].state # "FREE" /\ bufs[s].id = id}
Lowest(S) == CHOOSE s \in S : \A t \in S : s <= t

\* mint_alloc_id: 0 is skipped; nothing checks that the id is not in use.
mint_alloc_id == IF next_alloc_id = 0 THEN 1 ELSE next_alloc_id
AfterMint_zero == (mint_alloc_id + 1) % IdMod   \* mutant: 0 is not skipped
AfterMint_same == mint_alloc_id                 \* mutant: the counter stands still
AfterMint == IF (mint_alloc_id + 1) % IdMod = 0 THEN 1
             ELSE (mint_alloc_id + 1) % IdMod

\* Mutant: no rollback when the event could not be queued.
request_alloc_no_rollback(n) ==
  /\ FreeSlots # {}
  /\ minted < MaxMints
  /\ minted' = minted + 1
  /\ next_alloc_id' = AfterMint
  /\ emit_event(NeedAlloc(mint_alloc_id, n))
  /\ bufs' = [bufs EXCEPT ![Lowest(FreeSlots)] = PendingSlot(mint_alloc_id, n)]
  /\ UNCHANGED <<abandoned, config, host>>

\* Mutant: the slot is taken but the event is never emitted.
request_alloc_silent(n) ==
  /\ FreeSlots # {}
  /\ minted < MaxMints
  /\ minted' = minted + 1
  /\ next_alloc_id' = AfterMint
  /\ bufs' = [bufs EXCEPT ![Lowest(FreeSlots)] = PendingSlot(mint_alloc_id, n)]
  /\ UNCHANGED <<ring, abandoned, config, host>>

\* edgecore_request_alloc, with the rollback of the slot when the ring is full:
\* the id stays consumed.
edgecore_request_alloc(n) ==
  /\ FreeSlots # {}
  /\ minted < MaxMints
  /\ minted' = minted + 1
  /\ next_alloc_id' = AfterMint
  /\ emit_event(NeedAlloc(mint_alloc_id, n))
  /\ bufs' = IF Full THEN bufs
             ELSE [bufs EXCEPT ![Lowest(FreeSlots)] = PendingSlot(mint_alloc_id, n)]
  /\ UNCHANGED <<abandoned, config, host>>

\* Mutant: a buffer whose growth is already pending may be grown again.
request_realloc_pending(id, n) ==
  /\ SlotsOf(id) # {}
  /\ LET s == Lowest(SlotsOf(id)) IN
     /\ emit_event(NeedRealloc(id, n, bufs[s].ptr))
     /\ bufs' = IF Full THEN bufs
                ELSE [bufs EXCEPT ![s].state = "PENDING", ![s].requested = n]
  /\ UNCHANGED <<next_alloc_id, minted, abandoned, config, host>>

\* Mutant: requested is not restored when the event is dropped.
request_realloc_keeps_size(id, n) ==
  /\ SlotsOf(id) # {}
  /\ LET s == Lowest(SlotsOf(id)) IN
     /\ bufs[s].state = "READY"
     /\ emit_event(NeedRealloc(id, n, bufs[s].ptr))
     /\ bufs' = IF Full THEN [bufs EXCEPT ![s].requested = n]
                ELSE [bufs EXCEPT ![s].state = "PENDING", ![s].requested = n]
  /\ UNCHANGED <<next_alloc_id, minted, abandoned, config, host>>

\* edgecore_request_realloc: a dropped request leaves the buffer READY with
\* requested = size.
edgecore_request_realloc(id, n) ==
  /\ SlotsOf(id) # {}
  /\ LET s == Lowest(SlotsOf(id)) IN
     /\ bufs[s].state = "READY"
     /\ emit_event(NeedRealloc(id, n, bufs[s].ptr))
     /\ bufs' = IF Full THEN [bufs EXCEPT ![s].requested = bufs[s].size]
                ELSE [bufs EXCEPT ![s].state = "PENDING", ![s].requested = n]
  /\ UNCHANGED <<next_alloc_id, minted, abandoned, config, host>>

\* The condition under which edgecore_provide_buffer accepts n bytes for id.
Accepts(id, n) ==
  /\ id # 0
  /\ SlotsOf(id) # {}
  /\ bufs[Lowest(SlotsOf(id))].state = "PENDING"
  /\ n >= bufs[Lowest(SlotsOf(id))].requested

\* edgecore_provide_buffer: the table after it stores block p of n bytes.
edgecore_provide_buffer(id, p, n) ==
  IF Accepts(id, n)
  THEN [bufs EXCEPT ![Lowest(SlotsOf(id))].state = "READY",
                    ![Lowest(SlotsOf(id))].ptr = p,
                    ![Lowest(SlotsOf(id))].size = n]
  ELSE bufs

\* edgecore_detach_buffer, and host_free of the block it returns.  The slot may
\* still be PENDING: its NEED_* event then stays queued, with the pointer that
\* is freed here if the slot was growing.
edgecore_detach_buffer(id) ==
  /\ SlotsOf(id) # {}
  /\ LET s == Lowest(SlotsOf(id)) IN
     /\ bufs' = [bufs EXCEPT ![s] = FreeSlot]
     /\ abandoned' = IF bufs[s].state = "PENDING" THEN abandoned \cup {id} ELSE abandoned
     /\ heap' = [b \in Blocks |-> IF b = bufs[s].ptr THEN 0 ELSE heap[b]]
  /\ UNCHANGED <<ring, next_alloc_id, minted, config, oom, seen, stale>>

-------------------------------------------------------------------------------
(* Configuration *)

\* Mutant: the event announces the generation that was replaced.
apply_config_old_gen(c) ==
  /\ presented < MaxApply
  /\ presented' = presented + 1
  /\ edge_config_validate(c)
  /\ cfg' = c
  /\ generation' = generation + 1
  /\ cfg_applied' = TRUE
  /\ emit_event(ConfigApplied(generation))
  /\ UNCHANGED <<buffers, host>>

\* edgecore_apply_config: validate, then swap and bump the generation; the
\* outcome of emit_event is ignored either way.  (The 64-bit generation counter
\* is not taken modulo its width.)
edgecore_apply_config(c) ==
  /\ presented < MaxApply
  /\ presented' = presented + 1
  /\ \/ /\ ~edge_config_validate(c)
        /\ emit_event(ConfigRejected)
        /\ UNCHANGED <<cfg, generation, cfg_applied>>
     \/ /\ edge_config_validate(c)
        /\ cfg' = c
        /\ generation' = generation + 1
        /\ cfg_applied' = TRUE
        /\ emit_event(ConfigApplied(generation + 1))
  /\ UNCHANGED <<buffers, host>>

\* edgecore_notify_config_rejected: what a reload does when the YAML file
\* cannot be loaded.
edgecore_notify_config_rejected ==
  /\ presented < MaxApply
  /\ presented' = presented + 1
  /\ emit_event(ConfigRejected)
  /\ UNCHANGED <<buffers, host, cfg, generation, cfg_applied>>

-------------------------------------------------------------------------------
(* The host: pull one event and act on it *)

\* host_alloc(ev.size), then edgecore_provide_buffer; a block the core refuses
\* is freed again.
ServeAlloc ==
  /\ edgecore_next_event
  /\ events[head].type = "NEED_ALLOC"
  /\ \E b \in Blocks :
       /\ heap[b] = 0
       /\ bufs' = edgecore_provide_buffer(events[head].id, b, events[head].size)
       /\ heap' = IF Accepts(events[head].id, events[head].size)
                  THEN [heap EXCEPT ![b] = events[head].size] ELSE heap
  /\ UNCHANGED <<next_alloc_id, minted, abandoned, config, oom, seen, stale>>

\* host_realloc(ev.old_ptr, ev.size): the block grows in place or moves, and one
\* the core refuses is freed.  When the slot was detached meanwhile the pointer is
\* stale: its block was freed, and may since be another slot's, from which it is
\* then taken.  To realloc a freed block is undefined (glibc may abort), so heap
\* is of no meaning once stale holds.
ServeRealloc ==
  /\ edgecore_next_event
  /\ events[head].type = "NEED_REALLOC"
  /\ \E b \in Blocks :
       /\ heap[b] = 0 \/ b = events[head].old
       /\ bufs' = edgecore_provide_buffer(events[head].id, b, events[head].size)
       /\ heap' = [x \in Blocks |->
                     IF x = b /\ Accepts(events[head].id, events[head].size)
                     THEN events[head].size
                     ELSE IF x \in {b, events[head].old} THEN 0 ELSE heap[x]]
  /\ stale' = (stale \/ ~ \E s \in SlotsOf(events[head].id) : bufs[s].ptr = events[head].old)
  /\ UNCHANGED <<next_alloc_id, minted, abandoned, config, oom, seen>>

\* host_alloc or host_realloc returns NULL: the event is consumed, the slot is
\* left PENDING and an old block stays where it was.
ServeFails ==
  /\ oom < MaxOom
  /\ edgecore_next_event
  /\ events[head].type \in {"NEED_ALLOC", "NEED_REALLOC"}
  /\ oom' = oom + 1
  /\ UNCHANGED <<buffers, config, heap, seen, stale>>

\* Any other event is only observed.
Observe ==
  /\ edgecore_next_event
  /\ events[head].type \in {"CONFIG_APPLIED", "CONFIG_REJECTED", "QUEUE_OVERFLOW"}
  /\ seen' = IF events[head].type = "CONFIG_APPLIED" THEN events[head].gen ELSE seen
  /\ UNCHANGED <<buffers, config, heap, oom, stale>>

Drain == ServeAlloc \/ ServeRealloc \/ Observe

Next ==
  \/ \E n \in Sizes : edgecore_request_alloc(n)
  \/ \E id \in 1 .. IdMod - 1, n \in Sizes : edgecore_request_realloc(id, n)
  \/ \E id \in 1 .. IdMod - 1 : edgecore_detach_buffer(id)
  \/ \E c \in Configs : edgecore_apply_config(c)
  \/ edgecore_notify_config_rejected
  \/ ServeAlloc
  \/ ServeRealloc
  \/ ServeFails
  \/ Observe

Spec == Init /\ [][Next]_vars

\* The host loop keeps draining the ring (ADR-003: it must drain NEED_* before
\* other work); nobody is obliged to make requests.
FairSpec == Spec /\ WF_vars(Drain)

-------------------------------------------------------------------------------
(* Properties *)

RingTypeOK ==
  /\ events \in [Index -> Event]
  /\ head \in Index /\ tail \in Index /\ cnt \in 0 .. QSize /\ dropped \in Nat

BuffersTypeOK ==
  /\ bufs \in [Slots -> Slot]
  /\ next_alloc_id \in 1 .. IdMod - 1 /\ minted \in Nat
  /\ abandoned \subseteq 1 .. IdMod - 1

ConfigTypeOK ==
  generation \in Nat /\ cfg_applied \in BOOLEAN /\ presented \in Nat

HostTypeOK ==
  heap \in [Blocks -> 0 .. MaxSize] /\ oom \in Nat /\ seen \in Nat
  /\ stale \in BOOLEAN

\* Type correctness: ring indices stay in range, alloc ids are never 0 (mint_alloc_id
\* skips it on wrap-around), slots and events are well formed.
TypeOK == RingTypeOK /\ BuffersTypeOK /\ ConfigTypeOK /\ HostTypeOK

\* The queued events, oldest first, as next_event will hand them out.
Queue == [i \in 1 .. cnt |-> events[(head + i - 1) % QSize]]

\* The ring of emit_event and edgecore_next_event (head, tail and cnt over a
\* circular array) is a bounded FIFO queue: no wrap-around of the indices ever
\* reorders, duplicates or loses an event other than the one the overflow rule
\* overwrites.
EQ == INSTANCE EventQueue WITH
        queue <- Queue, Capacity <- QSize,
        Overflow <- QueueOverflow

\* The refinement: emit_event and edgecore_next_event implement EventQueue.
RingIsQueue == EQ!Spec

\* Fewer ids were minted than exist, so next_alloc_id has not come round.
NoWrap == minted < IdMod

IsNeed(ev) == ev.type \in {"NEED_ALLOC", "NEED_REALLOC"}

\* find_slot_by_id is never ambiguous: until the 32-bit id counter wraps, no two
\* slots in use carry the same alloc_id, whatever requests were rolled back on
\* the way.
UniqueIds ==
  NoWrap => \A s, t \in Slots :
              bufs[s].state # "FREE" /\ bufs[t].state # "FREE" /\ s # t
                => bufs[s].id # bufs[t].id

\* Until the id counter wraps, a NEED_* event means one of two things when the
\* host gets to it.  If the slot it was queued for was not detached while PENDING,
\* that slot is PENDING still, under the same id, waits for exactly that size, and
\* the old pointer host_realloc will be given is its own.  If it was, no slot in
\* use carries the id, so edgecore_provide_buffer refuses whatever the host brings
\* and no newer buffer is served by mistake.  Either way no second event is queued
\* for the id.
NeedsMatchSlots ==
  NoWrap => \A i \in 1 .. cnt : IsNeed(Queue[i]) =>
    /\ Queue[i].id \notin abandoned =>
         \E s \in Slots :
           /\ bufs[s].state = "PENDING"
           /\ bufs[s].id = Queue[i].id
           /\ bufs[s].requested = Queue[i].size
           /\ bufs[s].ptr = Queue[i].old
           /\ (Queue[i].type = "NEED_ALLOC") = (bufs[s].ptr = NULL)
    /\ Queue[i].id \in abandoned => SlotsOf(Queue[i].id) = {}
    /\ \A j \in 1 .. cnt :
         IsNeed(Queue[j]) /\ Queue[j].id = Queue[i].id => j = i

\* Pending slots for which no event is queued any more.
Unserved ==
  {s \in Slots : /\ bufs[s].state = "PENDING"
                 /\ ~ \E i \in 1 .. cnt : IsNeed(Queue[i]) /\ Queue[i].id = bufs[s].id}

\* A slot is only ever left PENDING without an event by an overflow that
\* overwrote its NEED_* event or by a host allocation that failed, and each of
\* these costs at most one slot.
LostNeedsBounded == NoWrap => Cardinality(Unserved) <= dropped + oom

\* The comment in edgecore_request_alloc: the rollback on a full queue is there
\* "so host is not left with a stuck pending".
NoStuckPending == oom = 0 => Unserved = {}

\* Host memory and the buffer table agree: a live block belongs to exactly one
\* slot, a READY slot has a live block of at least the size asked for, and a
\* slot whose growth is pending still has its old block intact.  Only a buffer
\* detached while it was PENDING can end this: its queued NEED_REALLOC makes the
\* host realloc a block it has freed (stale).
HeapOwned ==
  NoWrap =>
    /\ stale => abandoned # {}
    /\ ~stale =>
         /\ \A b \in Blocks : heap[b] # 0 => \E s \in Slots : bufs[s].ptr = b
         /\ \A s, t \in Slots :
              bufs[s].ptr = bufs[t].ptr /\ bufs[s].ptr # NULL => s = t
         /\ \A s \in Slots :
              /\ bufs[s].ptr # NULL
                   => heap[bufs[s].ptr] = bufs[s].size /\ bufs[s].size > 0
              /\ bufs[s].state = "READY"
                   => bufs[s].ptr # NULL /\ bufs[s].size >= bufs[s].requested

\* The generations announced by queued CONFIG_APPLIED events.
Announced == {Queue[i].gen : i \in {j \in 1 .. cnt : Queue[j].type = "CONFIG_APPLIED"}}

\* As long as no event was dropped the host hears of every applied
\* configuration: what it saw, followed by what is queued in order, is every
\* generation up to the active one.
ConfigAnnounced ==
  dropped = 0 =>
    /\ Announced = seen + 1 .. generation
    /\ \A i, j \in 1 .. cnt :
         /\ Queue[i].type = "CONFIG_APPLIED" /\ Queue[j].type = "CONFIG_APPLIED"
         /\ i < j
         => Queue[i].gen < Queue[j].gen

\* A draining host answers every request: a pending slot is eventually served
\* or given up, unless an event was dropped or an allocation failed.
PendingServed ==
  \A s \in Slots :
    bufs[s].state = "PENDING" ~> bufs[s].state # "PENDING" \/ dropped + oom > 0 \/ ~NoWrap
===============================================================================
