---------------------------- MODULE EdgeCoreProofs ----------------------------
(***************************************************************************)
(* Theorems about EdgeCore for every ring size, table size, id width and   *)
(* set of heap blocks.                                                     *)
(***************************************************************************)
EXTENDS EdgeCore, Sequences, FiniteSetTheorems, WellFoundedInduction, TLAPS

\* A non-empty set of slots has a lowest member: the loops of find_free_slot and
\* find_slot_by_id return a slot of the set they search.
LEMMA LowestIsMember ==
  ASSUME NEW S, S \subseteq Slots, S # {}
  PROVE  Lowest(S) \in S
<1>1. S \subseteq Nat
  BY CoreAssumption DEF Slots
<1>2. PICK x \in S : \A y \in S : ~(<<y, x>> \in OpToRel(<, Nat))
  BY <1>1, NatLessThanWellFounded, WFMin
<1>3. OpToRel(<, Nat) = {ss \in Nat \X Nat : ss[1] < ss[2]}
  BY DEF OpToRel
<1>4. \A y \in S : x <= y
  <2> TAKE y \in S
  <2>1. ~(<<y, x>> \in {ss \in Nat \X Nat : ss[1] < ss[2]})
    BY <1>2, <1>3
  <2>2. x \in Nat /\ y \in Nat
    BY <1>1
  <2> QED
    BY <2>1, <2>2
<1> QED
  BY <1>4 DEF Lowest

\* The id counter stays within 1 .. IdMod - 1 when mint_alloc_id moves it on.
LEMMA MintIsId ==
  ASSUME next_alloc_id \in 1 .. IdMod - 1
  PROVE  /\ mint_alloc_id = next_alloc_id
         /\ AfterMint \in 1 .. IdMod - 1
         /\ next_alloc_id + 1 < IdMod => AfterMint = next_alloc_id + 1
<1>1. mint_alloc_id = next_alloc_id
  BY DEF mint_alloc_id
<1>2. (next_alloc_id + 1) % IdMod \in 0 .. IdMod - 1
  BY CoreAssumption
<1>3. next_alloc_id + 1 < IdMod => (next_alloc_id + 1) % IdMod = next_alloc_id + 1
  BY CoreAssumption
<1> QED
  BY <1>1, <1>2, <1>3, CoreAssumption DEF AfterMint

\* The events the core emits and the slots it writes are well-typed.
LEMMA EventsTyped ==
  /\ NoEvent \in Event /\ QueueOverflow \in Event /\ ConfigRejected \in Event
  /\ \A g \in Nat : ConfigApplied(g) \in Event
  /\ \A id \in 1 .. IdMod - 1, n \in Sizes : NeedAlloc(id, n) \in Event
  /\ \A id \in 1 .. IdMod - 1, n \in Sizes, q \in Blocks \cup {NULL} :
       NeedRealloc(id, n, q) \in Event
<1>1. 0 \in 0 .. MaxSize /\ 0 \in 0 .. IdMod - 1 /\ Sizes \subseteq 0 .. MaxSize
      /\ 1 .. IdMod - 1 \subseteq 0 .. IdMod - 1
  BY CoreAssumption DEF Sizes
<1> QED
  BY <1>1 DEF NoEvent, QueueOverflow, ConfigRejected, ConfigApplied, NeedAlloc,
     NeedRealloc, Event, EventTypes

LEMMA SlotsTyped ==
  /\ FreeSlot \in Slot
  /\ \A id \in 1 .. IdMod - 1, n \in Sizes : PendingSlot(id, n) \in Slot
<1>1. 0 \in 0 .. MaxSize /\ 0 \in 0 .. IdMod - 1 /\ Sizes \subseteq 0 .. MaxSize
      /\ 1 .. IdMod - 1 \subseteq 0 .. IdMod - 1
  BY CoreAssumption DEF Sizes
<1> QED
  BY <1>1 DEF FreeSlot, PendingSlot, Slot

\* Moving a ring index on by one keeps it an index.
LEMMA NextIndex ==
  ASSUME NEW i \in Index
  PROVE  (i + 1) % QSize \in Index
  BY CoreAssumption DEF Index

\* emit_event keeps the ring well-typed.
LEMMA EmitTyped ==
  ASSUME RingTypeOK, NEW ev \in Event, emit_event(ev)
  PROVE  RingTypeOK'
<1>1. CASE Full
  BY <1>1, CoreAssumption, EventsTyped DEF RingTypeOK, emit_event, Full, Index
<1>2. CASE ~Full
  <2>1. (tail + 1) % QSize \in Index
    BY NextIndex DEF RingTypeOK
  <2>2. cnt + 1 \in 0 .. QSize
    BY <1>2, CoreAssumption DEF RingTypeOK, Full
  <2> QED
    BY <1>2, <2>1, <2>2, CoreAssumption DEF RingTypeOK, emit_event, Full
<1> QED
  BY <1>1, <1>2

\* So does edgecore_next_event.
LEMMA TakeTyped ==
  ASSUME RingTypeOK, edgecore_next_event
  PROVE  RingTypeOK'
<1>1. (head + 1) % QSize \in Index
  BY NextIndex DEF RingTypeOK
<1> QED
  BY <1>1, CoreAssumption DEF RingTypeOK, edgecore_next_event

\* The slot find_slot_by_id returns.
LEMMA SlotOfId ==
  ASSUME NEW id, SlotsOf(id) # {}
  PROVE  /\ Lowest(SlotsOf(id)) \in Slots
         /\ bufs[Lowest(SlotsOf(id))].state # "FREE"
         /\ bufs[Lowest(SlotsOf(id))].id = id
<1>1. SlotsOf(id) \subseteq Slots
  BY DEF SlotsOf
<1>2. Lowest(SlotsOf(id)) \in SlotsOf(id)
  BY <1>1, LowestIsMember
<1> QED
  BY <1>2 DEF SlotsOf

\* edgecore_provide_buffer keeps the table well-typed.
LEMMA ProvideTyped ==
  ASSUME BuffersTypeOK, NEW id, NEW p \in Blocks, NEW n \in 0 .. MaxSize
  PROVE  edgecore_provide_buffer(id, p, n) \in [Slots -> Slot]
<1>1. CASE Accepts(id, n)
  <2>1. Lowest(SlotsOf(id)) \in Slots
    BY <1>1, SlotOfId DEF Accepts
  <2> DEFINE s == Lowest(SlotsOf(id))
  <2>2. bufs[s] \in Slot
    BY <2>1 DEF BuffersTypeOK
  <2>3. [bufs[s] EXCEPT !.state = "READY", !.ptr = p, !.size = n] \in Slot
    BY <2>2 DEF Slot
  <2>4. edgecore_provide_buffer(id, p, n)
          = [bufs EXCEPT ![s] = [bufs[s] EXCEPT !.state = "READY", !.ptr = p, !.size = n]]
    BY <1>1, <2>1, <2>2 DEF edgecore_provide_buffer, BuffersTypeOK, Slot
  <2> QED
    BY <2>3, <2>4 DEF BuffersTypeOK
<1>2. CASE ~Accepts(id, n)
  BY <1>2 DEF edgecore_provide_buffer, BuffersTypeOK
<1> QED
  BY <1>1, <1>2

LEMMA InitTyped == Init => TypeOK
<1> SUFFICES ASSUME Init PROVE TypeOK
  OBVIOUS
<1>1. RingTypeOK
  BY EventsTyped, CoreAssumption DEF Init, RingTypeOK, Index
<1>2. BuffersTypeOK
  BY SlotsTyped, CoreAssumption DEF Init, BuffersTypeOK
<1>3. cfg_applied \in BOOLEAN
  BY DEF Init
<1>4. generation \in Nat /\ presented \in Nat /\ HostTypeOK
  <2>1. stale \in BOOLEAN
    BY DEF Init
  <2>2. heap \in [Blocks -> 0 .. MaxSize] /\ oom \in Nat /\ seen \in Nat
    BY CoreAssumption DEF Init
  <2> QED
    BY <2>1, <2>2 DEF Init, HostTypeOK
<1> QED
  BY <1>1, <1>2, <1>3, <1>4 DEF TypeOK, ConfigTypeOK

LEMMA RequestAllocTyped ==
  ASSUME TypeOK, NEW n \in Sizes, edgecore_request_alloc(n)
  PROVE  TypeOK'
<1>1. mint_alloc_id \in 1 .. IdMod - 1 /\ AfterMint \in 1 .. IdMod - 1
  BY MintIsId DEF TypeOK, BuffersTypeOK
<1>2. RingTypeOK'
  BY <1>1, EventsTyped, EmitTyped DEF edgecore_request_alloc, TypeOK
<1>3. bufs' \in [Slots -> Slot]
  BY <1>1, SlotsTyped DEF edgecore_request_alloc, TypeOK, BuffersTypeOK
<1>4. BuffersTypeOK'
  BY <1>1, <1>3 DEF edgecore_request_alloc, TypeOK, BuffersTypeOK
<1>5. ConfigTypeOK' /\ HostTypeOK'
  BY DEF edgecore_request_alloc, TypeOK, ConfigTypeOK, HostTypeOK, config, host
<1> QED
  BY <1>2, <1>4, <1>5 DEF TypeOK

LEMMA RequestReallocTyped ==
  ASSUME TypeOK, NEW id \in 1 .. IdMod - 1, NEW n \in Sizes,
         edgecore_request_realloc(id, n)
  PROVE  TypeOK'
<1> DEFINE s == Lowest(SlotsOf(id))
<1>1. s \in Slots
  BY SlotOfId DEF edgecore_request_realloc
<1>2. bufs[s] \in Slot
  BY <1>1 DEF TypeOK, BuffersTypeOK
<1>3. n \in 0 .. MaxSize
  BY CoreAssumption DEF Sizes
<1>4. bufs[s].ptr \in Blocks \cup {NULL}
  BY <1>2 DEF Slot
<1>5. RingTypeOK'
  BY <1>4, EventsTyped, EmitTyped DEF edgecore_request_realloc, TypeOK
<1>6. bufs' \in [Slots -> Slot]
  <2>1. [bufs[s] EXCEPT !.requested = bufs[s].size] \in Slot
    BY <1>2 DEF Slot
  <2>2. [bufs[s] EXCEPT !.state = "PENDING", !.requested = n] \in Slot
    BY <1>2, <1>3 DEF Slot
  <2>3. bufs' \in {[bufs EXCEPT ![s] = [bufs[s] EXCEPT !.requested = bufs[s].size]],
                   [bufs EXCEPT ![s] = [bufs[s] EXCEPT !.state = "PENDING",
                                                       !.requested = n]]}
    BY <1>1, <1>2 DEF edgecore_request_realloc, TypeOK, BuffersTypeOK, Slot
  <2> QED
    BY <2>1, <2>2, <2>3 DEF TypeOK, BuffersTypeOK
<1>7. BuffersTypeOK'
  BY <1>6 DEF edgecore_request_realloc, TypeOK, BuffersTypeOK
<1>8. ConfigTypeOK' /\ HostTypeOK'
  BY DEF edgecore_request_realloc, TypeOK, ConfigTypeOK, HostTypeOK, config, host
<1> QED
  BY <1>5, <1>7, <1>8 DEF TypeOK

\* The event the host pulls is well-typed.
LEMMA PulledTyped ==
  ASSUME TypeOK
  PROVE  events[head] \in Event
  BY DEF TypeOK, RingTypeOK

LEMMA NextTyped == TypeOK /\ [Next]_vars => TypeOK'
<1> SUFFICES ASSUME TypeOK, [Next]_vars PROVE TypeOK'
  OBVIOUS
<1>1. ASSUME NEW n \in Sizes, edgecore_request_alloc(n) PROVE TypeOK'
  BY <1>1, RequestAllocTyped
<1>2. ASSUME NEW id \in 1 .. IdMod - 1, NEW n \in Sizes, edgecore_request_realloc(id, n)
      PROVE TypeOK'
  BY <1>2, RequestReallocTyped
<1>3. ASSUME NEW id \in 1 .. IdMod - 1, edgecore_detach_buffer(id) PROVE TypeOK'
  <2>1. BuffersTypeOK'
    BY <1>3, SlotsTyped DEF edgecore_detach_buffer, TypeOK, BuffersTypeOK
  <2>2. heap' \in [Blocks -> 0 .. MaxSize]
    BY <1>3, CoreAssumption DEF edgecore_detach_buffer, TypeOK, HostTypeOK
  <2> QED
    BY <1>3, <2>1, <2>2 DEF edgecore_detach_buffer, TypeOK, RingTypeOK, ConfigTypeOK,
       HostTypeOK, ring, config
<1>4. ASSUME NEW c \in Configs, edgecore_apply_config(c) PROVE TypeOK'
  <2>1. RingTypeOK'
    <3>1. generation + 1 \in Nat
      BY DEF TypeOK, ConfigTypeOK
    <3> QED
      BY <1>4, <3>1, EventsTyped, EmitTyped DEF edgecore_apply_config, TypeOK
  <2>2. ConfigTypeOK'
    <3>1. cfg_applied' \in BOOLEAN
      BY <1>4 DEF edgecore_apply_config, TypeOK, ConfigTypeOK
    <3>2. generation' \in Nat /\ presented' \in Nat
      BY <1>4 DEF edgecore_apply_config, TypeOK, ConfigTypeOK
    <3> QED
      BY <3>1, <3>2 DEF ConfigTypeOK
  <2> QED
    BY <1>4, <2>1, <2>2 DEF edgecore_apply_config, TypeOK, BuffersTypeOK, HostTypeOK,
       buffers, host
<1>5. CASE edgecore_notify_config_rejected
  <2>1. RingTypeOK'
    BY <1>5, EventsTyped, EmitTyped DEF edgecore_notify_config_rejected, TypeOK
  <2> QED
    BY <1>5, <2>1 DEF edgecore_notify_config_rejected, TypeOK, BuffersTypeOK, HostTypeOK,
       ConfigTypeOK, buffers, host
<1>6. CASE ServeAlloc
  <2>1. RingTypeOK'
    BY <1>6, TakeTyped DEF ServeAlloc, TypeOK
  <2>2. events[head].size \in 0 .. MaxSize
    BY PulledTyped DEF Event
  <2>3. bufs' \in [Slots -> Slot]
    BY <1>6, <2>2, ProvideTyped DEF ServeAlloc, TypeOK
  <2>4. heap' \in [Blocks -> 0 .. MaxSize]
    BY <1>6, <2>2 DEF ServeAlloc, TypeOK, HostTypeOK
  <2> QED
    BY <1>6, <2>1, <2>3, <2>4 DEF ServeAlloc, TypeOK, BuffersTypeOK, ConfigTypeOK,
       HostTypeOK, config
<1>7. CASE ServeRealloc
  <2>1. RingTypeOK'
    BY <1>7, TakeTyped DEF ServeRealloc, TypeOK
  <2>2. events[head].size \in 0 .. MaxSize
    BY PulledTyped DEF Event
  <2>3. bufs' \in [Slots -> Slot]
    BY <1>7, <2>2, ProvideTyped DEF ServeRealloc, TypeOK
  <2>4. heap' \in [Blocks -> 0 .. MaxSize]
    BY <1>7, <2>2, CoreAssumption DEF ServeRealloc, TypeOK, HostTypeOK
  <2> QED
    BY <1>7, <2>1, <2>3, <2>4 DEF ServeRealloc, TypeOK, BuffersTypeOK, ConfigTypeOK,
       HostTypeOK, config
<1>8. CASE ServeFails
  <2>1. RingTypeOK'
    BY <1>8, TakeTyped DEF ServeFails, TypeOK
  <2> QED
    BY <1>8, <2>1 DEF ServeFails, TypeOK, BuffersTypeOK, ConfigTypeOK, HostTypeOK,
       buffers, config
<1>9. CASE Observe
  <2>1. RingTypeOK'
    BY <1>9, TakeTyped DEF Observe, TypeOK
  <2>2. events[head].gen \in Nat
    BY PulledTyped DEF Event
  <2> QED
    BY <1>9, <2>1, <2>2 DEF Observe, TypeOK, BuffersTypeOK, ConfigTypeOK, HostTypeOK,
       buffers, config
<1>10. CASE UNCHANGED vars
  BY <1>10 DEF TypeOK, RingTypeOK, BuffersTypeOK, ConfigTypeOK, HostTypeOK, vars, ring,
     buffers, config, host
<1> QED
  BY <1>1, <1>2, <1>3, <1>4, <1>5, <1>6, <1>7, <1>8, <1>9, <1>10 DEF Next

\* Every reachable state of the core is well-typed, for every ring and table size:
\* no ring index leaves the array, the ring never holds more than QSize events,
\* and mint_alloc_id never hands out 0.
THEOREM TypeCorrect == Spec => []TypeOK
<1>1. Init => TypeOK
  BY InitTyped
<1>2. TypeOK /\ [Next]_vars => TypeOK'
  BY NextTyped
<1> QED
  BY <1>1, <1>2, PTL DEF Spec

-------------------------------------------------------------------------------
(* find_slot_by_id is never ambiguous *)

\* What makes UniqueIds inductive: until the counter wraps, next_alloc_id is one
\* more than the number of ids minted and every slot in use carries an id that
\* was minted, so the next id is nobody's.
IdsInv ==
  NoWrap =>
    /\ minted + 1 < IdMod => next_alloc_id = minted + 1
    /\ \A s \in Slots : bufs[s].state # "FREE" => bufs[s].id \in 1 .. minted

\* And of the ids given up while PENDING: each was minted, and no slot in use
\* carries one, so that edgecore_provide_buffer refuses whatever is brought for it.
GoneInv ==
  NoWrap =>
    /\ abandoned \subseteq 1 .. minted
    /\ \A s \in Slots : bufs[s].state # "FREE" => bufs[s].id \notin abandoned

IInv == TypeOK /\ IdsInv /\ UniqueIds /\ GoneInv

\* A step that mints no id and gives no slot a new one keeps both.
LEMMA SameIds ==
  ASSUME IdsInv, UniqueIds, UNCHANGED <<next_alloc_id, minted>>,
         \A s \in Slots : bufs'[s].state # "FREE" =>
                             bufs[s].state # "FREE" /\ bufs'[s].id = bufs[s].id
  PROVE  IdsInv' /\ UniqueIds' /\ (GoneInv /\ abandoned' = abandoned => GoneInv')
  BY DEF IdsInv, UniqueIds, GoneInv, NoWrap

\* edgecore_provide_buffer is such a step.
LEMMA ProvideSameIds ==
  ASSUME BuffersTypeOK, NEW id, NEW p \in Blocks, NEW n \in 0 .. MaxSize,
         NEW s \in Slots, edgecore_provide_buffer(id, p, n)[s].state # "FREE"
  PROVE  /\ bufs[s].state # "FREE"
         /\ edgecore_provide_buffer(id, p, n)[s].id = bufs[s].id
<1>1. CASE Accepts(id, n)
  <2>1. Lowest(SlotsOf(id)) \in Slots /\ bufs[Lowest(SlotsOf(id))].state # "FREE"
    BY <1>1, SlotOfId DEF Accepts
  <2>2. bufs[s] \in Slot /\ bufs[Lowest(SlotsOf(id))] \in Slot
    BY <2>1 DEF BuffersTypeOK
  <2> QED
    BY <1>1, <2>1, <2>2 DEF edgecore_provide_buffer, BuffersTypeOK, Slot
<1>2. CASE ~Accepts(id, n)
  BY <1>2 DEF edgecore_provide_buffer
<1> QED
  BY <1>1, <1>2

LEMMA RequestAllocIds ==
  ASSUME IInv, NEW n \in Sizes, edgecore_request_alloc(n)
  PROVE  IdsInv' /\ UniqueIds' /\ GoneInv'
<1>1. CASE ~NoWrap'
  BY <1>1 DEF IdsInv, UniqueIds, GoneInv
<1>2. CASE NoWrap'
  <2>1. minted \in Nat /\ minted' = minted + 1 /\ minted + 1 < IdMod
    BY <1>2 DEF IInv, TypeOK, BuffersTypeOK, edgecore_request_alloc, NoWrap
  <2>2. NoWrap /\ next_alloc_id = minted + 1
    BY <2>1, CoreAssumption DEF IInv, IdsInv, NoWrap
  <2>3. mint_alloc_id = minted + 1
    BY <2>2, MintIsId DEF IInv, TypeOK, BuffersTypeOK
  <2>4. minted' + 1 < IdMod => next_alloc_id' = minted' + 1
    BY <2>1, <2>2, MintIsId DEF IInv, TypeOK, BuffersTypeOK, edgecore_request_alloc
  <2>5. \A s \in Slots : bufs[s].state # "FREE" => bufs[s].id \in 1 .. minted
    BY <2>2 DEF IInv, IdsInv
  <2> DEFINE f == Lowest(FreeSlots)
  <2>6. \A s \in Slots : bufs'[s] = bufs[s] \/ (s = f /\ bufs'[s] = PendingSlot(minted + 1, n))
    BY <2>3 DEF edgecore_request_alloc, IInv, TypeOK, BuffersTypeOK
  <2>7. \A s \in Slots : bufs'[s].state # "FREE" =>
          \/ bufs'[s] = bufs[s] /\ bufs[s].id \in 1 .. minted
          \/ s = f /\ bufs'[s].id = minted + 1
    BY <2>5, <2>6 DEF PendingSlot
  <2>8. \A s \in Slots : bufs'[s].state # "FREE" => bufs'[s].id \in 1 .. minted'
    BY <2>1, <2>7
  <2>9. ASSUME NEW s \in Slots, NEW u \in Slots, s # u,
               bufs'[s].state # "FREE", bufs'[u].state # "FREE"
        PROVE  bufs'[s].id # bufs'[u].id
    <3>1. CASE bufs'[s] = bufs[s] /\ bufs'[u] = bufs[u]
      BY <2>2, <2>9, <3>1 DEF IInv, UniqueIds
    <3>2. CASE ~(bufs'[s] = bufs[s] /\ bufs'[u] = bufs[u])
      BY <2>1, <2>7, <2>9, <3>2
    <3> QED
      BY <3>1, <3>2
  <2>10. GoneInv'
    <3>1. abandoned' = abandoned
      BY DEF edgecore_request_alloc
    <3>2. abandoned \subseteq 1 .. minted
          /\ \A s \in Slots : bufs[s].state # "FREE" => bufs[s].id \notin abandoned
      BY <2>2 DEF IInv, GoneInv
    <3>3. minted + 1 \notin abandoned
      BY <2>1, <3>2
    <3>4. abandoned' \subseteq 1 .. minted'
      BY <2>1, <3>1, <3>2
    <3>5. \A s \in Slots : bufs'[s].state # "FREE" => bufs'[s].id \notin abandoned'
      BY <2>7, <3>1, <3>2, <3>3
    <3> QED
      BY <3>4, <3>5 DEF GoneInv
  <2> QED
    BY <2>4, <2>8, <2>9, <2>10 DEF IdsInv, UniqueIds
<1> QED
  BY <1>1, <1>2

LEMMA NextIds == IInv /\ [Next]_vars => IInv'
<1> SUFFICES ASSUME IInv, [Next]_vars PROVE IInv'
  OBVIOUS
<1>0. TypeOK' /\ TypeOK
  BY NextTyped DEF IInv
<1> SUFFICES IdsInv' /\ UniqueIds' /\ GoneInv'
  BY <1>0 DEF IInv
<1>1. ASSUME NEW n \in Sizes, edgecore_request_alloc(n) PROVE IdsInv' /\ UniqueIds' /\ GoneInv'
  BY <1>1, RequestAllocIds
<1>2. ASSUME NEW id \in 1 .. IdMod - 1, NEW n \in Sizes, edgecore_request_realloc(id, n)
      PROVE IdsInv' /\ UniqueIds' /\ GoneInv'
  <2>1. Lowest(SlotsOf(id)) \in Slots /\ bufs[Lowest(SlotsOf(id))].state # "FREE"
    BY <1>2, SlotOfId DEF edgecore_request_realloc
  <2>2. \A s \in Slots : bufs'[s].state # "FREE" =>
          bufs[s].state # "FREE" /\ bufs'[s].id = bufs[s].id
    BY <1>0, <1>2, <2>1 DEF edgecore_request_realloc, TypeOK, BuffersTypeOK, Slot
  <2> QED
    BY <1>2, <2>2, SameIds DEF edgecore_request_realloc, IInv
<1>3. ASSUME NEW id \in 1 .. IdMod - 1, edgecore_detach_buffer(id)
      PROVE IdsInv' /\ UniqueIds' /\ GoneInv'
  <2>1. \A s \in Slots : bufs'[s].state # "FREE" =>
          bufs[s].state # "FREE" /\ bufs'[s].id = bufs[s].id
    BY <1>0, <1>3 DEF edgecore_detach_buffer, TypeOK, BuffersTypeOK, FreeSlot
  <2> DEFINE u == Lowest(SlotsOf(id))
  <2>2. IdsInv' /\ UniqueIds'
    BY <1>3, <2>1, SameIds DEF edgecore_detach_buffer, IInv
  <2>3. GoneInv'
    <3> SUFFICES ASSUME NoWrap' PROVE GoneInv'
      BY DEF GoneInv
    <3>1. u \in Slots /\ bufs[u].state # "FREE" /\ bufs[u].id = id
      BY <1>3, SlotOfId DEF edgecore_detach_buffer
    <3>2. NoWrap /\ minted' = minted /\ abandoned' \subseteq abandoned \cup {id}
      BY <1>3 DEF edgecore_detach_buffer, NoWrap
    <3>3. bufs'[u].state = "FREE" /\ \A s \in Slots : s # u => bufs'[s] = bufs[s]
      BY <1>0, <1>3, <3>1 DEF edgecore_detach_buffer, TypeOK, BuffersTypeOK, FreeSlot
    <3> HIDE DEF u
    <3>4. id \in 1 .. minted
      BY <3>1, <3>2 DEF IInv, IdsInv
    <3>5. abandoned' \subseteq 1 .. minted'
      BY <3>2, <3>4 DEF IInv, GoneInv
    <3>6. ASSUME NEW s \in Slots, bufs'[s].state # "FREE" PROVE bufs'[s].id \notin abandoned'
      <4>1. s # u /\ bufs'[s] = bufs[s] /\ bufs[s].state # "FREE"
        BY <3>3, <3>6
      <4>2. bufs[s].id # id
        BY <3>1, <3>2, <4>1 DEF IInv, UniqueIds
      <4>3. bufs[s].id \notin abandoned
        BY <3>2, <4>1 DEF IInv, GoneInv
      <4> QED
        BY <3>2, <4>1, <4>2, <4>3
    <3> QED
      BY <3>5, <3>6 DEF GoneInv
  <2> QED
    BY <2>2, <2>3
<1>4. CASE ServeAlloc \/ ServeRealloc
  <2>1. events[head].size \in 0 .. MaxSize
    BY <1>0, PulledTyped DEF Event
  <2>2. \A s \in Slots : bufs'[s].state # "FREE" =>
          bufs[s].state # "FREE" /\ bufs'[s].id = bufs[s].id
    BY <1>0, <1>4, <2>1, ProvideSameIds DEF ServeAlloc, ServeRealloc, TypeOK
  <2> QED
    BY <1>4, <2>2, SameIds DEF ServeAlloc, ServeRealloc, IInv
<1>5. CASE UNCHANGED buffers
  BY <1>5, SameIds DEF buffers, IInv
<1> QED
  <2>1. ASSUME NEW c \in Configs, edgecore_apply_config(c) PROVE UNCHANGED buffers
    BY <2>1 DEF edgecore_apply_config
  <2>2. edgecore_notify_config_rejected \/ ServeFails \/ Observe \/ UNCHANGED vars
          => UNCHANGED buffers
    BY DEF edgecore_notify_config_rejected, ServeFails, Observe, vars
  <2> QED
    BY <1>1, <1>2, <1>3, <1>4, <1>5, <2>1, <2>2 DEF Next

\* find_slot_by_id is never ambiguous, for every table size and id width: until
\* the id counter wraps no two slots in use carry the same alloc_id, in spite of
\* the ids that rolled-back requests consume.
THEOREM IdsAreUnique == Spec => []UniqueIds
<1>1. Init => IInv
  <2>1. Init => IdsInv /\ UniqueIds /\ GoneInv
    BY CoreAssumption DEF Init, IdsInv, UniqueIds, GoneInv, FreeSlot
  <2> QED
    BY <2>1, InitTyped DEF IInv
<1>2. IInv /\ [Next]_vars => IInv'
  BY NextIds
<1>3. IInv => UniqueIds
  BY DEF IInv
<1> QED
  BY <1>1, <1>2, <1>3, PTL DEF Spec

-------------------------------------------------------------------------------
(* The ring as a queue *)

\* Where the i-th oldest event is, in a ring whose oldest is at h.
Place(h, i) == IF h + i - 1 < QSize THEN h + i - 1 ELSE h + i - 1 - QSize

\* The next event goes behind the last one.
RingShape == tail = Place(head, cnt + 1)

\* A sum below twice the modulus wraps at most once.
LEMMA WrapOnce ==
  ASSUME NEW Q \in Nat \ {0}, NEW x \in Nat, x < Q + Q
  PROVE  x % Q = IF x < Q THEN x ELSE x - Q
<1>1. CASE x < Q
  BY <1>1
<1>2. CASE x >= Q
  <2>1. x % Q = x - Q
    BY <1>2
  <2> QED
    BY <1>2, <2>1
<1> QED
  BY <1>1, <1>2

\* So does the ring's index arithmetic.
LEMMA PlaceIsMod ==
  ASSUME NEW h \in Index, NEW i \in 1 .. QSize + 1
  PROVE  (h + i - 1) % QSize = Place(h, i) /\ Place(h, i) \in Index
<1> DEFINE x == h + i - 1
<1>1. QSize \in Nat \ {0} /\ x \in Nat /\ x < QSize + QSize
  BY CoreAssumption DEF Index
<1>2. Place(h, i) = IF x < QSize THEN x ELSE x - QSize
  BY <1>1, CoreAssumption DEF Place, Index
<1> HIDE DEF x
<1>3. x % QSize = IF x < QSize THEN x ELSE x - QSize
  BY <1>1, WrapOnce
<1>4. Place(h, i) \in Index
  BY <1>1, <1>2 DEF Index
<1> QED
  BY <1>2, <1>3, <1>4 DEF x

\* Different positions of the queue are different cells of the array, and moving
\* the head on by one moves every position.
LEMMA PlaceApart ==
  ASSUME NEW h \in Index
  PROVE  /\ \A i, j \in 1 .. QSize : i # j => Place(h, i) # Place(h, j)
         /\ Place(h, 1) = h
         /\ Place(h, QSize + 1) = h
         /\ (h + 1) % QSize = Place(h, 2)
         /\ \A i \in 1 .. QSize : /\ Place(Place(h, 2), i) = Place(h, i + 1)
                                  /\ (Place(h, i) + 1) % QSize = Place(h, i + 1)
<1>1. QSize \in Nat \ {0} /\ h \in 0 .. QSize - 1
  BY CoreAssumption DEF Index
<1>2. \A i, j \in 1 .. QSize : i # j => Place(h, i) # Place(h, j)
  BY <1>1 DEF Place
<1>3. Place(h, 1) = h /\ Place(h, QSize + 1) = h
  BY <1>1 DEF Place
<1>4. (h + 1) % QSize = Place(h, 2)
  <2>1. 2 \in 1 .. QSize + 1 /\ h + 2 - 1 = h + 1
    BY <1>1
  <2> QED
    BY <2>1, PlaceIsMod
<1>5. ASSUME NEW i \in 1 .. QSize PROVE Place(Place(h, 2), i) = Place(h, i + 1)
  BY <1>1 DEF Place
<1>6. ASSUME NEW i \in 1 .. QSize PROVE (Place(h, i) + 1) % QSize = Place(h, i + 1)
  <2>1. Place(h, i) \in Index
    BY PlaceIsMod, <1>1
  <2>2. 2 \in 1 .. QSize + 1 /\ Place(h, i) + 2 - 1 = Place(h, i) + 1
    BY <1>1, <2>1 DEF Index
  <2>3. (Place(h, i) + 1) % QSize = Place(Place(h, i), 2)
    BY <2>1, <2>2, PlaceIsMod
  <2>4. Place(Place(h, i), 2) = Place(h, i + 1)
    BY <1>1 DEF Place
  <2> QED
    BY <2>3, <2>4
<1> QED
  BY <1>2, <1>3, <1>4, <1>5, <1>6

\* The i-th queued event of a ring.
LEMMA QueuePlaces ==
  ASSUME NEW h \in Index, NEW c \in 0 .. QSize, NEW ev, NEW i \in 1 .. c
  PROVE  [j \in 1 .. c |-> ev[(h + j - 1) % QSize]][i] = ev[Place(h, i)]
<1>1. i \in 1 .. QSize + 1
  BY CoreAssumption
<1> QED
  BY <1>1, PlaceIsMod

LEMMA QueueNow ==
  ASSUME RingTypeOK
  PROVE  /\ DOMAIN Queue = 1 .. cnt
         /\ \A i \in 1 .. cnt : Queue[i] = events[Place(head, i)] /\ Queue[i] \in Event
<1>1. DOMAIN Queue = 1 .. cnt
  BY DEF Queue
<1>2. ASSUME NEW i \in 1 .. cnt
      PROVE  Queue[i] = events[Place(head, i)] /\ Queue[i] \in Event
  <2>1. Queue[i] = events[Place(head, i)]
    BY QueuePlaces DEF Queue, RingTypeOK
  <2>2. i \in 1 .. QSize + 1
    BY CoreAssumption DEF RingTypeOK
  <2>3. Place(head, i) \in Index
    BY <2>2, PlaceIsMod DEF RingTypeOK
  <2> QED
    BY <2>1, <2>3 DEF RingTypeOK
<1> QED
  BY <1>1, <1>2

LEMMA QueueNext ==
  ASSUME RingTypeOK'
  PROVE  /\ DOMAIN Queue' = 1 .. cnt'
         /\ \A i \in 1 .. cnt' : Queue'[i] = events'[Place(head', i)] /\ Queue'[i] \in Event
<1>1. DOMAIN Queue' = 1 .. cnt'
  BY DEF Queue
<1>2. ASSUME NEW i \in 1 .. cnt'
      PROVE  Queue'[i] = events'[Place(head', i)] /\ Queue'[i] \in Event
  <2>1. Queue'[i] = events'[Place(head', i)]
    BY QueuePlaces DEF Queue, RingTypeOK
  <2>2. i \in 1 .. QSize + 1
    BY CoreAssumption DEF RingTypeOK
  <2>3. Place(head', i) \in Index
    BY <2>2, PlaceIsMod DEF RingTypeOK
  <2> QED
    BY <2>1, <2>3 DEF RingTypeOK
<1> QED
  BY <1>1, <1>2

\* emit_event with room: the event becomes the last of the queue.
LEMMA EmitAppends ==
  ASSUME RingTypeOK, RingShape, NEW ev \in Event, emit_event(ev), ~Full
  PROVE  /\ RingShape' /\ cnt' = cnt + 1 /\ cnt < QSize /\ dropped' = dropped
         /\ Queue'[cnt + 1] = ev
         /\ \A i \in 1 .. cnt : Queue'[i] = Queue[i]
<1>1. cnt' = cnt + 1 /\ head' = head /\ dropped' = dropped
      /\ tail' = (tail + 1) % QSize /\ events' = [events EXCEPT ![tail] = ev]
  BY DEF emit_event
<1>2. cnt \in Nat /\ cnt < QSize /\ cnt + 1 \in 1 .. QSize /\ head \in Index
  BY CoreAssumption DEF Full, RingTypeOK
<1>3. RingTypeOK'
  BY EmitTyped
<1>4. tail = Place(head, cnt + 1)
  BY DEF RingShape
<1>5. RingShape'
  BY <1>1, <1>2, <1>4, PlaceApart DEF RingShape
<1>6. Queue'[cnt + 1] = ev
  <2>1. Queue'[cnt + 1] = events'[Place(head, cnt + 1)]
    BY <1>1, <1>2, <1>3, QueueNext
  <2> QED
    BY <1>1, <1>4, <2>1 DEF RingTypeOK
<1>7. ASSUME NEW i \in 1 .. cnt PROVE Queue'[i] = Queue[i]
  <2>1. i \in 1 .. QSize /\ i # cnt + 1 /\ i \in 1 .. cnt' /\ i \in 1 .. QSize + 1
    BY <1>1, <1>2, CoreAssumption
  <2>2. Queue'[i] = events'[Place(head, i)] /\ Queue[i] = events[Place(head, i)]
    BY <1>1, <1>3, <2>1, QueueNow, QueueNext
  <2>3. Place(head, i) # tail
    BY <1>2, <1>4, <2>1, PlaceApart
  <2>4. Place(head, i) \in Index
    BY <1>2, <2>1, PlaceIsMod
  <2> QED
    BY <1>1, <2>2, <2>3, <2>4 DEF RingTypeOK
<1> QED
  BY <1>1, <1>2, <1>5, <1>6, <1>7

\* emit_event without room: only the oldest queued event changes.
LEMMA EmitOverruns ==
  ASSUME RingTypeOK, RingShape, NEW ev \in Event, emit_event(ev), Full
  PROVE  /\ RingShape' /\ cnt' = cnt /\ cnt = QSize /\ dropped' = dropped + 1
         /\ Queue'[1] = QueueOverflow
         /\ \A i \in 2 .. cnt : Queue'[i] = Queue[i]
<1>1. cnt' = cnt /\ head' = head /\ dropped' = dropped + 1 /\ tail' = tail
      /\ events' = [events EXCEPT ![head] = QueueOverflow]
  BY DEF emit_event
<1>2. cnt = QSize /\ QSize \in Nat \ {0} /\ head \in Index
  BY CoreAssumption DEF Full, RingTypeOK
<1>3. RingTypeOK'
  BY EmitTyped
<1>4. Place(head, 1) = head
  BY <1>2, PlaceApart
<1>5. Queue'[1] = QueueOverflow
  <2>1. 1 \in 1 .. cnt'
    BY <1>1, <1>2
  <2>2. Queue'[1] = events'[head]
    BY <1>1, <1>3, <1>4, <2>1, QueueNext
  <2> QED
    BY <1>1, <1>2, <2>2 DEF RingTypeOK
<1>6. ASSUME NEW i \in 2 .. cnt PROVE Queue'[i] = Queue[i]
  <2>1. i \in 1 .. QSize /\ 1 \in 1 .. QSize /\ i # 1 /\ i \in 1 .. cnt' /\ i \in 1 .. cnt
        /\ i \in 1 .. QSize + 1
    BY <1>1, <1>2
  <2>2. Queue'[i] = events'[Place(head, i)] /\ Queue[i] = events[Place(head, i)]
    BY <1>1, <1>3, <2>1, QueueNow, QueueNext
  <2>3. Place(head, i) # head
    BY <1>2, <1>4, <2>1, PlaceApart
  <2>4. Place(head, i) \in Index
    BY <1>2, <2>1, PlaceIsMod
  <2> QED
    BY <1>1, <2>2, <2>3, <2>4 DEF RingTypeOK
<1> QED
  BY <1>1, <1>2, <1>5, <1>6 DEF RingShape

\* edgecore_next_event: the oldest event leaves, the others move up.
LEMMA TakeShifts ==
  ASSUME RingTypeOK, RingShape, edgecore_next_event
  PROVE  /\ RingShape' /\ cnt' = cnt - 1 /\ cnt \in 1 .. QSize /\ dropped' = dropped
         /\ Queue[1] = events[head]
         /\ \A i \in 1 .. cnt - 1 : Queue'[i] = Queue[i + 1]
<1>1. cnt' = cnt - 1 /\ head' = (head + 1) % QSize /\ dropped' = dropped /\ tail' = tail
      /\ events' = events
  BY DEF edgecore_next_event
<1>2. cnt \in 1 .. QSize /\ QSize \in Nat \ {0} /\ head \in Index
  BY CoreAssumption DEF edgecore_next_event, RingTypeOK
<1>3. RingTypeOK'
  BY TakeTyped
<1>4. head' = Place(head, 2) /\ Place(head, 1) = head
  BY <1>1, <1>2, PlaceApart
<1>5. RingShape'
  <2>1. tail = Place(head, cnt + 1) /\ cnt' + 1 = cnt
    BY <1>1, <1>2 DEF RingShape
  <2>2. Place(Place(head, 2), cnt) = Place(head, cnt + 1)
    BY <1>2, PlaceApart
  <2> QED
    BY <1>1, <1>4, <2>1, <2>2 DEF RingShape
<1>6. Queue[1] = events[head]
  <2>1. 1 \in 1 .. cnt
    BY <1>2
  <2> QED
    BY <1>4, <2>1, QueueNow
<1>7. ASSUME NEW i \in 1 .. cnt - 1 PROVE Queue'[i] = Queue[i + 1]
  <2>1. i \in 1 .. QSize /\ i \in 1 .. cnt' /\ i + 1 \in 1 .. cnt
    BY <1>1, <1>2
  <2>2. Queue'[i] = events[Place(head', i)] /\ Queue[i + 1] = events[Place(head, i + 1)]
    BY <1>1, <1>3, <2>1, QueueNow, QueueNext
  <2>3. Place(Place(head, 2), i) = Place(head, i + 1)
    BY <1>2, <2>1, PlaceApart
  <2> QED
    BY <1>4, <2>2, <2>3
<1> QED
  BY <1>1, <1>2, <1>5, <1>6, <1>7

\* What a call may do to the ring: queue one event, take one, or leave it alone.
LEMMA RingSteps ==
  ASSUME TypeOK, [Next]_vars
  PROVE  \/ \E ev \in Event : emit_event(ev)
         \/ edgecore_next_event
         \/ UNCHANGED ring
<1>1. ASSUME NEW n \in Sizes, edgecore_request_alloc(n)
      PROVE  \E ev \in Event : emit_event(ev)
  <2>1. mint_alloc_id \in 1 .. IdMod - 1
    BY MintIsId DEF TypeOK, BuffersTypeOK
  <2> QED
    BY <1>1, <2>1, EventsTyped DEF edgecore_request_alloc
<1>2. ASSUME NEW id \in 1 .. IdMod - 1, NEW n \in Sizes, edgecore_request_realloc(id, n)
      PROVE  \E ev \in Event : emit_event(ev)
  <2>1. Lowest(SlotsOf(id)) \in Slots
    BY <1>2, SlotOfId DEF edgecore_request_realloc
  <2>2. bufs[Lowest(SlotsOf(id))].ptr \in Blocks \cup {NULL}
    BY <2>1 DEF TypeOK, BuffersTypeOK, Slot
  <2> QED
    BY <1>2, <2>2, EventsTyped DEF edgecore_request_realloc
<1>3. ASSUME NEW c \in Configs, edgecore_apply_config(c)
      PROVE  \E ev \in Event : emit_event(ev)
  <2>1. generation + 1 \in Nat
    BY DEF TypeOK, ConfigTypeOK
  <2> QED
    BY <1>3, <2>1, EventsTyped DEF edgecore_apply_config
<1>4. edgecore_notify_config_rejected => \E ev \in Event : emit_event(ev)
  BY EventsTyped DEF edgecore_notify_config_rejected
<1>5. ServeAlloc \/ ServeRealloc \/ ServeFails \/ Observe => edgecore_next_event
  BY DEF ServeAlloc, ServeRealloc, ServeFails, Observe
<1>6. ASSUME NEW id \in 1 .. IdMod - 1, edgecore_detach_buffer(id) PROVE UNCHANGED ring
  BY <1>6 DEF edgecore_detach_buffer
<1> QED
  BY <1>1, <1>2, <1>3, <1>4, <1>5, <1>6 DEF Next, vars

RingInv == TypeOK /\ RingShape

LEMMA RingInvInit == Init => RingInv
<1> SUFFICES ASSUME Init PROVE RingShape
  BY InitTyped DEF RingInv
<1>1. 0 \in Index
  BY CoreAssumption DEF Index
<1>2. Place(0, 1) = 0
  BY <1>1, PlaceApart
<1> QED
  BY <1>2 DEF Init, RingShape

LEMMA RingInvNext == RingInv /\ [Next]_vars => RingInv'
<1> SUFFICES ASSUME RingInv, [Next]_vars PROVE RingInv'
  OBVIOUS
<1>1. TypeOK' /\ RingTypeOK
  BY NextTyped DEF RingInv, TypeOK
<1>2. ASSUME NEW ev \in Event, emit_event(ev) PROVE RingShape'
  <2>1. CASE Full
    BY <1>1, <1>2, <2>1, EmitOverruns DEF RingInv
  <2>2. CASE ~Full
    BY <1>1, <1>2, <2>2, EmitAppends DEF RingInv
  <2> QED
    BY <2>1, <2>2
<1>3. edgecore_next_event => RingShape'
  BY <1>1, TakeShifts DEF RingInv
<1>4. UNCHANGED ring => RingShape'
  BY DEF ring, RingShape, RingInv
<1> QED
  BY <1>1, <1>2, <1>3, <1>4, RingSteps DEF RingInv

\* The queue is a sequence of cnt events.
LEMMA QueueSeq ==
  ASSUME RingTypeOK
  PROVE  Queue \in Seq(Event) /\ Len(Queue) = cnt
<1>1. cnt \in Nat
  BY DEF RingTypeOK
<1>2. Queue \in [1 .. cnt -> Event]
  BY QueueNow DEF Queue
<1> QED
  BY <1>1, <1>2

LEMMA QueueSeqNext ==
  ASSUME RingTypeOK'
  PROVE  Queue' \in Seq(Event) /\ Len(Queue') = cnt'
<1>1. cnt' \in Nat
  BY DEF RingTypeOK
<1>2. Queue' \in [1 .. cnt' -> Event]
  BY QueueNext DEF Queue
<1> QED
  BY <1>1, <1>2

\* Queueing an event is Append1 or Overrun of the queue.
LEMMA EmitRefines ==
  ASSUME RingInv, RingTypeOK', NEW ev \in Event, emit_event(ev)
  PROVE  EQ!Append1 \/ EQ!Overrun
<1>0. RingTypeOK /\ RingShape
  BY DEF RingInv, TypeOK
<1>1. Queue \in Seq(Event) /\ Len(Queue) = cnt /\ Queue' \in Seq(Event) /\ Len(Queue') = cnt'
  BY <1>0, QueueSeq, QueueSeqNext
<1>2. CASE Full
  <2>1. cnt' = cnt /\ cnt = QSize /\ Queue'[1] = QueueOverflow
        /\ \A i \in 2 .. cnt : Queue'[i] = Queue[i]
    BY <1>0, <1>2, EmitOverruns
  <2>2. \A i \in 1 .. cnt : Queue'[i] = [Queue EXCEPT ![1] = QueueOverflow][i]
    BY <1>1, <2>1, CoreAssumption
  <2>3. [Queue EXCEPT ![1] = QueueOverflow] \in Seq(Event)
        /\ Len([Queue EXCEPT ![1] = QueueOverflow]) = cnt
    BY <1>1, <2>1, EventsTyped, CoreAssumption
  <2>4. Queue' = [Queue EXCEPT ![1] = QueueOverflow]
    BY <1>1, <2>1, <2>2, <2>3
  <2> QED
    BY <1>1, <2>1, <2>4 DEF EQ!Overrun
<1>3. CASE ~Full
  <2>1. cnt' = cnt + 1 /\ cnt < QSize /\ \A i \in 1 .. cnt : Queue'[i] = Queue[i]
    BY <1>0, <1>3, EmitAppends
  <2>2. cnt \in Nat
    BY <1>0 DEF RingTypeOK
  <2>3. SubSeq(Queue', 1, cnt) \in Seq(Event) /\ Len(SubSeq(Queue', 1, cnt)) = cnt
        /\ \A i \in 1 .. cnt : SubSeq(Queue', 1, cnt)[i] = Queue'[i]
    BY <1>1, <2>1, <2>2
  <2>4. SubSeq(Queue', 1, cnt) = Queue
    BY <1>1, <2>1, <2>2, <2>3
  <2> QED
    BY <1>1, <2>1, <2>4 DEF EQ!Append1
<1> QED
  BY <1>2, <1>3

\* edgecore_next_event is Take.
LEMMA TakeRefines ==
  ASSUME RingInv, RingTypeOK', edgecore_next_event
  PROVE  EQ!Take
<1>0. RingTypeOK /\ RingShape
  BY DEF RingInv, TypeOK
<1>1. Queue \in Seq(Event) /\ Len(Queue) = cnt /\ Queue' \in Seq(Event) /\ Len(Queue') = cnt'
  BY <1>0, QueueSeq, QueueSeqNext
<1>2. cnt' = cnt - 1 /\ cnt \in 1 .. QSize /\ \A i \in 1 .. cnt - 1 : Queue'[i] = Queue[i + 1]
  BY <1>0, TakeShifts
<1>3. Queue # <<>>
  BY <1>1, <1>2
<1>4. Tail(Queue) \in Seq(Event) /\ Len(Tail(Queue)) = cnt - 1
      /\ \A i \in 1 .. cnt - 1 : Tail(Queue)[i] = Queue[i + 1]
  BY <1>1, <1>2, <1>3
<1>5. Queue' = Tail(Queue)
  BY <1>1, <1>2, <1>4
<1> QED
  BY <1>3, <1>5 DEF EQ!Take

\* The ring is a bounded FIFO queue, for every ring size: the circular array with
\* its head, tail and count implements EventQueue, in which nothing is reordered,
\* duplicated or lost but the oldest entry that an overflow turns into the marker.
THEOREM RingImplementsQueue == Spec => RingIsQueue
<1>1. Init => EQ!Init
  <2>1. ASSUME Init PROVE Queue = <<>>
    BY <2>1 DEF Init, Queue
  <2> QED
    BY <2>1 DEF EQ!Init
<1>2. RingInv /\ [Next]_vars => [EQ!Next]_Queue
  <2> SUFFICES ASSUME RingInv, [Next]_vars PROVE EQ!Next \/ UNCHANGED Queue
    OBVIOUS
  <2>1. TypeOK /\ RingTypeOK'
    BY RingInvNext DEF RingInv, TypeOK
  <2>2. UNCHANGED ring => UNCHANGED Queue
    BY DEF ring, Queue
  <2> QED
    BY <2>1, <2>2, RingSteps, EmitRefines, TakeRefines DEF EQ!Next
<1> QED
  BY <1>1, <1>2, RingInvInit, RingInvNext, PTL DEF Spec, RingIsQueue, EQ!Spec

-------------------------------------------------------------------------------
(* The queued NEED_* events, the buffer table and the heap agree *)

\* What a NEED_* event says of the slot it was queued for.
Matches(ev, b) ==
  /\ b.state = "PENDING"
  /\ b.id = ev.id
  /\ b.requested = ev.size
  /\ b.ptr = ev.old
  /\ (ev.type = "NEED_ALLOC") = (b.ptr = NULL)

\* A free slot has no block, a READY one has, and a slot never waits for zero
\* bytes.
SlotsClean ==
  \A s \in Slots : /\ bufs[s].state = "FREE" => bufs[s].ptr = NULL
                   /\ bufs[s].state = "READY" => bufs[s].ptr # NULL
                   /\ bufs[s].state = "PENDING" => bufs[s].requested > 0

\* What makes NeedsMatchSlots and HeapOwned inductive: the host serves an event
\* correctly because the event matches its slot and the ids are unique; the
\* event matches because it was queued in order and the slot has not been given
\* up since; and an event whose slot was given up finds no slot at all (GoneInv).
CoreInv == IInv /\ RingShape /\ SlotsClean /\ NeedsMatchSlots /\ HeapOwned

\* NeedsMatchSlots in terms of Matches.
LEMMA NeedsNow ==
  ASSUME NeedsMatchSlots, NoWrap, NEW i \in 1 .. cnt, IsNeed(Queue[i])
  PROVE  /\ Queue[i].id \notin abandoned => \E s \in Slots : Matches(Queue[i], bufs[s])
         /\ \A j \in 1 .. cnt : IsNeed(Queue[j]) /\ Queue[j].id = Queue[i].id => j = i
  BY DEF NeedsMatchSlots, Matches

LEMMA NeedsNext ==
  ASSUME IInv',
         \A i \in 1 .. cnt' : NoWrap' /\ IsNeed(Queue'[i]) =>
           /\ Queue'[i].id \notin abandoned' => \E s \in Slots : Matches(Queue'[i], bufs'[s])
           /\ \A j \in 1 .. cnt' : IsNeed(Queue'[j]) /\ Queue'[j].id = Queue'[i].id => j = i
  PROVE  NeedsMatchSlots'
<1>1. ASSUME NEW id, NoWrap', id \in abandoned' PROVE SlotsOf(id)' = {}
  BY <1>1 DEF IInv, GoneInv, SlotsOf
<1> QED
  BY <1>1 DEF NeedsMatchSlots, Matches, IsNeed

\* Every queued request is for an id that was minted.
LEMMA NeedsMinted ==
  ASSUME NeedsMatchSlots, IInv, NoWrap, NEW i \in 1 .. cnt, IsNeed(Queue[i])
  PROVE  Queue[i].id \in 1 .. minted
<1>1. CASE Queue[i].id \in abandoned
  BY <1>1 DEF IInv, GoneInv
<1>2. CASE Queue[i].id \notin abandoned
  <2>1. PICK s \in Slots : Matches(Queue[i], bufs[s])
    BY <1>2, NeedsNow
  <2> QED
    BY <2>1 DEF Matches, IInv, IdsInv
<1> QED
  BY <1>1, <1>2

\* NeedsMatchSlots still holds when the events left in the queue are old ones, d
\* places further on, and the slots they match did not change.
LEMMA NeedsKept ==
  ASSUME NeedsMatchSlots, IInv', RingTypeOK, RingTypeOK', NoWrap' => NoWrap, NEW d \in {0, 1},
         abandoned \subseteq abandoned',
         \A i \in 1 .. cnt' : IsNeed(Queue'[i]) =>
           i + d \in 1 .. cnt /\ Queue'[i] = Queue[i + d],
         \A i \in 1 .. cnt', s \in Slots :
           NoWrap' /\ IsNeed(Queue'[i]) /\ Queue'[i].id \notin abandoned'
                   /\ Matches(Queue'[i], bufs[s])
             => Matches(Queue'[i], bufs'[s])
  PROVE  NeedsMatchSlots'
<1>0. \A i, j \in 1 .. cnt' : i + d = j + d => i = j
  BY DEF RingTypeOK
<1>1. ASSUME NEW i \in 1 .. cnt', NoWrap', IsNeed(Queue'[i])
      PROVE  /\ Queue'[i].id \notin abandoned' => \E s \in Slots : Matches(Queue'[i], bufs'[s])
             /\ \A j \in 1 .. cnt' : IsNeed(Queue'[j]) /\ Queue'[j].id = Queue'[i].id => j = i
  <2>1. i + d \in 1 .. cnt /\ Queue'[i] = Queue[i + d] /\ NoWrap
    BY <1>1
  <2>2. Queue[i + d].id \notin abandoned => \E s \in Slots : Matches(Queue[i + d], bufs[s])
    BY <1>1, <2>1, NeedsNow
  <2>3. Queue'[i].id \notin abandoned' => \E s \in Slots : Matches(Queue'[i], bufs'[s])
    BY <1>1, <2>1, <2>2
  <2>4. ASSUME NEW j \in 1 .. cnt', IsNeed(Queue'[j]), Queue'[j].id = Queue'[i].id
        PROVE  j = i
    <3>1. j + d \in 1 .. cnt /\ Queue'[j] = Queue[j + d]
      BY <2>4
    <3>2. j + d = i + d
      BY <1>1, <2>1, <2>4, <3>1, NeedsNow
    <3> QED
      BY <1>0, <3>2
  <2> QED
    BY <2>3, <2>4
<1> QED
  BY <1>1, NeedsNext

\* The kinds of the events.
LEMMA KindsOfEvents ==
  /\ ~IsNeed(QueueOverflow) /\ ~IsNeed(ConfigRejected)
  /\ \A g : ~IsNeed(ConfigApplied(g))
  /\ \A id, n : IsNeed(NeedAlloc(id, n))
  /\ \A id, n, q : IsNeed(NeedRealloc(id, n, q))
  BY DEF IsNeed, QueueOverflow, ConfigRejected, NoEvent, ConfigApplied, NeedAlloc, NeedRealloc

\* Emitting an event that asks for nothing, or any event on a full ring, queues
\* no new request.
LEMMA EmitNoNeed ==
  ASSUME RingTypeOK, RingShape, NEW ev \in Event, emit_event(ev), Full \/ ~IsNeed(ev),
         NEW i \in 1 .. cnt', IsNeed(Queue'[i])
  PROVE  i + 0 \in 1 .. cnt /\ Queue'[i] = Queue[i + 0]
<1>1. cnt \in Nat
  BY DEF RingTypeOK
<1>2. CASE Full
  <2>1. cnt' = cnt /\ Queue'[1] = QueueOverflow /\ \A k \in 2 .. cnt : Queue'[k] = Queue[k]
    BY <1>2, EmitOverruns
  <2>2. i # 1
    BY <2>1, KindsOfEvents
  <2>3. i \in 2 .. cnt /\ i + 0 = i
    BY <1>1, <2>1, <2>2
  <2> QED
    BY <1>1, <2>1, <2>3
<1>3. CASE ~Full
  <2>1. cnt' = cnt + 1 /\ Queue'[cnt + 1] = ev /\ \A k \in 1 .. cnt : Queue'[k] = Queue[k]
    BY <1>3, EmitAppends
  <2>2. i # cnt + 1
    BY <1>3, <2>1
  <2>3. i \in 1 .. cnt /\ i + 0 = i
    BY <1>1, <2>1, <2>2
  <2> QED
    BY <1>1, <2>1, <2>3
<1> QED
  BY <1>2, <1>3

\* The heap h and the table b agree (HeapOwned before the ids wrap).
Owned(h, b) ==
  /\ \A x \in Blocks : h[x] # 0 => \E s \in Slots : b[s].ptr = x
  /\ \A s, t \in Slots : b[s].ptr = b[t].ptr /\ b[s].ptr # NULL => s = t
  /\ \A s \in Slots :
       /\ b[s].ptr # NULL => h[b[s].ptr] = b[s].size /\ b[s].size > 0
       /\ b[s].state = "READY" => b[s].ptr # NULL /\ b[s].size >= b[s].requested

\* A table with the same blocks in the same slots agrees with the same heap.
LEMMA OwnedSameBlocks ==
  ASSUME NEW h, NEW b, NEW c, Owned(h, b),
         \A s \in Slots : /\ c[s].ptr = b[s].ptr /\ c[s].size = b[s].size
                          /\ c[s].state = "READY" =>
                               c[s].ptr # NULL /\ c[s].size >= c[s].requested
  PROVE  Owned(h, c)
  BY DEF Owned

\* A slot gets block p of n bytes in place of the block it had, if any.
LEMMA OwnedGiven ==
  ASSUME NEW h, NEW b, NEW g, NEW c, Owned(h, b), NEW s \in Slots, NEW p \in Blocks,
         NEW n \in Nat, n > 0, h[p] = 0 \/ p = b[s].ptr,
         c[s].ptr = p, c[s].size = n, n >= c[s].requested,
         \A t \in Slots : t # s => c[t] = b[t],
         \A x \in Blocks : g[x] = IF x = p THEN n ELSE IF x = b[s].ptr THEN 0 ELSE h[x],
         \A t \in Slots : b[t].ptr \in Blocks \cup {NULL}
  PROVE  Owned(g, c)
<1>0. p # NULL
  BY CoreAssumption
<1>1. \A t \in Slots : t # s => b[t].ptr # p
  <2> SUFFICES ASSUME NEW t \in Slots, t # s, b[t].ptr = p PROVE FALSE
    OBVIOUS
  <2>1. b[s].ptr # p
    BY <1>0 DEF Owned
  <2>2. h[p] = 0
    BY <2>1
  <2> QED
    BY <1>0, <2>2 DEF Owned
<1>2. ASSUME NEW x \in Blocks, g[x] # 0 PROVE \E t \in Slots : c[t].ptr = x
  <2>1. CASE x = p
    BY <2>1
  <2>2. CASE x # p
    <3>1. h[x] # 0 /\ x # b[s].ptr
      BY <1>2, <2>2
    <3>2. PICK t \in Slots : b[t].ptr = x
      BY <3>1 DEF Owned
    <3> QED
      BY <3>1, <3>2
  <2> QED
    BY <2>1, <2>2
<1>3. ASSUME NEW t \in Slots, NEW u \in Slots, c[t].ptr = c[u].ptr, c[t].ptr # NULL
      PROVE  t = u
  BY <1>1, <1>3 DEF Owned
<1>4. ASSUME NEW t \in Slots
      PROVE  /\ c[t].ptr # NULL => g[c[t].ptr] = c[t].size /\ c[t].size > 0
             /\ c[t].state = "READY" => c[t].ptr # NULL /\ c[t].size >= c[t].requested
  <2>1. CASE t = s
    BY <1>0, <2>1
  <2>2. CASE t # s
    <3>1. c[t] = b[t] /\ b[t].ptr # p
      BY <1>1, <2>2
    <3>2. b[t].ptr # NULL => b[t].ptr # b[s].ptr /\ b[t].ptr \in Blocks
      BY <2>2 DEF Owned
    <3> QED
      BY <3>1, <3>2 DEF Owned
  <2> QED
    BY <2>1, <2>2
<1> QED
  BY <1>2, <1>3, <1>4 DEF Owned

\* A slot gives up its block, which is freed.
LEMMA OwnedFreed ==
  ASSUME NEW h, NEW b, NEW g, NEW c, Owned(h, b), NEW s \in Slots,
         c[s] = FreeSlot,
         \A t \in Slots : t # s => c[t] = b[t],
         \A x \in Blocks : g[x] = IF x = b[s].ptr THEN 0 ELSE h[x],
         \A t \in Slots : b[t].ptr \in Blocks \cup {NULL}
  PROVE  Owned(g, c)
<1>0. c[s].ptr = NULL /\ c[s].state = "FREE"
  BY DEF FreeSlot
<1>1. ASSUME NEW x \in Blocks, g[x] # 0 PROVE \E t \in Slots : c[t].ptr = x
  <2>1. h[x] # 0 /\ x # b[s].ptr
    BY <1>1
  <2>2. PICK t \in Slots : b[t].ptr = x
    BY <2>1 DEF Owned
  <2> QED
    BY <2>1, <2>2
<1>2. ASSUME NEW t \in Slots, NEW u \in Slots, c[t].ptr = c[u].ptr, c[t].ptr # NULL
      PROVE  t = u
  BY <1>0, <1>2 DEF Owned
<1>3. ASSUME NEW t \in Slots
      PROVE  /\ c[t].ptr # NULL => g[c[t].ptr] = c[t].size /\ c[t].size > 0
             /\ c[t].state = "READY" => c[t].ptr # NULL /\ c[t].size >= c[t].requested
  <2>1. CASE t = s
    BY <1>0, <2>1
  <2>2. CASE t # s
    <3>1. c[t] = b[t]
      BY <2>2
    <3>2. b[t].ptr # NULL => b[t].ptr # b[s].ptr /\ b[t].ptr \in Blocks
      BY <2>2 DEF Owned
    <3> QED
      BY <3>1, <3>2 DEF Owned
  <2> QED
    BY <2>1, <2>2
<1> QED
  BY <1>1, <1>2, <1>3 DEF Owned

LEMMA HeapNow ==
  HeapOwned <=> (NoWrap => (stale => abandoned # {}) /\ (~stale => Owned(heap, bufs)))
  BY DEF HeapOwned, Owned

LEMMA HeapNext ==
  HeapOwned' <=> (NoWrap' => (stale' => abandoned' # {}) /\ (~stale' => Owned(heap', bufs')))
  BY DEF HeapOwned, Owned, NoWrap

\* A step that hands host_realloc nothing stale.
LEMMA HeapKept ==
  ASSUME HeapOwned, NoWrap' => NoWrap, NoWrap' => stale' = stale, abandoned \subseteq abandoned',
         NoWrap' /\ ~stale /\ Owned(heap, bufs) => Owned(heap', bufs')
  PROVE  HeapOwned'
  BY HeapNow, HeapNext

\* The slots of a well-typed table.
LEMMA SlotFields ==
  ASSUME BuffersTypeOK, NEW s \in Slots
  PROVE  /\ bufs[s] \in Slot
         /\ bufs[s].ptr \in Blocks \cup {NULL}
         /\ bufs[s].size \in Nat /\ bufs[s].requested \in Nat
         /\ bufs[s].state \in {"FREE", "PENDING", "READY"}
<1>1. bufs[s] \in Slot
  BY DEF BuffersTypeOK
<1> QED
  BY <1>1, CoreAssumption DEF Slot

\* edgecore_request_alloc: the new slot and the new event match; nobody else
\* has the new id.
LEMMA RequestAllocAgrees ==
  ASSUME CoreInv, NEW n \in Sizes, edgecore_request_alloc(n), IInv'
  PROVE  SlotsClean' /\ NeedsMatchSlots' /\ HeapOwned'
<1>0. TypeOK /\ RingTypeOK /\ BuffersTypeOK /\ RingTypeOK' /\ RingShape
  BY DEF CoreInv, IInv, TypeOK
<1>1. n \in Nat /\ n > 0
  BY CoreAssumption DEF Sizes
<1>2. heap' = heap /\ stale' = stale /\ abandoned' = abandoned /\ minted' = minted + 1
      /\ minted \in Nat
  BY <1>0 DEF edgecore_request_alloc, host, BuffersTypeOK
<1>3. NoWrap' => NoWrap
  BY <1>2, CoreAssumption DEF NoWrap
<1>4. NeedAlloc(mint_alloc_id, n) \in Event /\ emit_event(NeedAlloc(mint_alloc_id, n))
  BY <1>0, MintIsId, EventsTyped DEF edgecore_request_alloc, BuffersTypeOK
<1>5. CASE Full
  <2>1. bufs' = bufs
    BY <1>5 DEF edgecore_request_alloc
  <2>2. NeedsMatchSlots'
    <3>1. \A i \in 1 .. cnt' : IsNeed(Queue'[i]) => i + 0 \in 1 .. cnt /\ Queue'[i] = Queue[i + 0]
      BY <1>0, <1>4, <1>5, EmitNoNeed
    <3> QED
      BY <1>0, <1>2, <1>3, <2>1, <3>1, NeedsKept DEF CoreInv
  <2>3. SlotsClean' /\ HeapOwned'
    BY <1>2, <1>3, <2>1, HeapKept DEF CoreInv, SlotsClean
  <2> QED
    BY <2>2, <2>3
<1>6. CASE ~Full
  <2> DEFINE f == Lowest(FreeSlots)
             id == mint_alloc_id
  <2>1. f \in Slots /\ bufs[f].state = "FREE"
    <3>1. FreeSlots \subseteq Slots /\ FreeSlots # {}
      BY DEF FreeSlots, edgecore_request_alloc
    <3>2. f \in FreeSlots
      BY <3>1, LowestIsMember
    <3> QED
      BY <3>2 DEF FreeSlots
  <2>2. bufs' = [bufs EXCEPT ![f] = PendingSlot(id, n)]
    BY <1>6 DEF edgecore_request_alloc
  <2>3. bufs'[f] = PendingSlot(id, n) /\ \A t \in Slots : t # f => bufs'[t] = bufs[t]
    BY <1>0, <2>1, <2>2 DEF BuffersTypeOK
  <2>4. bufs'[f].state = "PENDING" /\ bufs'[f].ptr = NULL /\ bufs'[f].requested = n
        /\ bufs'[f].id = id /\ bufs'[f].size = 0
    BY <2>3 DEF PendingSlot
  <2>5. bufs[f].ptr = NULL
    BY <2>1 DEF CoreInv, SlotsClean
  <2>6. SlotsClean'
    BY <1>1, <2>3, <2>4 DEF CoreInv, SlotsClean
  <2>7. HeapOwned'
    <3> SUFFICES ASSUME Owned(heap, bufs) PROVE Owned(heap, bufs')
      BY <1>2, <1>3, HeapKept DEF CoreInv
    <3> QED
      BY <2>1, <2>3, <2>4, <2>5 DEF Owned
  <2>8. cnt' = cnt + 1 /\ Queue'[cnt + 1] = NeedAlloc(id, n)
        /\ \A i \in 1 .. cnt : Queue'[i] = Queue[i]
    BY <1>0, <1>4, <1>6, EmitAppends
  <2>9. ASSUME NEW i \in 1 .. cnt, NoWrap', IsNeed(Queue[i])
        PROVE  /\ Queue[i].id # id
               /\ Queue[i].id \notin abandoned' => \E s \in Slots : Matches(Queue[i], bufs'[s])
    <3>1. Queue[i].id # id
      <4>1. Queue[i].id \in 1 .. minted
        BY <1>3, <2>9, NeedsMinted DEF CoreInv
      <4>2. id = minted + 1
        BY <1>0, <1>2, <1>3, <2>9, MintIsId, CoreAssumption
           DEF CoreInv, IInv, IdsInv, NoWrap, BuffersTypeOK
      <4> QED
        BY <1>2, <4>1, <4>2
    <3>2. ASSUME Queue[i].id \notin abandoned' PROVE \E s \in Slots : Matches(Queue[i], bufs'[s])
      <4>1. PICK s \in Slots : Matches(Queue[i], bufs[s])
        BY <1>2, <1>3, <2>9, <3>2, NeedsNow DEF CoreInv
      <4>2. s # f /\ bufs'[s] = bufs[s]
        BY <2>1, <2>3, <4>1 DEF Matches
      <4> QED
        BY <4>1, <4>2
    <3> QED
      BY <3>1, <3>2
  <2>10. Matches(NeedAlloc(id, n), bufs'[f]) /\ NeedAlloc(id, n).id = id
    BY <2>4 DEF Matches, NeedAlloc
  <2> HIDE DEF f, id
  <2>11. NeedsMatchSlots'
    <3>0. cnt \in Nat
      BY <1>0 DEF RingTypeOK
    <3>1. ASSUME NEW i \in 1 .. cnt', NoWrap', IsNeed(Queue'[i])
          PROVE  /\ Queue'[i].id \notin abandoned' =>
                      \E s \in Slots : Matches(Queue'[i], bufs'[s])
                 /\ \A j \in 1 .. cnt' : IsNeed(Queue'[j]) /\ Queue'[j].id = Queue'[i].id => j = i
      <4>1. ASSUME NEW j \in 1 .. cnt' PROVE j \in 1 .. cnt \/ j = cnt + 1
        BY <2>8, <3>0
      <4>2. Queue'[i].id \notin abandoned' => \E s \in Slots : Matches(Queue'[i], bufs'[s])
        BY <2>1, <2>8, <2>9, <2>10, <3>1, <4>1
      <4>3. ASSUME NEW j \in 1 .. cnt', IsNeed(Queue'[j]), Queue'[j].id = Queue'[i].id
            PROVE  j = i
        <5>1. CASE i \in 1 .. cnt /\ j \in 1 .. cnt
          BY <1>3, <2>8, <3>1, <4>3, <5>1, NeedsNow DEF CoreInv
        <5>2. CASE i \in 1 .. cnt /\ j = cnt + 1
          BY <2>8, <2>9, <2>10, <3>1, <4>3, <5>2
        <5>3. CASE i = cnt + 1 /\ j \in 1 .. cnt
          BY <2>8, <2>9, <2>10, <3>1, <4>3, <5>3
        <5> QED
          BY <4>1, <5>1, <5>2, <5>3
      <4> QED
        BY <4>2, <4>3
    <3> QED
      BY <3>1, NeedsNext
  <2> QED
    BY <2>6, <2>7, <2>11
<1> QED
  BY <1>5, <1>6

\* edgecore_request_realloc: the event carries the slot's own block, which the
\* READY slot has; no event for that slot was queued before.
LEMMA RequestReallocAgrees ==
  ASSUME CoreInv, NEW id \in 1 .. IdMod - 1, NEW n \in Sizes,
         edgecore_request_realloc(id, n), IInv'
  PROVE  SlotsClean' /\ NeedsMatchSlots' /\ HeapOwned'
<1>0. TypeOK /\ RingTypeOK /\ BuffersTypeOK /\ RingTypeOK' /\ RingShape /\ UniqueIds
  BY DEF CoreInv, IInv, TypeOK
<1>1. n \in Nat /\ n > 0
  BY CoreAssumption DEF Sizes
<1>2. heap' = heap /\ stale' = stale /\ abandoned' = abandoned /\ minted' = minted
  BY DEF edgecore_request_realloc, host
<1>3. NoWrap' => NoWrap
  BY <1>2 DEF NoWrap
<1> DEFINE s == Lowest(SlotsOf(id))
           ev == NeedRealloc(id, n, bufs[s].ptr)
<1>4. s \in Slots /\ bufs[s].id = id /\ bufs[s].state = "READY"
  BY SlotOfId DEF edgecore_request_realloc
<1>5. ev \in Event /\ emit_event(ev)
  BY <1>0, <1>4, SlotFields, EventsTyped DEF edgecore_request_realloc
<1>6. bufs' = IF Full THEN [bufs EXCEPT ![s].requested = bufs[s].size]
              ELSE [bufs EXCEPT ![s].state = "PENDING", ![s].requested = n]
  BY DEF edgecore_request_realloc
<1>7. ev.id = id /\ ev.size = n /\ ev.old = bufs[s].ptr /\ ev.type = "NEED_REALLOC"
  BY DEF NeedRealloc
<1>8. bufs[s] \in Slot /\ bufs[s].size \in Nat
  BY <1>0, <1>4, SlotFields
<1> HIDE DEF s, ev
<1>9. bufs'[s].id = id /\ bufs'[s].ptr = bufs[s].ptr /\ bufs'[s].size = bufs[s].size
      /\ bufs'[s].state = (IF Full THEN "READY" ELSE "PENDING")
      /\ bufs'[s].requested = (IF Full THEN bufs[s].size ELSE n)
  BY <1>0, <1>4, <1>6, <1>8 DEF BuffersTypeOK, Slot
<1>10. \A t \in Slots : t # s => bufs'[t] = bufs[t]
  BY <1>0, <1>4, <1>6 DEF BuffersTypeOK
<1>12. bufs[s].ptr # NULL
  BY <1>4 DEF CoreInv, SlotsClean
<1>11. SlotsClean'
  BY <1>1, <1>9, <1>10, <1>12 DEF CoreInv, SlotsClean
<1>13. HeapOwned'
  <2> SUFFICES ASSUME Owned(heap, bufs) PROVE Owned(heap, bufs')
    BY <1>2, <1>3, HeapKept DEF CoreInv
  <2>2. ASSUME NEW t \in Slots
        PROVE  /\ bufs'[t].ptr = bufs[t].ptr /\ bufs'[t].size = bufs[t].size
               /\ bufs'[t].state = "READY" =>
                    bufs'[t].ptr # NULL /\ bufs'[t].size >= bufs'[t].requested
    <3>1. CASE t = s
      BY <1>8, <1>9, <1>12, <3>1
    <3>2. CASE t # s
      BY <1>10, <3>2 DEF Owned
    <3> QED
      BY <3>1, <3>2
  <2> QED
    BY <2>2, OwnedSameBlocks
\* The id is a slot's, so it was not given up, and the events already queued are
\* for others.
<1>16. NoWrap => id \notin abandoned
  BY <1>4 DEF CoreInv, IInv, GoneInv
<1>14. ASSUME NEW i \in 1 .. cnt, NoWrap', IsNeed(Queue[i])
       PROVE  /\ Queue[i].id # id
              /\ Queue[i].id \notin abandoned' => \E t \in Slots : Matches(Queue[i], bufs'[t])
  <2>1. ASSUME Queue[i].id \notin abandoned
        PROVE  Queue[i].id # id /\ \E t \in Slots : Matches(Queue[i], bufs'[t])
    <3>1. PICK t \in Slots : Matches(Queue[i], bufs[t])
      BY <1>3, <1>14, <2>1, NeedsNow DEF CoreInv
    <3>2. t # s /\ bufs[t].id = Queue[i].id /\ bufs[t].state # "FREE"
      BY <1>4, <3>1 DEF Matches
    <3>3. bufs[t].id # bufs[s].id
      BY <1>0, <1>3, <1>4, <1>14, <3>2 DEF UniqueIds
    <3> QED
      BY <1>4, <1>10, <3>1, <3>2, <3>3
  <2>2. Queue[i].id \in abandoned => Queue[i].id # id
    BY <1>3, <1>14, <1>16
  <2> QED
    BY <1>2, <2>1, <2>2
<1>15. NeedsMatchSlots'
  <2>0. cnt \in Nat
    BY <1>0 DEF RingTypeOK
  <2>1. CASE Full
    <3>1. \A i \in 1 .. cnt' : IsNeed(Queue'[i]) => i + 0 \in 1 .. cnt /\ Queue'[i] = Queue[i + 0]
      BY <1>0, <1>5, <2>1, EmitNoNeed
    <3>2. ASSUME NEW e, NEW t \in Slots, Matches(e, bufs[t]) PROVE Matches(e, bufs'[t])
      BY <1>4, <1>10, <3>2 DEF Matches
    <3> QED
      BY <1>0, <1>2, <1>3, <3>1, <3>2, NeedsKept DEF CoreInv
  <2>2. CASE ~Full
    <3>1. cnt' = cnt + 1 /\ Queue'[cnt + 1] = ev /\ \A i \in 1 .. cnt : Queue'[i] = Queue[i]
      BY <1>0, <1>5, <2>2, EmitAppends
    <3>2. Matches(ev, bufs'[s])
      BY <1>7, <1>9, <1>12, <2>2 DEF Matches
    <3>3. ASSUME NEW i \in 1 .. cnt', NoWrap', IsNeed(Queue'[i])
          PROVE  /\ Queue'[i].id \notin abandoned' =>
                      \E t \in Slots : Matches(Queue'[i], bufs'[t])
                 /\ \A j \in 1 .. cnt' : IsNeed(Queue'[j]) /\ Queue'[j].id = Queue'[i].id => j = i
      <4>1. ASSUME NEW j \in 1 .. cnt' PROVE j \in 1 .. cnt \/ j = cnt + 1
        BY <2>0, <3>1
      <4>2. Queue'[i].id \notin abandoned' => \E t \in Slots : Matches(Queue'[i], bufs'[t])
        BY <1>4, <1>14, <3>1, <3>2, <3>3, <4>1
      <4>3. ASSUME NEW j \in 1 .. cnt', IsNeed(Queue'[j]), Queue'[j].id = Queue'[i].id
            PROVE  j = i
        <5>1. CASE i \in 1 .. cnt /\ j \in 1 .. cnt
          BY <1>3, <3>1, <3>3, <4>3, <5>1, NeedsNow DEF CoreInv
        <5>2. CASE i \in 1 .. cnt /\ j = cnt + 1
          BY <1>7, <1>14, <3>1, <3>3, <4>3, <5>2
        <5>3. CASE i = cnt + 1 /\ j \in 1 .. cnt
          BY <1>7, <1>14, <3>1, <3>3, <4>3, <5>3
        <5> QED
          BY <4>1, <5>1, <5>2, <5>3
      <4> QED
        BY <4>2, <4>3
    <3> QED
      BY <3>3, NeedsNext
  <2> QED
    BY <2>1, <2>2
<1> QED
  BY <1>11, <1>13, <1>15

\* edgecore_detach_buffer: the slot's block is freed; if the slot was PENDING its
\* id joins the abandoned ones, so the event still queued for it is known to be
\* without a slot.
LEMMA DetachAgrees ==
  ASSUME CoreInv, NEW id \in 1 .. IdMod - 1, edgecore_detach_buffer(id), IInv'
  PROVE  SlotsClean' /\ NeedsMatchSlots' /\ HeapOwned'
<1>0. RingTypeOK /\ BuffersTypeOK /\ RingTypeOK'
  BY DEF CoreInv, IInv, TypeOK
<1> DEFINE s == Lowest(SlotsOf(id))
<1>1. s \in Slots /\ bufs[s].id = id
  BY SlotOfId DEF edgecore_detach_buffer
<1>2. bufs[s].state = "PENDING" => id \in abandoned'
  BY DEF edgecore_detach_buffer
<1>3. bufs' = [bufs EXCEPT ![s] = FreeSlot]
      /\ heap' = [b \in Blocks |-> IF b = bufs[s].ptr THEN 0 ELSE heap[b]]
      /\ minted' = minted /\ stale' = stale /\ abandoned \subseteq abandoned'
  BY DEF edgecore_detach_buffer
<1>4. cnt' = cnt /\ Queue' = Queue
  BY DEF edgecore_detach_buffer, ring, Queue
<1> HIDE DEF s
<1>5. bufs'[s] = FreeSlot /\ \A t \in Slots : t # s => bufs'[t] = bufs[t]
  BY <1>0, <1>1, <1>3 DEF BuffersTypeOK
<1>6. NoWrap' <=> NoWrap
  BY <1>3 DEF NoWrap
<1>7. SlotsClean'
  BY <1>5 DEF CoreInv, SlotsClean, FreeSlot
<1>8. HeapOwned'
  <2> SUFFICES ASSUME Owned(heap, bufs) PROVE Owned(heap', bufs')
    BY <1>3, <1>6, HeapKept DEF CoreInv
  <2>2. \A t \in Slots : bufs[t].ptr \in Blocks \cup {NULL}
    BY <1>0, SlotFields
  <2>3. \A x \in Blocks : heap'[x] = IF x = bufs[s].ptr THEN 0 ELSE heap[x]
    BY <1>3
  <2> QED
    BY <1>1, <1>5, <2>2, <2>3, OwnedFreed
<1>9. NeedsMatchSlots'
  <2>1. \A i \in 1 .. cnt' : i + 0 \in 1 .. cnt /\ Queue'[i] = Queue[i + 0]
    BY <1>0, <1>4 DEF RingTypeOK
  <2>2. ASSUME NEW i \in 1 .. cnt', NEW t \in Slots, Matches(Queue'[i], bufs[t]),
               Queue'[i].id \notin abandoned'
        PROVE  Matches(Queue'[i], bufs'[t])
    <3>1. t # s
      BY <1>1, <1>2, <2>2 DEF Matches
    <3> QED
      BY <1>5, <2>2, <3>1
  <2> QED
    BY <1>0, <1>3, <1>6, <2>1, <2>2, NeedsKept DEF CoreInv
<1> QED
  BY <1>7, <1>8, <1>9

\* A call that queues no request and touches neither table nor heap.
LEMMA EmitAgrees ==
  ASSUME CoreInv, IInv', UNCHANGED <<bufs, heap, minted, abandoned, stale>>,
         NEW ev \in Event, emit_event(ev), ~IsNeed(ev)
  PROVE  SlotsClean' /\ NeedsMatchSlots' /\ HeapOwned'
<1>0. RingTypeOK /\ RingTypeOK' /\ RingShape
  BY DEF CoreInv, IInv, TypeOK
<1>1. NoWrap' <=> NoWrap
  BY DEF NoWrap
<1>2. SlotsClean' /\ HeapOwned'
  BY <1>1, HeapKept DEF CoreInv, SlotsClean
<1>3. \A i \in 1 .. cnt' : IsNeed(Queue'[i]) => i + 0 \in 1 .. cnt /\ Queue'[i] = Queue[i + 0]
  BY <1>0, EmitNoNeed
<1> QED
  BY <1>0, <1>1, <1>2, <1>3, NeedsKept DEF CoreInv

\* The host takes an event and gives no slot a block.
LEMMA TakeAgrees ==
  ASSUME CoreInv, IInv', UNCHANGED <<bufs, heap, minted, abandoned, stale>>, edgecore_next_event
  PROVE  SlotsClean' /\ NeedsMatchSlots' /\ HeapOwned'
<1>0. RingTypeOK /\ RingTypeOK' /\ RingShape
  BY DEF CoreInv, IInv, TypeOK
<1>1. NoWrap' <=> NoWrap
  BY DEF NoWrap
<1>2. SlotsClean' /\ HeapOwned'
  BY <1>1, HeapKept DEF CoreInv, SlotsClean
<1>3. cnt' = cnt - 1 /\ cnt \in 1 .. QSize /\ \A i \in 1 .. cnt - 1 : Queue'[i] = Queue[i + 1]
  BY <1>0, TakeShifts
<1>4. \A i \in 1 .. cnt' : i + 1 \in 1 .. cnt /\ Queue'[i] = Queue[i + 1]
  BY <1>3, CoreAssumption
<1> QED
  BY <1>0, <1>1, <1>2, <1>4, NeedsKept DEF CoreInv

\* The slot of the NEED_* event at the head of the ring is the one that
\* find_slot_by_id finds, and edgecore_provide_buffer accepts the block, unless
\* the slot was given up.
LEMMA ServedSlot ==
  ASSUME CoreInv, NoWrap, edgecore_next_event, IsNeed(events[head]),
         events[head].id \notin abandoned
  PROVE  /\ Lowest(SlotsOf(events[head].id)) \in Slots
         /\ Matches(events[head], bufs[Lowest(SlotsOf(events[head].id))])
         /\ Accepts(events[head].id, events[head].size)
         /\ events[head].size \in Nat /\ events[head].size > 0
         /\ events[head].size \in 0 .. MaxSize
<1>0. TypeOK /\ RingTypeOK /\ RingShape /\ UniqueIds /\ IdsInv /\ BuffersTypeOK
  BY DEF CoreInv, IInv, TypeOK
<1>1. Queue[1] = events[head] /\ 1 \in 1 .. cnt
  BY <1>0, TakeShifts, CoreAssumption
<1> DEFINE ev == events[head]
           u == Lowest(SlotsOf(ev.id))
<1>2. PICK s \in Slots : Matches(ev, bufs[s])
  BY <1>1, NeedsNow DEF CoreInv
<1>3. bufs[s].id = ev.id /\ bufs[s].state = "PENDING" /\ bufs[s].requested = ev.size
  BY <1>2 DEF Matches
<1>4. SlotsOf(ev.id) # {}
  BY <1>3 DEF SlotsOf
<1>5. u \in Slots /\ bufs[u].state # "FREE" /\ bufs[u].id = ev.id
  BY <1>4, SlotOfId
<1>6. u = s
  BY <1>0, <1>3, <1>5 DEF UniqueIds
<1>7. ev.id # 0
  <2>1. ev.id \in 1 .. minted /\ minted \in Nat
    BY <1>0, <1>3 DEF IdsInv, BuffersTypeOK
  <2> QED
    BY <2>1
<1>8. ev.size \in Nat /\ ev.size > 0
  BY <1>0, <1>3, SlotFields DEF CoreInv, SlotsClean
<1>9. ev.size \in 0 .. MaxSize
  BY <1>0, PulledTyped DEF Event
<1>10. Accepts(ev.id, ev.size)
  BY <1>3, <1>4, <1>6, <1>7, <1>8 DEF Accepts
<1> QED
  BY <1>2, <1>5, <1>6, <1>8, <1>9, <1>10

\* Otherwise there is no slot, and the block is refused.
LEMMA GoneSlot ==
  ASSUME CoreInv, NoWrap, events[head].id \in abandoned
  PROVE  SlotsOf(events[head].id) = {} /\ ~Accepts(events[head].id, events[head].size)
<1>1. SlotsOf(events[head].id) = {}
  BY DEF CoreInv, IInv, GoneInv, SlotsOf
<1> QED
  BY <1>1 DEF Accepts

\* The slot edgecore_provide_buffer has served.
LEMMA ProvideFields ==
  ASSUME BuffersTypeOK, NEW id, NEW p \in Blocks, NEW n \in 0 .. MaxSize, Accepts(id, n),
         NEW b, b = edgecore_provide_buffer(id, p, n), NEW s, s = Lowest(SlotsOf(id))
  PROVE  /\ s \in Slots
         /\ b[s].state = "READY" /\ b[s].ptr = p /\ b[s].size = n
         /\ b[s].requested = bufs[s].requested /\ b[s].id = bufs[s].id
         /\ \A t \in Slots : t # s => b[t] = bufs[t]
<1>1. s \in Slots
  BY SlotOfId DEF Accepts
<1>2. bufs[s] \in Slot
  BY <1>1 DEF BuffersTypeOK
<1>3. b = [bufs EXCEPT ![s].state = "READY", ![s].ptr = p, ![s].size = n]
  BY DEF edgecore_provide_buffer
<1> QED
  BY <1>1, <1>2, <1>3 DEF BuffersTypeOK, Slot

\* The host serves the event at the head: block p goes to the event's slot in
\* place of the block that slot had; if the slot was given up the core takes
\* nothing, and an old block that the event still names was stale.
LEMMA ServeAgrees ==
  ASSUME CoreInv, IInv', edgecore_next_event, IsNeed(events[head]), minted' = minted,
         abandoned' = abandoned,
         NEW p \in Blocks, heap[p] = 0 \/ p = events[head].old,
         bufs' = edgecore_provide_buffer(events[head].id, p, events[head].size),
         NoWrap /\ events[head].id \notin abandoned =>
           /\ stale' = stale
           /\ \A x \in Blocks : heap'[x] = IF x = p THEN events[head].size
                                          ELSE IF x = events[head].old THEN 0 ELSE heap[x],
         NoWrap /\ events[head].id \in abandoned => stale' \/ UNCHANGED <<heap, stale>>
  PROVE  SlotsClean' /\ NeedsMatchSlots' /\ HeapOwned'
<1>0. RingTypeOK /\ RingTypeOK' /\ RingShape /\ BuffersTypeOK /\ TypeOK /\ UniqueIds
  BY DEF CoreInv, IInv, TypeOK
<1>1. NoWrap' <=> NoWrap
  BY DEF NoWrap
<1> DEFINE ev == events[head]
           s == Lowest(SlotsOf(ev.id))
<1>2. ev.size \in 0 .. MaxSize
  BY <1>0, PulledTyped DEF Event
<1>3. Accepts(ev.id, ev.size) =>
        /\ s \in Slots
        /\ bufs'[s].state = "READY" /\ bufs'[s].ptr = p /\ bufs'[s].size = ev.size
        /\ bufs'[s].requested = bufs[s].requested
        /\ \A t \in Slots : t # s => bufs'[t] = bufs[t]
  BY <1>0, <1>2, ProvideFields
<1>4. ~Accepts(ev.id, ev.size) => bufs' = bufs
  BY DEF edgecore_provide_buffer
<1>5. NoWrap /\ ev.id \notin abandoned
        => /\ s \in Slots /\ Matches(ev, bufs[s]) /\ Accepts(ev.id, ev.size)
           /\ ev.size \in Nat /\ ev.size > 0
  BY ServedSlot
<1>13. NoWrap /\ ev.id \in abandoned => bufs' = bufs /\ (stale' \/ UNCHANGED <<heap, stale>>)
  BY <1>4, GoneSlot
<1>6. heap[p] = 0 \/ p = ev.old
  OBVIOUS
<1>7. Queue[1] = ev /\ cnt' = cnt - 1 /\ cnt \in 1 .. QSize
      /\ \A i \in 1 .. cnt - 1 : Queue'[i] = Queue[i + 1]
  BY <1>0, TakeShifts
<1>8. NoWrap /\ ev.id \notin abandoned =>
        /\ stale' = stale
        /\ \A x \in Blocks :
             heap'[x] = IF x = p THEN ev.size ELSE IF x = ev.old THEN 0 ELSE heap[x]
  OBVIOUS
<1>9. IsNeed(ev)
  OBVIOUS
<1> HIDE DEF ev, s
<1>10. SlotsClean'
  <2>1. CASE Accepts(ev.id, ev.size)
    <3>1. ASSUME NEW t \in Slots
          PROVE  /\ bufs'[t].state = "FREE" => bufs'[t].ptr = NULL
                 /\ bufs'[t].state = "READY" => bufs'[t].ptr # NULL
                 /\ bufs'[t].state = "PENDING" => bufs'[t].requested > 0
      BY <1>3, <2>1, CoreAssumption DEF CoreInv, SlotsClean
    <3> QED
      BY <3>1 DEF SlotsClean
  <2>2. CASE ~Accepts(ev.id, ev.size)
    BY <1>4, <2>2 DEF CoreInv, SlotsClean
  <2> QED
    BY <2>1, <2>2
<1>11. HeapOwned'
  <2>1. CASE NoWrap /\ ev.id \in abandoned
    BY <1>1, <1>13, <2>1, HeapNow, HeapNext DEF CoreInv
  <2>2. CASE NoWrap /\ ev.id \notin abandoned
    <3> SUFFICES ASSUME Owned(heap, bufs) PROVE Owned(heap', bufs')
      BY <1>1, <1>8, <2>2, HeapKept DEF CoreInv
    <3>2. bufs[s].ptr = ev.old /\ bufs[s].requested = ev.size
      BY <1>5, <2>2 DEF Matches
    <3>3. \A t \in Slots : bufs[t].ptr \in Blocks \cup {NULL}
      BY <1>0, SlotFields
    <3>4. bufs'[s].requested = ev.size /\ ev.size >= bufs'[s].requested
      BY <1>3, <1>5, <2>2, <3>2
    <3>5. \A x \in Blocks : heap'[x] = IF x = p THEN ev.size
                                       ELSE IF x = bufs[s].ptr THEN 0 ELSE heap[x]
      BY <1>8, <2>2, <3>2
    <3>6. heap[p] = 0 \/ p = bufs[s].ptr
      BY <1>6, <3>2
    <3>7. /\ s \in Slots /\ bufs'[s].ptr = p /\ bufs'[s].size = ev.size
          /\ ev.size \in Nat /\ ev.size > 0 /\ \A t \in Slots : t # s => bufs'[t] = bufs[t]
      BY <1>3, <1>5, <2>2
    <3> QED
      BY <3>3, <3>4, <3>5, <3>6, <3>7, OwnedGiven
  <2>3. CASE ~NoWrap
    BY <1>1, <2>3, HeapNext
  <2> QED
    BY <2>1, <2>2, <2>3
<1>12. NeedsMatchSlots'
  <2>1. \A i \in 1 .. cnt' : i + 1 \in 1 .. cnt /\ Queue'[i] = Queue[i + 1] /\ i + 1 # 1
    BY <1>7, CoreAssumption
  <2>2. 1 \in 1 .. cnt
    BY <1>7, CoreAssumption
  <2>3. ASSUME NEW i \in 1 .. cnt', NEW t \in Slots, NoWrap', IsNeed(Queue'[i]),
               Matches(Queue'[i], bufs[t])
        PROVE  Matches(Queue'[i], bufs'[t])
    <3>1. CASE ev.id \in abandoned
      BY <1>1, <1>13, <2>3, <3>1
    <3>2. CASE ev.id \notin abandoned
      <4>1. Queue'[i].id # ev.id
        BY <1>1, <1>7, <1>9, <2>1, <2>2, <2>3, NeedsNow DEF CoreInv
      <4>2. t # s
        BY <1>1, <1>5, <2>3, <3>2, <4>1 DEF Matches
      <4> QED
        BY <1>1, <1>3, <1>5, <2>3, <3>2, <4>2
    <3> QED
      BY <3>1, <3>2
  <2> QED
    BY <1>0, <1>1, <2>1, <2>3, NeedsKept DEF CoreInv
<1> QED
  BY <1>10, <1>11, <1>12

\* ServeAlloc and ServeRealloc in the form ServeAgrees wants.
LEMMA ServeStep ==
  ASSUME CoreInv, ServeAlloc \/ ServeRealloc
  PROVE  /\ edgecore_next_event /\ IsNeed(events[head])
         /\ minted' = minted /\ next_alloc_id' = next_alloc_id /\ abandoned' = abandoned
         /\ UNCHANGED <<config, oom, seen>>
         /\ NoWrap /\ events[head].id \in abandoned => stale' \/ UNCHANGED <<heap, stale>>
         /\ \E p \in Blocks :
              /\ heap[p] = 0 \/ p = events[head].old
              /\ bufs' = edgecore_provide_buffer(events[head].id, p, events[head].size)
              /\ NoWrap /\ events[head].id \notin abandoned =>
                   /\ stale' = stale
                   /\ \A x \in Blocks :
                        heap'[x] = IF x = p THEN events[head].size
                                   ELSE IF x = events[head].old THEN 0 ELSE heap[x]
<1> DEFINE ev == events[head]
<1>0. heap \in [Blocks -> 0 .. MaxSize] /\ stale \in BOOLEAN
  BY DEF CoreInv, IInv, TypeOK, HostTypeOK
<1>1. edgecore_next_event /\ IsNeed(ev) /\ minted' = minted /\ next_alloc_id' = next_alloc_id
      /\ abandoned' = abandoned /\ UNCHANGED <<config, oom, seen>>
  BY DEF ServeAlloc, ServeRealloc, IsNeed
<1>2. NoWrap /\ ev.id \notin abandoned
        => Accepts(ev.id, ev.size) /\ Matches(ev, bufs[Lowest(SlotsOf(ev.id))])
  BY <1>1, ServedSlot
<1>5. NoWrap /\ ev.id \in abandoned => SlotsOf(ev.id) = {} /\ ~Accepts(ev.id, ev.size)
  BY GoneSlot
<1>3. CASE ServeAlloc
  <2>1. PICK p \in Blocks :
          /\ heap[p] = 0
          /\ bufs' = edgecore_provide_buffer(ev.id, p, ev.size)
          /\ heap' = IF Accepts(ev.id, ev.size) THEN [heap EXCEPT ![p] = ev.size] ELSE heap
    BY <1>3 DEF ServeAlloc
  <2>2. NoWrap /\ ev.id \notin abandoned => ev.old = NULL
    BY <1>2, <1>3 DEF ServeAlloc, Matches
  <2>3. NoWrap /\ ev.id \notin abandoned =>
          \A x \in Blocks : heap'[x] = IF x = p THEN ev.size
                                       ELSE IF x = ev.old THEN 0 ELSE heap[x]
    BY <1>0, <1>2, <2>1, <2>2, CoreAssumption
  <2>4. stale' = stale
    BY <1>3 DEF ServeAlloc
  <2>5. NoWrap /\ ev.id \in abandoned => heap' = heap
    BY <1>5, <2>1
  <2> QED
    BY <1>1, <2>1, <2>3, <2>4, <2>5
<1>4. CASE ServeRealloc
  <2>1. PICK p \in Blocks :
          /\ heap[p] = 0 \/ p = ev.old
          /\ bufs' = edgecore_provide_buffer(ev.id, p, ev.size)
          /\ heap' = [x \in Blocks |->
                        IF x = p /\ Accepts(ev.id, ev.size) THEN ev.size
                        ELSE IF x \in {p, ev.old} THEN 0 ELSE heap[x]]
    BY <1>4 DEF ServeRealloc
  <2>2. NoWrap /\ ev.id \notin abandoned =>
          \A x \in Blocks : heap'[x] = IF x = p THEN ev.size
                                       ELSE IF x = ev.old THEN 0 ELSE heap[x]
    BY <1>2, <2>1
  <2>3. stale' = (stale \/ ~ \E u \in SlotsOf(ev.id) : bufs[u].ptr = ev.old)
    BY <1>4 DEF ServeRealloc
  <2>4. NoWrap /\ ev.id \in abandoned => stale'
    BY <1>5, <2>3, Zenon
  <2>5. NoWrap /\ ev.id \notin abandoned => \E u \in SlotsOf(ev.id) : bufs[u].ptr = ev.old
    <3>1. SlotsOf(ev.id) # {} => Lowest(SlotsOf(ev.id)) \in SlotsOf(ev.id)
      BY LowestIsMember DEF SlotsOf
    <3> QED
      BY <1>2, <3>1 DEF Accepts, Matches
  <2>6. NoWrap /\ ev.id \notin abandoned => stale' = stale
    BY <1>0, <2>3, <2>5, Zenon
  <2> QED
    BY <1>1, <2>1, <2>2, <2>4, <2>6
<1> QED
  BY <1>3, <1>4

\* A slot that still waits after the host served an event is another event's.
LEMMA StillWaits ==
  ASSUME CoreInv, NoWrap, edgecore_next_event, IsNeed(events[head]), NEW p \in Blocks,
         bufs' = edgecore_provide_buffer(events[head].id, p, events[head].size),
         NEW t \in Slots, bufs'[t].state = "PENDING"
  PROVE  bufs'[t] = bufs[t] /\ bufs[t].id # events[head].id
<1>0. TypeOK /\ BuffersTypeOK /\ UniqueIds /\ GoneInv
  BY DEF CoreInv, IInv, TypeOK
<1> DEFINE ev == events[head]
           s == Lowest(SlotsOf(ev.id))
<1>1. CASE ev.id \in abandoned
  <2>1. bufs' = bufs
    BY <1>1, GoneSlot DEF edgecore_provide_buffer
  <2> QED
    BY <1>0, <1>1, <2>1 DEF GoneInv
<1>2. CASE ev.id \notin abandoned
  <2>1. s \in Slots /\ Matches(ev, bufs[s]) /\ Accepts(ev.id, ev.size) /\ ev.size \in 0 .. MaxSize
    BY <1>2, ServedSlot
  <2>2. bufs'[s].state = "READY" /\ \A u \in Slots : u # s => bufs'[u] = bufs[u]
    BY <1>0, <2>1, ProvideFields
  <2> HIDE DEF s
  <2>3. t # s /\ bufs'[t] = bufs[t]
    BY <2>2
  <2>4. bufs[s].id = ev.id /\ bufs[s].state # "FREE" /\ bufs[t].state # "FREE"
    BY <2>1, <2>3 DEF Matches
  <2> QED
    BY <1>0, <2>1, <2>3, <2>4 DEF UniqueIds
<1> QED
  BY <1>1, <1>2

LEMMA CoreInvInit == Init => CoreInv
<1> SUFFICES ASSUME Init PROVE CoreInv
  OBVIOUS
<1>1. IdsInv /\ UniqueIds /\ GoneInv
  BY CoreAssumption DEF Init, IdsInv, UniqueIds, GoneInv, FreeSlot
<1>2. IInv /\ RingShape
  BY <1>1, InitTyped, RingInvInit DEF IInv, RingInv
<1>3. \A s \in Slots : bufs[s] = FreeSlot
  BY DEF Init
<1>4. FreeSlot.ptr = NULL /\ FreeSlot.state = "FREE"
  BY DEF FreeSlot
<1>5. SlotsClean
  BY <1>3, <1>4 DEF SlotsClean
<1>6. NeedsMatchSlots
  BY DEF Init, NeedsMatchSlots
<1>7. HeapOwned
  BY <1>3, <1>4 DEF Init, HeapOwned
<1> QED
  BY <1>2, <1>5, <1>6, <1>7 DEF CoreInv

LEMMA CoreInvNext == CoreInv /\ [Next]_vars => CoreInv'
<1> SUFFICES ASSUME CoreInv, [Next]_vars PROVE CoreInv'
  OBVIOUS
<1>0. IInv' /\ RingShape'
  BY NextIds, RingInvNext DEF CoreInv, IInv, RingInv
<1> SUFFICES SlotsClean' /\ NeedsMatchSlots' /\ HeapOwned'
  BY <1>0 DEF CoreInv
<1>1. ASSUME NEW n \in Sizes, edgecore_request_alloc(n)
      PROVE  SlotsClean' /\ NeedsMatchSlots' /\ HeapOwned'
  BY <1>0, <1>1, RequestAllocAgrees
<1>2. ASSUME NEW id \in 1 .. IdMod - 1, NEW n \in Sizes, edgecore_request_realloc(id, n)
      PROVE  SlotsClean' /\ NeedsMatchSlots' /\ HeapOwned'
  BY <1>0, <1>2, RequestReallocAgrees
<1>3. ASSUME NEW id \in 1 .. IdMod - 1, edgecore_detach_buffer(id)
      PROVE  SlotsClean' /\ NeedsMatchSlots' /\ HeapOwned'
  BY <1>0, <1>3, DetachAgrees
<1>4. ASSUME NEW c \in Configs, edgecore_apply_config(c)
      PROVE  SlotsClean' /\ NeedsMatchSlots' /\ HeapOwned'
  <2>1. UNCHANGED <<bufs, heap, minted, abandoned, stale>>
    BY <1>4 DEF edgecore_apply_config, buffers, host
  <2>2. generation + 1 \in Nat
    BY DEF CoreInv, IInv, TypeOK, ConfigTypeOK
  <2>3. \E ev \in Event : emit_event(ev) /\ ~IsNeed(ev)
    BY <1>4, <2>2, EventsTyped, KindsOfEvents DEF edgecore_apply_config
  <2> QED
    BY <1>0, <2>1, <2>3, EmitAgrees
<1>5. CASE edgecore_notify_config_rejected
  <2>1. UNCHANGED <<bufs, heap, minted, abandoned, stale>> /\ emit_event(ConfigRejected)
    BY <1>5 DEF edgecore_notify_config_rejected, buffers, host
  <2> QED
    BY <1>0, <2>1, EventsTyped, KindsOfEvents, EmitAgrees
<1>6. CASE ServeAlloc \/ ServeRealloc
  BY <1>0, <1>6, ServeStep, ServeAgrees
<1>7. CASE ServeFails \/ Observe
  <2>1. UNCHANGED <<bufs, heap, minted, abandoned, stale>> /\ edgecore_next_event
    BY <1>7 DEF ServeFails, Observe, buffers
  <2> QED
    BY <1>0, <2>1, TakeAgrees
<1>8. CASE UNCHANGED vars
  <2>1. NeedsMatchSlots'
    BY <1>8 DEF vars, ring, buffers, NeedsMatchSlots, Queue, NoWrap, CoreInv, IsNeed, SlotsOf
  <2>2. SlotsClean' /\ HeapOwned'
    BY <1>8 DEF vars, buffers, host, SlotsClean, HeapOwned, NoWrap, CoreInv
  <2> QED
    BY <2>1, <2>2
<1> QED
  BY <1>1, <1>2, <1>3, <1>4, <1>5, <1>6, <1>7, <1>8 DEF Next

\* Until the id counter wraps, for every ring, table and id width: a queued NEED_*
\* event is still exactly true of its slot when the host gets to it, unless the
\* slot was detached while PENDING; then no slot carries the id any more, whatever
\* was requested since, and the host's answer is refused.
THEOREM NeedsAreCurrent == Spec => []NeedsMatchSlots
<1>1. CoreInv => NeedsMatchSlots
  BY DEF CoreInv
<1> QED
  BY <1>1, CoreInvInit, CoreInvNext, PTL DEF Spec

\* No block leaks and none is shared: through every order of requests, growths,
\* failures and detaches the live blocks are exactly those the slots hold, up to
\* the first time the host reallocs a stale pointer; and that takes a buffer
\* detached while it was PENDING.
THEOREM HeapIsOwned == Spec => []HeapOwned
<1>1. CoreInv => HeapOwned
  BY DEF CoreInv
<1> QED
  BY <1>1, CoreInvInit, CoreInvNext, PTL DEF Spec

-------------------------------------------------------------------------------
(* Each dropped event or failed allocation strands at most one slot *)

\* A set of slots is finite.
LEMMA SlotsFinite ==
  ASSUME NEW A, A \subseteq Slots
  PROVE  IsFiniteSet(A) /\ Cardinality(A) \in Nat
<1>1. 1 \in Int /\ MaxBufs \in Int
  BY CoreAssumption
<1>2. IsFiniteSet(Slots)
  BY <1>1, FS_Interval DEF Slots
<1>3. IsFiniteSet(A)
  BY <1>2, FS_Subset
<1> QED
  BY <1>3, FS_CardinalityType

\* Adding at most one slot to a set of slots adds at most one to its size.
LEMMA OneMore ==
  ASSUME NEW A, A \subseteq Slots, NEW B, NEW t, B \subseteq A \cup {t},
         NEW k \in Nat, Cardinality(A) <= k
  PROVE  Cardinality(B) <= k + 1
<1>1. IsFiniteSet(A) /\ Cardinality(A) \in Nat
  BY SlotsFinite
<1>2. IsFiniteSet(A \cup {t})
      /\ Cardinality(A \cup {t}) = IF t \in A THEN Cardinality(A) ELSE Cardinality(A) + 1
  BY <1>1, FS_AddElement
<1>3. IsFiniteSet(B) /\ Cardinality(B) <= Cardinality(A \cup {t})
  BY <1>2, FS_Subset
<1>4. Cardinality(B) \in Nat
  BY <1>3, FS_CardinalityType
<1> QED
  BY <1>1, <1>2, <1>3, <1>4

LEMMA NoMore ==
  ASSUME NEW A, A \subseteq Slots, NEW B, B \subseteq A, NEW k \in Nat, Cardinality(A) <= k
  PROVE  Cardinality(B) <= k
<1>1. IsFiniteSet(A) /\ Cardinality(A) \in Nat
  BY SlotsFinite
<1>2. IsFiniteSet(B) /\ Cardinality(B) <= Cardinality(A)
  BY <1>1, FS_Subset
<1> QED
  BY <1>1, <1>2, FS_CardinalityType

\* A slot outside T that waits after a step was served by an event before it and
\* still is, or the step queued an event for it.
LEMMA UnservedStep ==
  ASSUME NEW T,
         \A s \in Slots : s \notin T /\ bufs'[s].state = "PENDING" =>
           \/ \E i \in 1 .. cnt' : IsNeed(Queue'[i]) /\ Queue'[i].id = bufs'[s].id
           \/ /\ bufs[s].state = "PENDING" /\ bufs'[s].id = bufs[s].id
              /\ \A i \in 1 .. cnt : IsNeed(Queue[i]) /\ Queue[i].id = bufs[s].id
                   => \E j \in 1 .. cnt' : Queue'[j] = Queue[i]
  PROVE  Unserved' \subseteq Unserved \cup T
<1> SUFFICES ASSUME NEW s \in Unserved', s \notin T PROVE s \in Unserved
  OBVIOUS
<1>1. s \in Slots /\ bufs'[s].state = "PENDING"
      /\ ~ \E i \in 1 .. cnt' : IsNeed(Queue'[i]) /\ Queue'[i].id = bufs'[s].id
  BY DEF Unserved, IsNeed
<1>2. bufs[s].state = "PENDING" /\ bufs'[s].id = bufs[s].id
      /\ \A i \in 1 .. cnt : IsNeed(Queue[i]) /\ Queue[i].id = bufs[s].id
           => \E j \in 1 .. cnt' : Queue'[j] = Queue[i]
  BY <1>1
<1>3. ~ \E i \in 1 .. cnt : IsNeed(Queue[i]) /\ Queue[i].id = bufs[s].id
  BY <1>1, <1>2
<1> QED
  BY <1>1, <1>2, <1>3 DEF Unserved

\* The ids being unique, at most one slot waits for the oldest event.
LEMMA OnlySlotOfId ==
  ASSUME UniqueIds, NoWrap, NEW id
  PROVE  SlotsOf(id) \subseteq {Lowest(SlotsOf(id))}
<1> SUFFICES ASSUME NEW s \in SlotsOf(id) PROVE s = Lowest(SlotsOf(id))
  OBVIOUS
<1>1. s \in Slots /\ bufs[s].state # "FREE" /\ bufs[s].id = id
  BY DEF SlotsOf
<1>2. Lowest(SlotsOf(id)) \in Slots /\ bufs[Lowest(SlotsOf(id))].state # "FREE"
      /\ bufs[Lowest(SlotsOf(id))].id = id
  BY SlotOfId
<1> QED
  BY <1>1, <1>2 DEF UniqueIds

\* A step that loses only the oldest event strands only that event's slot.
LEMMA OldestLost ==
  ASSUME UniqueIds, NoWrap,
         \A s \in Slots : bufs'[s].state = "PENDING" =>
           bufs[s].state = "PENDING" /\ bufs'[s].id = bufs[s].id,
         \A i \in 1 .. cnt : i # 1 => \E j \in 1 .. cnt' : Queue'[j] = Queue[i]
  PROVE  Unserved' \subseteq Unserved \cup {Lowest(SlotsOf(Queue[1].id))}
<1>1. Unserved' \subseteq Unserved \cup SlotsOf(Queue[1].id)
  <2>1. ASSUME NEW s \in Slots, s \notin SlotsOf(Queue[1].id), bufs'[s].state = "PENDING"
        PROVE  /\ bufs[s].state = "PENDING" /\ bufs'[s].id = bufs[s].id
               /\ \A i \in 1 .. cnt : IsNeed(Queue[i]) /\ Queue[i].id = bufs[s].id
                    => \E j \in 1 .. cnt' : Queue'[j] = Queue[i]
    <3>1. bufs[s].state = "PENDING" /\ bufs'[s].id = bufs[s].id
      BY <2>1
    <3>2. bufs[s].id # Queue[1].id
      BY <2>1, <3>1 DEF SlotsOf
    <3> QED
      BY <3>1, <3>2
  <2> QED
    BY <2>1, UnservedStep
<1> QED
  BY <1>1, OnlySlotOfId

\* A step that loses no request strands no slot.
LEMMA NothingLost ==
  ASSUME \A s \in Slots : bufs'[s].state = "PENDING" =>
           bufs[s].state = "PENDING" /\ bufs'[s].id = bufs[s].id,
         \A i \in 1 .. cnt : IsNeed(Queue[i]) => \E j \in 1 .. cnt' : Queue'[j] = Queue[i]
  PROVE  Unserved' \subseteq Unserved
<1>1. \A s \in Slots : s \notin {} /\ bufs'[s].state = "PENDING" =>
        \/ \E i \in 1 .. cnt' : IsNeed(Queue'[i]) /\ Queue'[i].id = bufs'[s].id
        \/ /\ bufs[s].state = "PENDING" /\ bufs'[s].id = bufs[s].id
           /\ \A i \in 1 .. cnt : IsNeed(Queue[i]) /\ Queue[i].id = bufs[s].id
                => \E j \in 1 .. cnt' : Queue'[j] = Queue[i]
  OBVIOUS
<1> QED
  BY <1>1, UnservedStep

\* What emit_event and edgecore_next_event keep of the queue.
LEMMA EmitKeeps ==
  ASSUME RingTypeOK, RingShape, NEW ev \in Event, emit_event(ev),
         NEW i \in 1 .. cnt, ~Full \/ i # 1
  PROVE  \E j \in 1 .. cnt' : Queue'[j] = Queue[i]
<1>1. cnt \in Nat
  BY DEF RingTypeOK
<1>2. CASE Full
  <2>1. cnt' = cnt /\ \A k \in 2 .. cnt : Queue'[k] = Queue[k]
    BY <1>2, EmitOverruns
  <2>2. i \in 2 .. cnt /\ i \in 1 .. cnt'
    BY <1>1, <1>2, <2>1
  <2> QED
    BY <2>1, <2>2
<1>3. CASE ~Full
  <2>1. cnt' = cnt + 1 /\ \A k \in 1 .. cnt : Queue'[k] = Queue[k]
    BY <1>3, EmitAppends
  <2>2. i \in 1 .. cnt'
    BY <1>1, <2>1
  <2> QED
    BY <2>1, <2>2
<1> QED
  BY <1>2, <1>3

LEMMA TakeKeeps ==
  ASSUME RingTypeOK, RingShape, edgecore_next_event, NEW i \in 1 .. cnt, i # 1
  PROVE  \E j \in 1 .. cnt' : Queue'[j] = Queue[i]
<1>1. cnt' = cnt - 1 /\ cnt \in 1 .. QSize /\ \A k \in 1 .. cnt - 1 : Queue'[k] = Queue[k + 1]
  BY TakeShifts
<1>2. i - 1 \in 1 .. cnt - 1 /\ i - 1 \in 1 .. cnt' /\ (i - 1) + 1 = i
  BY <1>1, CoreAssumption
<1>3. Queue'[i - 1] = Queue[(i - 1) + 1]
  BY <1>1, <1>2
<1> QED
  BY <1>2, <1>3

\* What a step may do to the set of stranded slots.
Strands ==
  \/ Unserved' \subseteq Unserved /\ dropped' + oom' >= dropped + oom
  \/ /\ \E t : Unserved' \subseteq Unserved \cup {t}
     /\ dropped' + oom' = dropped + oom + 1

\* A call that emits an event without leaving a new slot PENDING.
LEMMA EmitStrands ==
  ASSUME CoreInv, NoWrap, oom' = oom, NEW ev \in Event, emit_event(ev),
         \A s \in Slots : bufs'[s].state = "PENDING" =>
           bufs[s].state = "PENDING" /\ bufs'[s].id = bufs[s].id
  PROVE  Strands
<1>0. RingTypeOK /\ RingShape /\ UniqueIds /\ dropped \in Nat /\ oom \in Nat
  BY DEF CoreInv, IInv, TypeOK, RingTypeOK, HostTypeOK
<1>1. CASE Full
  <2>1. \A i \in 1 .. cnt : i # 1 => \E j \in 1 .. cnt' : Queue'[j] = Queue[i]
    BY <1>0, EmitKeeps
  <2>2. dropped' = dropped + 1
    BY <1>0, <1>1, EmitOverruns
  <2>3. dropped' + oom' = dropped + oom + 1
    BY <1>0, <2>2
  <2> QED
    BY <1>0, <2>1, <2>3, OldestLost DEF Strands
<1>2. CASE ~Full
  <2>1. \A i \in 1 .. cnt : \E j \in 1 .. cnt' : Queue'[j] = Queue[i]
    BY <1>0, <1>2, EmitKeeps
  <2>2. dropped' = dropped
    BY <1>0, <1>2, EmitAppends
  <2>3. dropped' + oom' >= dropped + oom
    BY <1>0, <2>2
  <2> QED
    BY <2>1, <2>3, NothingLost DEF Strands
<1> QED
  BY <1>1, <1>2

\* A request that is queued: the slot f that waits has its event.
LEMMA RequestStrands ==
  ASSUME CoreInv, NoWrap, oom' = oom, NEW ev \in Event, emit_event(ev), ~Full, IsNeed(ev),
         NEW f \in Slots, bufs'[f].id = ev.id,
         \A s \in Slots : s # f => bufs'[s] = bufs[s]
  PROVE  Strands
<1>0. RingTypeOK /\ RingShape /\ dropped \in Nat /\ oom \in Nat /\ cnt \in Nat
  BY DEF CoreInv, IInv, TypeOK, RingTypeOK, HostTypeOK
<1>1. cnt' = cnt + 1 /\ Queue'[cnt + 1] = ev /\ dropped' = dropped
  BY <1>0, EmitAppends
<1>2. cnt + 1 \in 1 .. cnt' /\ dropped' + oom' >= dropped + oom
  BY <1>0, <1>1
<1>3. ASSUME NEW s \in Slots, s \notin {}, bufs'[s].state = "PENDING"
      PROVE  \/ \E i \in 1 .. cnt' : IsNeed(Queue'[i]) /\ Queue'[i].id = bufs'[s].id
             \/ /\ bufs[s].state = "PENDING" /\ bufs'[s].id = bufs[s].id
                /\ \A i \in 1 .. cnt : IsNeed(Queue[i]) /\ Queue[i].id = bufs[s].id
                     => \E j \in 1 .. cnt' : Queue'[j] = Queue[i]
  <2>1. CASE s = f
    BY <1>1, <1>2, <2>1
  <2>2. CASE s # f
    <3>1. bufs'[s] = bufs[s]
      BY <2>2
    <3>2. \A i \in 1 .. cnt : \E j \in 1 .. cnt' : Queue'[j] = Queue[i]
      BY <1>0, EmitKeeps
    <3> QED
      BY <1>3, <3>1, <3>2
  <2> QED
    BY <2>1, <2>2
<1>4. Unserved' \subseteq Unserved \cup {}
  BY <1>3, UnservedStep
<1> QED
  BY <1>2, <1>4 DEF Strands

LEMMA NextStrands ==
  ASSUME CoreInv, CoreInv', [Next]_vars, NoWrap'
  PROVE  NoWrap /\ Strands
<1>0. /\ RingTypeOK /\ RingShape /\ UniqueIds /\ dropped \in Nat /\ oom \in Nat /\ cnt \in Nat
      /\ TypeOK /\ BuffersTypeOK /\ minted \in Nat
  BY DEF CoreInv, IInv, TypeOK, RingTypeOK, HostTypeOK, BuffersTypeOK
<1>1. ASSUME NEW n \in Sizes, edgecore_request_alloc(n) PROVE NoWrap /\ Strands
  <2> DEFINE ev == NeedAlloc(mint_alloc_id, n)
             f == Lowest(FreeSlots)
  <2>1. minted' = minted + 1 /\ oom' = oom /\ emit_event(ev) /\ FreeSlots # {}
        /\ bufs' = IF Full THEN bufs ELSE [bufs EXCEPT ![f] = PendingSlot(mint_alloc_id, n)]
    BY <1>1 DEF edgecore_request_alloc, host
  <2>2. NoWrap
    BY <1>0, <2>1, CoreAssumption DEF NoWrap
  <2>3. ev \in Event /\ IsNeed(ev) /\ ev.id = mint_alloc_id
    BY <1>0, MintIsId, EventsTyped, KindsOfEvents DEF BuffersTypeOK, NeedAlloc
  <2>4. f \in Slots
    <3>1. FreeSlots \subseteq Slots
      BY DEF FreeSlots
    <3>2. f \in FreeSlots
      BY <2>1, <3>1, LowestIsMember
    <3> QED
      BY <3>1, <3>2
  <2> HIDE DEF ev, f
  <2>5. CASE Full
    BY <2>1, <2>2, <2>3, <2>5, EmitStrands
  <2>6. CASE ~Full
    <3>1. bufs'[f] = PendingSlot(mint_alloc_id, n) /\ \A s \in Slots : s # f => bufs'[s] = bufs[s]
      BY <1>0, <2>1, <2>4, <2>6 DEF BuffersTypeOK
    <3>2. bufs'[f].id = ev.id
      BY <2>3, <3>1 DEF PendingSlot
    <3> QED
      BY <2>1, <2>2, <2>3, <2>4, <2>6, <3>1, <3>2, RequestStrands
  <2> QED
    BY <2>5, <2>6
<1>2. ASSUME NEW id \in 1 .. IdMod - 1, NEW n \in Sizes, edgecore_request_realloc(id, n)
      PROVE  NoWrap /\ Strands
  <2> DEFINE s == Lowest(SlotsOf(id))
             ev == NeedRealloc(id, n, bufs[s].ptr)
  <2>1. NoWrap /\ oom' = oom
    BY <1>2 DEF edgecore_request_realloc, host, NoWrap
  <2>2. s \in Slots /\ bufs[s].id = id /\ bufs[s].state = "READY"
    BY <1>2, SlotOfId DEF edgecore_request_realloc
  <2>3. ev \in Event /\ emit_event(ev) /\ IsNeed(ev) /\ ev.id = id
    BY <1>0, <1>2, <2>2, SlotFields, EventsTyped, KindsOfEvents
       DEF edgecore_request_realloc, NeedRealloc
  <2>4. bufs' = IF Full THEN [bufs EXCEPT ![s].requested = bufs[s].size]
                ELSE [bufs EXCEPT ![s].state = "PENDING", ![s].requested = n]
    BY <1>2 DEF edgecore_request_realloc
  <2>5. bufs[s] \in Slot
    BY <1>0, <2>2, SlotFields
  <2> HIDE DEF s, ev
  <2>6. bufs'[s].id = id /\ \A t \in Slots : t # s => bufs'[t] = bufs[t]
    BY <1>0, <2>2, <2>4, <2>5 DEF BuffersTypeOK, Slot
  <2>7. CASE Full
    <3>1. bufs'[s].state = "READY"
      BY <1>0, <2>2, <2>4, <2>5, <2>7 DEF BuffersTypeOK, Slot
    <3> QED
      BY <2>1, <2>3, <2>6, <3>1, EmitStrands
  <2>8. CASE ~Full
    BY <2>1, <2>2, <2>3, <2>6, <2>8, RequestStrands
  <2> QED
    BY <2>7, <2>8
<1>3. ASSUME NEW id \in 1 .. IdMod - 1, edgecore_detach_buffer(id) PROVE NoWrap /\ Strands
  <2>1. NoWrap /\ oom' = oom /\ dropped' = dropped /\ cnt' = cnt /\ Queue' = Queue
    BY <1>3 DEF edgecore_detach_buffer, NoWrap, ring, Queue
  <2>2. Lowest(SlotsOf(id)) \in Slots
        /\ bufs' = [bufs EXCEPT ![Lowest(SlotsOf(id))] = FreeSlot]
    BY <1>3, SlotOfId DEF edgecore_detach_buffer
  <2>3. \A s \in Slots : bufs'[s].state = "PENDING" =>
          bufs[s].state = "PENDING" /\ bufs'[s].id = bufs[s].id
    BY <1>0, <2>2 DEF BuffersTypeOK, FreeSlot
  <2>4. Unserved' \subseteq Unserved
    BY <2>1, <2>3, NothingLost
  <2> QED
    BY <1>0, <2>1, <2>4 DEF Strands
<1>4. ASSUME NEW ev \in Event, emit_event(ev), UNCHANGED <<bufs, minted, oom>>
      PROVE  NoWrap /\ Strands
  <2>1. NoWrap
    BY <1>4 DEF NoWrap
  <2> QED
    BY <1>4, <2>1, EmitStrands
<1>5. ASSUME NEW c \in Configs, edgecore_apply_config(c) PROVE NoWrap /\ Strands
  <2>1. generation + 1 \in Nat
    BY <1>0 DEF TypeOK, ConfigTypeOK
  <2> QED
    BY <1>4, <1>5, <2>1, EventsTyped DEF edgecore_apply_config, buffers, host
<1>6. CASE edgecore_notify_config_rejected
  BY <1>4, <1>6, EventsTyped DEF edgecore_notify_config_rejected, buffers, host
<1>7. CASE ServeAlloc \/ ServeRealloc
  <2> DEFINE ev == events[head]
  <2>1. edgecore_next_event /\ IsNeed(ev) /\ minted' = minted /\ oom' = oom
    BY <1>7, ServeStep
  <2>2. PICK p \in Blocks : bufs' = edgecore_provide_buffer(ev.id, p, ev.size)
    BY <1>7, ServeStep
  <2>3. NoWrap
    BY <2>1 DEF NoWrap
  <2>6. Queue[1] = ev /\ dropped' = dropped
    BY <1>0, <2>1, TakeShifts
  <2>7. ASSUME NEW t \in Slots, t \notin {}, bufs'[t].state = "PENDING"
        PROVE  /\ bufs[t].state = "PENDING" /\ bufs'[t].id = bufs[t].id
               /\ \A i \in 1 .. cnt : IsNeed(Queue[i]) /\ Queue[i].id = bufs[t].id
                    => \E j \in 1 .. cnt' : Queue'[j] = Queue[i]
    <3>1. bufs'[t] = bufs[t] /\ bufs[t].id # ev.id
      BY <2>1, <2>2, <2>3, <2>7, StillWaits
    <3>2. \A i \in 1 .. cnt : i # 1 => \E j \in 1 .. cnt' : Queue'[j] = Queue[i]
      BY <1>0, <2>1, TakeKeeps
    <3> QED
      BY <2>6, <2>7, <3>1, <3>2
  <2>8. Unserved' \subseteq Unserved \cup {}
    BY <2>7, UnservedStep
  <2> QED
    BY <1>0, <2>1, <2>3, <2>6, <2>8 DEF Strands
<1>8. CASE ServeFails
  <2>1. edgecore_next_event /\ bufs' = bufs /\ minted' = minted /\ oom' = oom + 1
    BY <1>8 DEF ServeFails, buffers
  <2>2. dropped' = dropped
    BY <1>0, <2>1, TakeShifts
  <2>3. \A i \in 1 .. cnt : i # 1 => \E j \in 1 .. cnt' : Queue'[j] = Queue[i]
    BY <1>0, <2>1, TakeKeeps
  <2>4. NoWrap /\ dropped' + oom' = dropped + oom + 1
    BY <1>0, <2>1, <2>2 DEF NoWrap
  <2> QED
    BY <1>0, <2>1, <2>3, <2>4, OldestLost DEF Strands
<1>9. CASE Observe
  <2>1. edgecore_next_event /\ bufs' = bufs /\ minted' = minted /\ oom' = oom
        /\ ~IsNeed(events[head])
    BY <1>9 DEF Observe, buffers, IsNeed
  <2>2. Queue[1] = events[head] /\ dropped' = dropped
    BY <1>0, <2>1, TakeShifts
  <2>3. \A i \in 1 .. cnt : IsNeed(Queue[i]) => \E j \in 1 .. cnt' : Queue'[j] = Queue[i]
    BY <1>0, <2>1, <2>2, TakeKeeps
  <2>4. NoWrap /\ dropped' + oom' >= dropped + oom
    BY <1>0, <2>1, <2>2 DEF NoWrap
  <2> QED
    BY <2>1, <2>3, <2>4, NothingLost DEF Strands
<1>10. CASE UNCHANGED vars
  <2>1. bufs' = bufs /\ cnt' = cnt /\ Queue' = Queue /\ dropped' = dropped /\ oom' = oom /\ NoWrap
    BY <1>10 DEF vars, ring, buffers, host, Queue, NoWrap
  <2>2. Unserved' \subseteq Unserved
    BY <2>1, NothingLost
  <2> QED
    BY <1>0, <2>1, <2>2 DEF Strands
<1> QED
  BY <1>1, <1>2, <1>3, <1>5, <1>6, <1>7, <1>8, <1>9, <1>10 DEF Next

\* A slot is stranded only by a dropped event or a failed allocation, and each
\* strands at most one, whatever the sizes of the ring and the table.
THEOREM LossIsBounded == Spec => []LostNeedsBounded
<1> DEFINE LostInv == CoreInv /\ LostNeedsBounded
<1>1. Init => LostInv
  <2> SUFFICES ASSUME Init PROVE LostNeedsBounded
    BY CoreInvInit
  <2>1. Unserved = {}
    BY DEF Init, Unserved, FreeSlot
  <2>2. dropped + oom = 0
    BY DEF Init
  <2> QED
    BY <2>1, <2>2, FS_EmptySet DEF LostNeedsBounded
<1>2. LostInv /\ [Next]_vars => LostInv'
  <2> SUFFICES ASSUME LostInv, [Next]_vars, NoWrap'
               PROVE  Cardinality(Unserved') <= dropped' + oom'
    BY CoreInvNext DEF LostNeedsBounded
  <2>1. CoreInv' /\ CoreInv
    BY CoreInvNext
  <2>2. NoWrap /\ Strands
    BY <2>1, NextStrands
  <2>3. Cardinality(Unserved) <= dropped + oom /\ dropped + oom \in Nat /\ dropped' + oom' \in Nat
    <3>1. dropped \in Nat /\ oom \in Nat /\ dropped' \in Nat /\ oom' \in Nat
      BY <2>1 DEF CoreInv, IInv, TypeOK, RingTypeOK, HostTypeOK
    <3>2. Cardinality(Unserved) <= dropped + oom
      BY <2>2, Zenon DEF LostNeedsBounded
    <3>3. \A a, b \in Nat : a + b \in Nat
      OBVIOUS
    <3>4. dropped + oom \in Nat /\ dropped' + oom' \in Nat
      BY <3>1, <3>3, Zenon
    <3> QED
      BY <3>2, <3>4
  <2>4. Unserved \subseteq Slots /\ Unserved' \subseteq Slots
    BY DEF Unserved
  <2>5. Cardinality(Unserved') \in Nat
    BY <2>4, SlotsFinite
  <2>6. CASE Unserved' \subseteq Unserved /\ dropped' + oom' >= dropped + oom
    <3>1. Cardinality(Unserved') <= dropped + oom
      BY <2>3, <2>4, <2>6, NoMore
    <3> QED
      BY <2>3, <2>5, <2>6, <3>1
  <2>7. CASE /\ \E t : Unserved' \subseteq Unserved \cup {t}
             /\ dropped' + oom' = dropped + oom + 1
    BY <2>3, <2>4, <2>7, OneMore
  <2> QED
    BY <2>2, <2>6, <2>7 DEF Strands
<1>3. LostInv => LostNeedsBounded
  OBVIOUS
<1> QED
  BY <1>1, <1>2, <1>3, PTL DEF Spec

\* As long as nothing was dropped and no allocation failed, every pending slot
\* has its event in the ring: the promise of edgecore_request_alloc's comment,
\* that the host is not left with a stuck pending, is kept wherever the ring
\* has not overflowed.
THEOREM NothingStranded == Spec => [](NoWrap /\ dropped = 0 /\ oom = 0 => Unserved = {})
<1>1. LostNeedsBounded /\ TypeOK => (NoWrap /\ dropped = 0 /\ oom = 0 => Unserved = {})
  <2> SUFFICES ASSUME LostNeedsBounded, NoWrap, dropped = 0, oom = 0 PROVE Unserved = {}
    OBVIOUS
  <2>1. Cardinality(Unserved) <= 0
    BY DEF LostNeedsBounded
  <2>2. Unserved \subseteq Slots
    BY DEF Unserved
  <2>3. IsFiniteSet(Unserved) /\ Cardinality(Unserved) \in Nat
    BY <2>2, SlotsFinite
  <2>4. Cardinality(Unserved) = 0
    BY <2>1, <2>3
  <2> QED
    BY <2>3, <2>4, FS_EmptySet
<1> QED
  BY <1>1, LossIsBounded, TypeCorrect, PTL

-------------------------------------------------------------------------------
(* The host serves the slots in the order of their requests *)

\* Slot s waits for the i-th oldest event of the ring.
Waits(s, i) ==
  i \in 1 .. cnt /\ bufs[s].state = "PENDING" /\ IsNeed(Queue[i]) /\ Queue[i].id = bufs[s].id

\* What a step that loses nothing does to a slot that waits: it serves it or the
\* slot is given up; otherwise the slot keeps its place, unless the host took an
\* event, which brings it one place nearer.
Nearer ==
  \A s \in Slots, i \in 1 .. QSize : Waits(s, i) =>
    \/ bufs'[s].state # "PENDING"
    \/ Waits(s, i)' /\ ~Drain
    \/ i > 1 /\ Waits(s, i - 1)' /\ Drain

LEMMA WaitsNext ==
  ASSUME NEW s, NEW i
  PROVE  Waits(s, i)' <=> /\ i \in 1 .. cnt' /\ bufs'[s].state = "PENDING"
                          /\ IsNeed(Queue'[i]) /\ Queue'[i].id = bufs'[s].id
  BY DEF Waits, IsNeed

\* A draining step takes an event.
LEMMA DrainTakes ==
  ASSUME TypeOK, Drain
  PROVE  edgecore_next_event /\ cnt' # cnt /\ cnt' # cnt + 1
<1>1. edgecore_next_event
  BY DEF Drain, ServeAlloc, ServeRealloc, Observe
<1>2. cnt' = cnt - 1 /\ cnt \in Int
  BY <1>1, CoreAssumption DEF edgecore_next_event, TypeOK, RingTypeOK
<1> QED
  BY <1>1, <1>2

\* A call that queues an event without loss and disturbs no pending slot.
LEMMA EmitNearer ==
  ASSUME CoreInv, NEW ev \in Event, emit_event(ev), dropped' = dropped,
         \A s \in Slots : bufs[s].state = "PENDING" => bufs'[s] = bufs[s]
  PROVE  Nearer
<1>0. TypeOK /\ RingTypeOK /\ RingShape /\ dropped \in Nat /\ cnt \in Nat
  BY DEF CoreInv, IInv, TypeOK, RingTypeOK
<1>1. ~Full
  <2> SUFFICES ASSUME Full PROVE FALSE
    OBVIOUS
  <2>1. dropped' = dropped + 1
    BY <1>0, EmitOverruns
  <2> QED
    BY <1>0, <2>1
<1>2. cnt' = cnt + 1 /\ \A i \in 1 .. cnt : Queue'[i] = Queue[i]
  BY <1>0, <1>1, EmitAppends
<1>3. ~Drain
  BY <1>0, <1>2, DrainTakes
<1> SUFFICES ASSUME NEW s \in Slots, NEW i \in 1 .. QSize, Waits(s, i) PROVE Waits(s, i)'
  BY <1>3 DEF Nearer
<1>4. i \in 1 .. cnt /\ bufs[s].state = "PENDING" /\ IsNeed(Queue[i]) /\ Queue[i].id = bufs[s].id
  BY DEF Waits
<1>5. bufs'[s] = bufs[s] /\ Queue'[i] = Queue[i] /\ i \in 1 .. cnt'
  BY <1>0, <1>2, <1>4
<1> QED
  BY <1>4, <1>5, WaitsNext

LEMMA NextNearer ==
  ASSUME CoreInv, [Next]_vars, NoWrap, dropped' = dropped, oom' = oom
  PROVE  Nearer
<1>0. /\ TypeOK /\ RingTypeOK /\ RingShape /\ UniqueIds /\ cnt \in Nat /\ oom \in Nat
      /\ BuffersTypeOK
  BY DEF CoreInv, IInv, TypeOK, RingTypeOK, HostTypeOK
<1>1. ASSUME NEW n \in Sizes, edgecore_request_alloc(n) PROVE Nearer
  <2> DEFINE f == Lowest(FreeSlots)
  <2>1. emit_event(NeedAlloc(mint_alloc_id, n)) /\ FreeSlots # {}
        /\ bufs' = IF Full THEN bufs ELSE [bufs EXCEPT ![f] = PendingSlot(mint_alloc_id, n)]
    BY <1>1 DEF edgecore_request_alloc
  <2>2. NeedAlloc(mint_alloc_id, n) \in Event
    BY <1>0, MintIsId, EventsTyped DEF BuffersTypeOK
  <2>3. FreeSlots \subseteq Slots /\ f \in FreeSlots
    <3>1. FreeSlots \subseteq Slots
      BY DEF FreeSlots
    <3> QED
      BY <2>1, <3>1, LowestIsMember
  <2>4. f \in Slots /\ bufs[f].state = "FREE"
    BY <2>3 DEF FreeSlots
  <2> HIDE DEF f
  <2>5. \A s \in Slots : bufs[s].state = "PENDING" => bufs'[s] = bufs[s]
    BY <1>0, <2>1, <2>4 DEF BuffersTypeOK
  <2> QED
    BY <2>1, <2>2, <2>5, EmitNearer
<1>2. ASSUME NEW id \in 1 .. IdMod - 1, NEW n \in Sizes, edgecore_request_realloc(id, n)
      PROVE  Nearer
  <2> DEFINE u == Lowest(SlotsOf(id))
  <2>1. u \in Slots /\ bufs[u].state = "READY"
    BY <1>2, SlotOfId DEF edgecore_request_realloc
  <2>2. NeedRealloc(id, n, bufs[u].ptr) \in Event /\ emit_event(NeedRealloc(id, n, bufs[u].ptr))
    BY <1>0, <1>2, <2>1, SlotFields, EventsTyped DEF edgecore_request_realloc
  <2>3. bufs' = IF Full THEN [bufs EXCEPT ![u].requested = bufs[u].size]
                ELSE [bufs EXCEPT ![u].state = "PENDING", ![u].requested = n]
    BY <1>2 DEF edgecore_request_realloc
  <2> HIDE DEF u
  <2>4. \A s \in Slots : bufs[s].state = "PENDING" => bufs'[s] = bufs[s]
    BY <1>0, <2>1, <2>3 DEF BuffersTypeOK
  <2> QED
    BY <2>2, <2>4, EmitNearer
<1>3. ASSUME NEW id \in 1 .. IdMod - 1, edgecore_detach_buffer(id) PROVE Nearer
  <2>1. cnt' = cnt /\ Queue' = Queue
    BY <1>3 DEF edgecore_detach_buffer, ring, Queue
  <2>2. Lowest(SlotsOf(id)) \in Slots
        /\ bufs' = [bufs EXCEPT ![Lowest(SlotsOf(id))] = FreeSlot]
    BY <1>3, SlotOfId DEF edgecore_detach_buffer
  <2>3. \A s \in Slots : bufs'[s].state # "PENDING" \/ bufs'[s] = bufs[s]
    BY <1>0, <2>2 DEF BuffersTypeOK, FreeSlot
  <2>4. ~Drain
    BY <1>0, <2>1, DrainTakes
  <2>5. ASSUME NEW s \in Slots, NEW i \in 1 .. QSize, Waits(s, i)
        PROVE  bufs'[s].state # "PENDING" \/ Waits(s, i)'
    BY <2>1, <2>3, <2>5, WaitsNext DEF Waits
  <2> QED
    BY <2>4, <2>5 DEF Nearer
<1>4. ASSUME NEW c \in Configs, edgecore_apply_config(c) PROVE Nearer
  <2>1. generation + 1 \in Nat
    BY <1>0 DEF TypeOK, ConfigTypeOK
  <2> QED
    BY <1>4, <2>1, EventsTyped, EmitNearer DEF edgecore_apply_config, buffers
<1>5. CASE edgecore_notify_config_rejected
  BY <1>5, EventsTyped, EmitNearer DEF edgecore_notify_config_rejected, buffers
<1>6. CASE ServeAlloc \/ ServeRealloc
  <2> DEFINE ev == events[head]
  <2>1. edgecore_next_event /\ IsNeed(ev) /\ Drain
    BY <1>6, ServeStep DEF Drain
  <2>2. PICK p \in Blocks : bufs' = edgecore_provide_buffer(ev.id, p, ev.size)
    BY <1>6, ServeStep
  <2>5. /\ Queue[1] = ev /\ cnt' = cnt - 1
        /\ \A i \in 1 .. cnt - 1 : Queue'[i] = Queue[i + 1]
    BY <1>0, <2>1, TakeShifts
  <2> SUFFICES ASSUME NEW s \in Slots, NEW i \in 1 .. QSize, Waits(s, i),
                      bufs'[s].state = "PENDING"
               PROVE  i > 1 /\ Waits(s, i - 1)'
    BY <2>1 DEF Nearer
  <2>4. bufs'[s] = bufs[s] /\ bufs[s].id # ev.id
    BY <2>1, <2>2, StillWaits
  <2> HIDE DEF ev
  <2>7. i \in 1 .. cnt /\ bufs[s].state = "PENDING" /\ IsNeed(Queue[i]) /\ Queue[i].id = bufs[s].id
    BY DEF Waits
  <2>8. i # 1
    BY <2>4, <2>5, <2>7
  <2>9. i - 1 \in 1 .. cnt - 1 /\ (i - 1) + 1 = i /\ i > 1
    BY <1>0, <2>7, <2>8
  <2>10. Queue'[i - 1] = Queue[(i - 1) + 1]
    BY <2>5, <2>9
  <2>11. Queue'[i - 1] = Queue[i] /\ bufs'[s] = bufs[s] /\ i - 1 \in 1 .. cnt'
    BY <2>4, <2>5, <2>9, <2>10
  <2> QED
    BY <2>7, <2>9, <2>11, WaitsNext
<1>7. ServeFails => FALSE
  BY <1>0 DEF ServeFails
<1>8. CASE Observe
  <2>1. edgecore_next_event /\ bufs' = bufs /\ ~IsNeed(events[head]) /\ Drain
    BY <1>8 DEF Observe, buffers, IsNeed, Drain
  <2>2. /\ Queue[1] = events[head] /\ cnt' = cnt - 1
        /\ \A i \in 1 .. cnt - 1 : Queue'[i] = Queue[i + 1]
    BY <1>0, <2>1, TakeShifts
  <2> SUFFICES ASSUME NEW s \in Slots, NEW i \in 1 .. QSize, Waits(s, i)
               PROVE  i > 1 /\ Waits(s, i - 1)'
    BY <2>1 DEF Nearer
  <2>3. i \in 1 .. cnt /\ bufs[s].state = "PENDING" /\ IsNeed(Queue[i]) /\ Queue[i].id = bufs[s].id
    BY DEF Waits
  <2>4. i # 1
    BY <2>1, <2>2, <2>3
  <2>5. i - 1 \in 1 .. cnt - 1 /\ (i - 1) + 1 = i /\ i > 1
    BY <1>0, <2>3, <2>4
  <2>6. Queue'[i - 1] = Queue[(i - 1) + 1]
    BY <2>2, <2>5
  <2>7. Queue'[i - 1] = Queue[i] /\ bufs'[s] = bufs[s] /\ i - 1 \in 1 .. cnt'
    BY <2>1, <2>2, <2>5, <2>6
  <2> QED
    BY <2>3, <2>5, <2>7, WaitsNext
<1>9. CASE UNCHANGED vars
  <2>1. bufs' = bufs /\ cnt' = cnt /\ Queue' = Queue
    BY <1>9 DEF vars, ring, buffers, Queue
  <2>2. ~Drain
    BY <1>0, <2>1, DrainTakes
  <2>3. ASSUME NEW s \in Slots, NEW i \in 1 .. QSize, Waits(s, i) PROVE Waits(s, i)'
    BY <2>1, <2>3, WaitsNext DEF Waits
  <2> QED
    BY <2>2, <2>3 DEF Nearer
<1> QED
  BY <1>1, <1>2, <1>3, <1>4, <1>5, <1>6, <1>7, <1>8, <1>9 DEF Next

\* Nobody overtakes a waiting slot: each event the host takes brings every slot
\* that waits one place nearer to its turn, the one at the head is served, and
\* no other call moves a slot back.  With NothingStranded this is what
\* PendingServed needs besides a host that goes on draining.
THEOREM FirstComeFirstServed ==
  Spec => [][NoWrap /\ dropped' = dropped /\ oom' = oom => Nearer]_vars
<1>1. CoreInv /\ [Next]_vars => [NoWrap /\ dropped' = dropped /\ oom' = oom => Nearer]_vars
  BY NextNearer
<1> QED
  BY <1>1, CoreInvInit, CoreInvNext, PTL DEF Spec

-------------------------------------------------------------------------------
(* Every applied configuration is announced *)

IsApplied(ev) == ev.type = "CONFIG_APPLIED"

\* What makes ConfigAnnounced inductive: the host is never ahead of the core.
SeenInv == dropped = 0 => seen <= generation

ConfigInv == RingInv /\ SeenInv /\ ConfigAnnounced

\* ConfigAnnounced, one event at a time.
AnnouncedOnce ==
  /\ \A i \in 1 .. cnt : IsApplied(Queue[i]) => Queue[i].gen \in seen + 1 .. generation
  /\ \A g \in seen + 1 .. generation : \E i \in 1 .. cnt : IsApplied(Queue[i]) /\ Queue[i].gen = g
  /\ \A i, j \in 1 .. cnt :
       IsApplied(Queue[i]) /\ IsApplied(Queue[j]) /\ i < j => Queue[i].gen < Queue[j].gen

LEMMA AnnouncedNow == ConfigAnnounced <=> (dropped = 0 => AnnouncedOnce)
  BY DEF ConfigAnnounced, Announced, AnnouncedOnce, IsApplied

LEMMA AnnouncedNext == ConfigAnnounced' <=> (dropped' = 0 => AnnouncedOnce')
  BY DEF ConfigAnnounced, Announced, AnnouncedOnce, IsApplied

\* The kinds of events, again: only edgecore_apply_config queues a CONFIG_APPLIED.
LEMMA AppliedKinds ==
  /\ ~IsApplied(QueueOverflow) /\ ~IsApplied(ConfigRejected)
  /\ \A g : IsApplied(ConfigApplied(g)) /\ ConfigApplied(g).gen = g
  /\ \A id, n : ~IsApplied(NeedAlloc(id, n))
  /\ \A id, n, q : ~IsApplied(NeedRealloc(id, n, q))
  BY DEF IsApplied, QueueOverflow, ConfigRejected, NoEvent, ConfigApplied, NeedAlloc, NeedRealloc

\* A call that emits some other event announces nothing new.
LEMMA EmitOther ==
  ASSUME ConfigInv, NEW ev \in Event, emit_event(ev), ~IsApplied(ev),
         UNCHANGED <<generation, seen>>
  PROVE  SeenInv' /\ ConfigAnnounced'
<1>0. RingTypeOK /\ RingShape /\ dropped \in Nat /\ cnt \in Nat
  BY DEF ConfigInv, RingInv, TypeOK, RingTypeOK
<1>1. CASE Full
  <2>1. dropped' = dropped + 1
    BY <1>0, <1>1, EmitOverruns
  <2>2. dropped' # 0
    BY <1>0, <2>1
  <2> QED
    BY <2>2, AnnouncedNext DEF SeenInv
<1>2. CASE ~Full
  <2>1. cnt' = cnt + 1 /\ Queue'[cnt + 1] = ev /\ dropped' = dropped
        /\ \A i \in 1 .. cnt : Queue'[i] = Queue[i]
    BY <1>0, <1>2, EmitAppends
  <2>2. \A i \in 1 .. cnt' : IsApplied(Queue'[i]) => i \in 1 .. cnt
    BY <1>0, <2>1
  <2>3. \A i \in 1 .. cnt : i \in 1 .. cnt'
    BY <1>0, <2>1
  <2>4. dropped = 0 => AnnouncedOnce
    BY AnnouncedNow DEF ConfigInv
  <2>5. AnnouncedOnce => AnnouncedOnce'
    BY <2>1, <2>2, <2>3 DEF AnnouncedOnce, IsApplied
  <2> QED
    BY <2>1, <2>4, <2>5, AnnouncedNext DEF ConfigInv, SeenInv
<1> QED
  BY <1>1, <1>2

\* edgecore_apply_config announces the generation it has just made.
LEMMA EmitApplied ==
  ASSUME ConfigInv, emit_event(ConfigApplied(generation + 1)),
         generation' = generation + 1, seen' = seen
  PROVE  SeenInv' /\ ConfigAnnounced'
<1>0. RingTypeOK /\ RingShape /\ dropped \in Nat /\ cnt \in Nat /\ seen \in Nat
      /\ generation \in Nat
  BY DEF ConfigInv, RingInv, TypeOK, RingTypeOK, HostTypeOK, ConfigTypeOK
<1> DEFINE ev == ConfigApplied(generation + 1)
<1>1. ev \in Event /\ IsApplied(ev) /\ ev.gen = generation + 1 /\ emit_event(ev)
  <2>1. generation + 1 \in Nat
    BY <1>0
  <2> QED
    BY <2>1, EventsTyped, AppliedKinds
<1> HIDE DEF ev
<1>2. CASE Full
  <2>1. dropped' = dropped + 1
    BY <1>0, <1>1, <1>2, EmitOverruns
  <2>2. dropped' # 0
    BY <1>0, <2>1
  <2> QED
    BY <2>2, AnnouncedNext DEF SeenInv
<1>3. CASE ~Full
  <2>1. cnt' = cnt + 1 /\ Queue'[cnt + 1] = ev /\ dropped' = dropped
        /\ \A i \in 1 .. cnt : Queue'[i] = Queue[i]
    BY <1>0, <1>1, <1>3, EmitAppends
  <2>2. \A i \in 1 .. cnt' : i \in 1 .. cnt \/ i = cnt + 1
    BY <1>0, <2>1
  <2>3. cnt + 1 \in 1 .. cnt' /\ \A i \in 1 .. cnt : i \in 1 .. cnt' /\ i < cnt + 1
    BY <1>0, <2>1
  <2> SUFFICES ASSUME dropped = 0 PROVE SeenInv' /\ AnnouncedOnce'
    BY <2>1, AnnouncedNext DEF SeenInv
  <2>4. AnnouncedOnce /\ seen <= generation
    BY AnnouncedNow DEF ConfigInv, SeenInv
  <2>5. SeenInv'
    BY <1>0, <2>4 DEF SeenInv
  <2>6. ASSUME NEW i \in 1 .. cnt', IsApplied(Queue'[i])
        PROVE  Queue'[i].gen \in seen' + 1 .. generation'
    <3>1. CASE i \in 1 .. cnt
      <4>1. Queue'[i].gen \in seen + 1 .. generation
        BY <2>1, <2>4, <2>6, <3>1 DEF AnnouncedOnce
      <4> QED
        BY <1>0, <4>1
    <3>2. CASE i = cnt + 1
      BY <1>0, <1>1, <2>1, <2>4, <3>2
    <3> QED
      BY <2>2, <3>1, <3>2
  <2>7. ASSUME NEW g \in seen' + 1 .. generation'
        PROVE  \E i \in 1 .. cnt' : IsApplied(Queue'[i]) /\ Queue'[i].gen = g
    <3>1. CASE g = generation + 1
      BY <1>1, <2>1, <2>3, <3>1
    <3>2. CASE g # generation + 1
      <4>1. g \in seen + 1 .. generation
        BY <1>0, <3>2
      <4>2. PICK i \in 1 .. cnt : IsApplied(Queue[i]) /\ Queue[i].gen = g
        BY <2>4, <4>1 DEF AnnouncedOnce
      <4> QED
        BY <2>1, <2>3, <4>2
    <3> QED
      BY <3>1, <3>2
  <2>8. ASSUME NEW i \in 1 .. cnt', NEW j \in 1 .. cnt', IsApplied(Queue'[i]),
               IsApplied(Queue'[j]), i < j
        PROVE  Queue'[i].gen < Queue'[j].gen
    <3>0. i \in 1 .. cnt
      BY <1>0, <2>1, <2>8
    <3>1. CASE j \in 1 .. cnt
      BY <2>1, <2>4, <2>8, <3>0, <3>1 DEF AnnouncedOnce
    <3>2. CASE j = cnt + 1
      <4>1. Queue'[i].gen \in seen + 1 .. generation
        BY <2>1, <2>4, <2>8, <3>0 DEF AnnouncedOnce
      <4> QED
        BY <1>0, <1>1, <2>1, <3>2, <4>1
    <3> QED
      BY <2>2, <3>1, <3>2
  <2> QED
    BY <2>5, <2>6, <2>7, <2>8 DEF AnnouncedOnce, IsApplied
<1> QED
  BY <1>2, <1>3

\* The host takes an event; a CONFIG_APPLIED is the next generation it sees.
LEMMA TakeAnnounced ==
  ASSUME ConfigInv, edgecore_next_event, generation' = generation,
         seen' = IF IsApplied(events[head]) THEN events[head].gen ELSE seen
  PROVE  SeenInv' /\ ConfigAnnounced'
<1>0. RingTypeOK /\ RingShape /\ dropped \in Nat /\ cnt \in Nat /\ seen \in Nat
      /\ generation \in Nat
  BY DEF ConfigInv, RingInv, TypeOK, RingTypeOK, HostTypeOK, ConfigTypeOK
<1>1. cnt' = cnt - 1 /\ cnt \in 1 .. QSize /\ dropped' = dropped /\ Queue[1] = events[head]
      /\ \A i \in 1 .. cnt - 1 : Queue'[i] = Queue[i + 1]
  BY <1>0, TakeShifts
<1>2. 1 \in 1 .. cnt
      /\ \A i \in 1 .. cnt' : i + 1 \in 1 .. cnt /\ Queue'[i] = Queue[i + 1] /\ 1 < i + 1
  BY <1>1, CoreAssumption
<1>3. \A i \in 1 .. cnt : i = 1 \/ (i - 1 \in 1 .. cnt' /\ Queue'[i - 1] = Queue[i])
  <2> TAKE i \in 1 .. cnt
  <2> SUFFICES ASSUME i # 1 PROVE i - 1 \in 1 .. cnt' /\ Queue'[i - 1] = Queue[i]
    OBVIOUS
  <2>1. i - 1 \in 1 .. cnt' /\ (i - 1) + 1 = i
    BY <1>0, <1>1
  <2>2. Queue'[i - 1] = Queue[(i - 1) + 1]
    BY <1>2, <2>1
  <2> QED
    BY <2>1, <2>2
<1> SUFFICES ASSUME dropped = 0 PROVE SeenInv' /\ AnnouncedOnce'
  BY <1>1, AnnouncedNext DEF SeenInv
<1>4. AnnouncedOnce /\ seen <= generation
  BY AnnouncedNow DEF ConfigInv, SeenInv
<1>5. ASSUME NEW i \in 1 .. cnt', NEW j \in 1 .. cnt', IsApplied(Queue'[i]),
             IsApplied(Queue'[j]), i < j
      PROVE  Queue'[i].gen < Queue'[j].gen
  <2>1. i + 1 < j + 1
    BY <1>0, <1>1, <1>5
  <2> QED
    BY <1>2, <1>4, <1>5, <2>1 DEF AnnouncedOnce
<1>6. CASE ~IsApplied(events[head])
  <2>1. seen' = seen
    BY <1>6
  <2>2. \A i \in 1 .. cnt' : IsApplied(Queue'[i]) => Queue'[i].gen \in seen' + 1 .. generation'
    BY <1>2, <1>4, <2>1 DEF AnnouncedOnce
  <2>3. ASSUME NEW g \in seen' + 1 .. generation'
        PROVE  \E i \in 1 .. cnt' : IsApplied(Queue'[i]) /\ Queue'[i].gen = g
    <3>1. PICK i \in 1 .. cnt : IsApplied(Queue[i]) /\ Queue[i].gen = g
      BY <1>4, <2>1 DEF AnnouncedOnce
    <3>2. i # 1
      BY <1>1, <1>6, <3>1
    <3> QED
      BY <1>3, <3>1, <3>2
  <2>4. SeenInv'
    BY <1>4, <2>1 DEF SeenInv
  <2> QED
    BY <1>5, <2>2, <2>3, <2>4 DEF AnnouncedOnce, IsApplied
<1>7. CASE IsApplied(events[head])
  <2>1. seen' = Queue[1].gen /\ IsApplied(Queue[1])
    BY <1>1, <1>7
  <2>2. Queue[1].gen \in seen + 1 .. generation
    BY <1>2, <1>4, <2>1 DEF AnnouncedOnce
  <2>3. ASSUME NEW i \in 1 .. cnt', IsApplied(Queue'[i])
        PROVE  Queue[1].gen < Queue'[i].gen /\ Queue'[i].gen \in seen + 1 .. generation
    BY <1>2, <1>4, <2>1, <2>3 DEF AnnouncedOnce
\* The oldest announcement is of the generation after the last one seen.
  <2>4. seen' = seen + 1
    <3>1. seen + 1 \in seen + 1 .. generation
      BY <1>0, <2>2
    <3>2. PICK k \in 1 .. cnt : IsApplied(Queue[k]) /\ Queue[k].gen = seen + 1
      BY <1>4, <3>1 DEF AnnouncedOnce
    <3>3. k = 1
      <4> SUFFICES ASSUME k # 1 PROVE FALSE
        OBVIOUS
      <4>1. k - 1 \in 1 .. cnt' /\ Queue'[k - 1] = Queue[k]
        BY <1>3
      <4>2. Queue[1].gen < seen + 1
        BY <2>3, <3>2, <4>1
      <4> QED
        BY <1>0, <2>2, <4>2
    <3> QED
      BY <2>1, <3>2, <3>3
  <2>5. ASSUME NEW i \in 1 .. cnt', IsApplied(Queue'[i])
        PROVE  Queue'[i].gen \in seen' + 1 .. generation'
    <3>1. Queue[1].gen < Queue'[i].gen /\ Queue'[i].gen \in seen + 1 .. generation
      BY <2>3, <2>5
    <3> QED
      BY <1>0, <2>1, <2>4, <3>1
  <2>6. ASSUME NEW g \in seen' + 1 .. generation'
        PROVE  \E i \in 1 .. cnt' : IsApplied(Queue'[i]) /\ Queue'[i].gen = g
    <3>1. g \in seen + 1 .. generation /\ g # seen'
      BY <1>0, <2>4
    <3>2. PICK i \in 1 .. cnt : IsApplied(Queue[i]) /\ Queue[i].gen = g
      BY <1>4, <3>1 DEF AnnouncedOnce
    <3>3. i # 1
      BY <2>1, <3>1, <3>2
    <3> QED
      BY <1>3, <3>2, <3>3
  <2>7. SeenInv'
    BY <1>0, <2>1, <2>2 DEF SeenInv
  <2> QED
    BY <1>5, <2>5, <2>6, <2>7 DEF AnnouncedOnce, IsApplied
<1> QED
  BY <1>6, <1>7

LEMMA ConfigInvNext == ConfigInv /\ [Next]_vars => ConfigInv'
<1> SUFFICES ASSUME ConfigInv, [Next]_vars PROVE SeenInv' /\ ConfigAnnounced'
  BY RingInvNext DEF ConfigInv
<1>0. TypeOK /\ BuffersTypeOK
  BY DEF ConfigInv, RingInv, TypeOK
<1>1. ASSUME NEW n \in Sizes, edgecore_request_alloc(n) PROVE SeenInv' /\ ConfigAnnounced'
  <2>1. NeedAlloc(mint_alloc_id, n) \in Event /\ emit_event(NeedAlloc(mint_alloc_id, n))
        /\ UNCHANGED <<generation, seen>>
    BY <1>0, <1>1, MintIsId, EventsTyped DEF edgecore_request_alloc, BuffersTypeOK, config, host
  <2> QED
    BY <2>1, AppliedKinds, EmitOther
<1>2. ASSUME NEW id \in 1 .. IdMod - 1, NEW n \in Sizes, edgecore_request_realloc(id, n)
      PROVE  SeenInv' /\ ConfigAnnounced'
  <2> DEFINE ev == NeedRealloc(id, n, bufs[Lowest(SlotsOf(id))].ptr)
  <2>1. Lowest(SlotsOf(id)) \in Slots
    BY <1>2, SlotOfId DEF edgecore_request_realloc
  <2>2. ev \in Event /\ emit_event(ev) /\ UNCHANGED <<generation, seen>>
    BY <1>0, <1>2, <2>1, SlotFields, EventsTyped DEF edgecore_request_realloc, config, host
  <2>3. ~IsApplied(ev)
    BY AppliedKinds
  <2> QED
    BY <2>2, <2>3, EmitOther
<1>3. ASSUME NEW c \in Configs, edgecore_apply_config(c) PROVE SeenInv' /\ ConfigAnnounced'
  <2>1. CASE emit_event(ConfigRejected) /\ generation' = generation
    BY <1>3, <2>1, EventsTyped, AppliedKinds, EmitOther DEF edgecore_apply_config, host
  <2>2. CASE emit_event(ConfigApplied(generation + 1)) /\ generation' = generation + 1
    BY <1>3, <2>2, EmitApplied DEF edgecore_apply_config, host
  <2> QED
    BY <1>3, <2>1, <2>2 DEF edgecore_apply_config
<1>4. CASE edgecore_notify_config_rejected
  BY <1>4, EventsTyped, AppliedKinds, EmitOther DEF edgecore_notify_config_rejected, host
<1>5. CASE ServeAlloc \/ ServeRealloc \/ ServeFails
  <2>1. edgecore_next_event /\ UNCHANGED <<generation, seen>> /\ ~IsApplied(events[head])
    BY <1>5 DEF ServeAlloc, ServeRealloc, ServeFails, config, IsApplied
  <2> QED
    BY <2>1, TakeAnnounced
<1>6. CASE Observe
  BY <1>6, TakeAnnounced DEF Observe, config, IsApplied
<1>7. CASE UNCHANGED <<ring, config, seen>>
  BY <1>7 DEF ring, config, ConfigInv, SeenInv, ConfigAnnounced, Announced, Queue
<1>8. ASSUME NEW id \in 1 .. IdMod - 1, edgecore_detach_buffer(id)
      PROVE  UNCHANGED <<ring, config, seen>>
  BY <1>8 DEF edgecore_detach_buffer
<1>9. UNCHANGED vars => UNCHANGED <<ring, config, seen>>
  BY DEF vars, host
<1> QED
  BY <1>1, <1>2, <1>3, <1>4, <1>5, <1>6, <1>7, <1>8, <1>9 DEF Next

\* As long as no event was dropped the host hears of every applied configuration,
\* once and in order, whatever else is queued in between.
THEOREM ConfigIsAnnounced == Spec => []ConfigAnnounced
<1>1. Init => ConfigInv
  <2> SUFFICES ASSUME Init PROVE SeenInv /\ AnnouncedOnce
    BY RingInvInit, AnnouncedNow DEF ConfigInv
  <2>1. seen = 0 /\ generation = 0 /\ cnt = 0
    BY DEF Init
  <2> QED
    BY <2>1 DEF SeenInv, AnnouncedOnce
<1>2. ConfigInv => ConfigAnnounced
  BY DEF ConfigInv
<1> QED
  BY <1>1, <1>2, ConfigInvNext, PTL DEF Spec
===============================================================================
