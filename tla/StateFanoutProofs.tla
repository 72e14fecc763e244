--------------------------- MODULE StateFanoutProofs ---------------------------
(***************************************************************************)
(* Theorems about StateFanout for every set of namespaces, keys, values    *)
(* and connections, every table capacity and every queue length.           *)
(***************************************************************************)
EXTENDS StateFanout, FiniteSetTheorems, SequenceTheorems, WellFoundedInduction, TLAPS

Entry == [used : BOOLEAN, key : Keys \cup {Absent}, value : Values \cup {Absent}]
UsedSlots(n) == {e \in EntrySlots : entries[n][e].used}

\* The store's half of the inductive invariant: the types, and the slot table is
\* sound; a used entry holds a real key and a stored value.
StoreTyped ==
  /\ entries \in [NS -> [EntrySlots -> Entry]]
  /\ count \in [NS -> 0 .. MaxKeys]
  /\ enabled \in [NS -> BOOLEAN]
CountsUsed == \A n \in NS : count[n] = Cardinality(UsedSlots(n))
KeyOnce ==
  \A n \in NS : \A e, f \in EntrySlots :
    entries[n][e].used /\ entries[n][f].used /\ entries[n][e].key = entries[n][f].key
      => e = f
Stored ==
  \A n \in NS, e \in EntrySlots :
    entries[n][e].used => entries[n][e].key \in Keys /\ entries[n][e].value \in Values
StoreInv == StoreTyped /\ CountsUsed /\ KeyOnce /\ Stored

\* The hub's half: the types, and a slot nobody subscribes has an empty queue.
HubTyped ==
  /\ active \in [Conns -> BOOLEAN]
  /\ queue \in [Conns -> Seq(Message)]
  /\ \A c \in Conns : Len(queue[c]) <= PendingMax
  /\ copy \in [Conns -> [Address -> Values \cup {Absent}]]
  /\ lost \in [Conns -> SUBSET Address]
  /\ phantom \subseteq Address
Quiet == \A c \in Conns : ~active[c] => queue[c] = <<>>
HubInv == HubTyped /\ Quiet

-------------------------------------------------------------------------------
(* The slot table *)

\* A non-empty set of slots has a first member: the linear searches of
\* state_store.c return a slot of the set they search.
LEMMA FirstIsMember ==
  ASSUME NEW S, S \subseteq EntrySlots, S # {}
  PROVE  First(S) \in S
<1>1. S \subseteq Nat
  BY StateAssumption DEF EntrySlots
<1>2. PICK x \in S : \A y \in S : ~(<<y, x>> \in OpToRel(<, Nat))
  BY <1>1, NatLessThanWellFounded, WFMin
<1>3. OpToRel(<, Nat) = {ss \in Nat \X Nat : ss[1] < ss[2]}
  BY DEF OpToRel
<1>4. \A y \in S : x <= y
  <2> TAKE y \in S
  <2>1. ~(<<y, x>> \in {ss \in Nat \X Nat : ss[1] < ss[2]})
    BY <1>2, <1>3
  <2>2. x \in Nat /\ y \in Nat
    BY <1>1
  <2> QED
    BY <2>1, <2>2
<1> QED
  BY <1>4 DEF First

\* The used slots of a namespace are finitely many, at most MaxKeys.
LEMMA UsedFinite ==
  \A n \in NS : /\ IsFiniteSet(UsedSlots(n))
                /\ Cardinality(UsedSlots(n)) \in 0 .. MaxKeys
                /\ UsedSlots(n) # EntrySlots => Cardinality(UsedSlots(n)) < MaxKeys
<1> TAKE n \in NS
<1>1. MaxKeys \in Nat /\ 1 \in Int /\ MaxKeys \in Int /\ MaxKeys >= 1
  BY StateAssumption
<1>2. IsFiniteSet(EntrySlots) /\ Cardinality(EntrySlots) = MaxKeys
  BY <1>1, FS_Interval DEF EntrySlots
<1>3. UsedSlots(n) \in SUBSET EntrySlots
  BY DEF UsedSlots
<1>4. /\ IsFiniteSet(UsedSlots(n))
      /\ Cardinality(UsedSlots(n)) <= Cardinality(EntrySlots)
      /\ Cardinality(EntrySlots) = Cardinality(UsedSlots(n)) => EntrySlots = UsedSlots(n)
  BY <1>2, <1>3, FS_Subset
<1>5. Cardinality(UsedSlots(n)) \in Nat
  BY <1>4, FS_CardinalityType
<1> QED
  BY <1>1, <1>2, <1>4, <1>5

\* What edge_state_put does: it writes one slot, the one that holds the key if
\* there is one and a free one otherwise.
LEMMA PutSlot ==
  ASSUME NEW n \in NS, NEW k \in Keys, NEW v \in Values, put_ok(n, k),
         edge_state_put(n, k, v)
  PROVE  \E e \in EntrySlots :
           /\ entries' = [entries EXCEPT ![n][e] = [used |-> TRUE, key |-> k, value |-> v]]
           /\ enabled' = enabled
           /\ \/ /\ find_entry(n, k) # {} /\ e \in find_entry(n, k)
                 /\ count' = [count EXCEPT ![n] = @]
              \/ /\ find_entry(n, k) = {} /\ e \in find_free(n)
                 /\ count' = [count EXCEPT ![n] = @ + 1]
<1>1. CASE find_entry(n, k) # {}
  <2>1. First(find_entry(n, k)) \in find_entry(n, k) /\ find_entry(n, k) \subseteq EntrySlots
    BY <1>1, FirstIsMember DEF find_entry
  <2> QED
    BY <1>1, <2>1 DEF edge_state_put
<1>2. CASE find_entry(n, k) = {}
  <2>1. First(find_free(n)) \in find_free(n) /\ find_free(n) \subseteq EntrySlots
    BY <1>2, FirstIsMember DEF find_free, put_ok
  <2> QED
    BY <1>2, <2>1 DEF edge_state_put
<1> QED
  BY <1>1, <1>2

\* edge_state_put keeps the table sound.
LEMMA PutSound ==
  ASSUME StoreInv, NEW n \in NS, NEW k \in Keys, NEW v \in Values, put_ok(n, k),
         edge_state_put(n, k, v)
  PROVE  StoreInv'
<1> DEFINE E == [used |-> TRUE, key |-> k, value |-> v]
<1>1. PICK e \in EntrySlots :
           /\ entries' = [entries EXCEPT ![n][e] = E]
           /\ enabled' = enabled
           /\ \/ /\ find_entry(n, k) # {} /\ e \in find_entry(n, k)
                 /\ count' = [count EXCEPT ![n] = @]
              \/ /\ find_entry(n, k) = {} /\ e \in find_free(n)
                 /\ count' = [count EXCEPT ![n] = @ + 1]
  BY PutSlot
<1>2. StoreTyped /\ CountsUsed /\ KeyOnce /\ Stored
  BY DEF StoreInv
<1>3. E \in Entry /\ E.used /\ E.key = k /\ E.value = v
  BY DEF Entry
<1>4. entries' \in [NS -> [EntrySlots -> Entry]]
  BY <1>1, <1>2, <1>3 DEF StoreTyped
<1>5. /\ \A m \in NS, f \in EntrySlots : ~(m = n /\ f = e) => entries'[m][f] = entries[m][f]
      /\ entries'[n][e] = E
  BY <1>1, <1>2, <1>3 DEF StoreTyped
<1> HIDE DEF E
<1>6. /\ UsedSlots(n)' = UsedSlots(n) \cup {e}
      /\ \A m \in NS : m # n => UsedSlots(m)' = UsedSlots(m)
  BY <1>3, <1>5 DEF UsedSlots
<1>7. KeyOnce'
  <2> SUFFICES ASSUME NEW m \in NS, NEW f \in EntrySlots, NEW g \in EntrySlots,
                      entries'[m][f].used, entries'[m][g].used,
                      entries'[m][f].key = entries'[m][g].key
               PROVE  f = g
    BY DEF KeyOnce
  <2>1. \A h \in EntrySlots : h # e /\ m = n => ~(entries[m][h].used /\ entries[m][h].key = k)
    BY <1>1, <1>2 DEF KeyOnce, find_entry
  <2> QED
    BY <1>2, <1>3, <1>5, <2>1 DEF KeyOnce
<1>8. Stored'
  BY <1>2, <1>3, <1>5 DEF Stored
<1>9. /\ count' \in [NS -> 0 .. MaxKeys]
      /\ CountsUsed'
  <2>1. \A m \in NS : /\ IsFiniteSet(UsedSlots(m))
                      /\ Cardinality(UsedSlots(m)) \in 0 .. MaxKeys
    BY UsedFinite
  <2>2. CASE find_entry(n, k) # {} /\ e \in find_entry(n, k) /\ count' = [count EXCEPT ![n] = @]
    <3>1. e \in UsedSlots(n)
      BY <2>2 DEF UsedSlots, find_entry
    <3>2. \A m \in NS : UsedSlots(m)' = UsedSlots(m)
      BY <3>1, <1>6
    <3>3. count' = count
      BY <2>2, <1>2 DEF StoreTyped
    <3> QED
      BY <3>2, <3>3, <1>2 DEF CountsUsed, StoreTyped
  <2>3. CASE find_entry(n, k) = {} /\ e \in find_free(n) /\ count' = [count EXCEPT ![n] = @ + 1]
    <3>1. e \notin UsedSlots(n)
      BY <2>3 DEF UsedSlots, find_free
    <3>2. Cardinality(UsedSlots(n) \cup {e}) = Cardinality(UsedSlots(n)) + 1
      BY <3>1, <2>1, FS_AddElement
    <3>3. Cardinality(UsedSlots(n)) < MaxKeys
      BY <3>1, UsedFinite
    <3>4. count'[n] = count[n] + 1 /\ \A m \in NS : m # n => count'[m] = count[m]
      BY <2>3, <1>2 DEF StoreTyped
    <3>5. CountsUsed'
      BY <3>2, <3>4, <1>2, <1>6 DEF CountsUsed
    <3>6. count[n] \in 0 .. MaxKeys /\ count[n] < MaxKeys /\ MaxKeys \in Nat
      BY <3>3, <1>2, StateAssumption DEF CountsUsed, StoreTyped
    <3>7. count[n] + 1 \in 0 .. MaxKeys
      BY <3>6
    <3> QED
      BY <3>5, <3>7, <2>3, <1>2 DEF StoreTyped
  <2> QED
    BY <1>1, <2>2, <2>3
<1> QED
  BY <1>1, <1>2, <1>4, <1>7, <1>8, <1>9 DEF StoreInv, StoreTyped

\* What edge_state_delete does: it clears the one slot that holds the key.
LEMMA DeleteSlot ==
  ASSUME StoreInv, NEW n \in NS, NEW k \in Keys, delete_ok(n, k), edge_state_delete(n, k)
  PROVE  \E e \in find_entry(n, k) :
           /\ e \in EntrySlots
           /\ entries' = [entries EXCEPT ![n][e] = NoEntry]
           /\ count' = [count EXCEPT ![n] = @ - 1]
           /\ count[n] > 0
           /\ enabled' = enabled
<1> DEFINE e == First(find_entry(n, k))
<1>1. e \in find_entry(n, k) /\ e \in EntrySlots
  BY FirstIsMember DEF find_entry, delete_ok
<1>2. UsedSlots(n) # {}
  BY <1>1 DEF UsedSlots, find_entry
<1>3. count[n] # 0 /\ count[n] \in 0 .. MaxKeys
  BY <1>2, UsedFinite, FS_EmptySet DEF StoreInv, CountsUsed, StoreTyped
<1>4. count[n] > 0
  BY <1>3, StateAssumption
<1> QED
  BY <1>1, <1>4 DEF edge_state_delete

\* edge_state_delete keeps the table sound.
LEMMA DeleteSound ==
  ASSUME StoreInv, NEW n \in NS, NEW k \in Keys, delete_ok(n, k), edge_state_delete(n, k)
  PROVE  StoreInv'
<1>1. PICK e \in find_entry(n, k) :
           /\ e \in EntrySlots
           /\ entries' = [entries EXCEPT ![n][e] = NoEntry]
           /\ count' = [count EXCEPT ![n] = @ - 1]
           /\ count[n] > 0
           /\ enabled' = enabled
  BY DeleteSlot
<1>2. StoreTyped /\ CountsUsed /\ KeyOnce /\ Stored
  BY DEF StoreInv
<1>3. NoEntry \in Entry /\ ~NoEntry.used
  BY DEF NoEntry, Entry
<1>4. entries' \in [NS -> [EntrySlots -> Entry]]
  BY <1>1, <1>2, <1>3 DEF StoreTyped
<1>5. /\ \A m \in NS, f \in EntrySlots : ~(m = n /\ f = e) => entries'[m][f] = entries[m][f]
      /\ entries'[n][e] = NoEntry
  BY <1>1, <1>2 DEF StoreTyped
<1>6. /\ UsedSlots(n)' = UsedSlots(n) \ {e}
      /\ \A m \in NS : m # n => UsedSlots(m)' = UsedSlots(m)
      /\ e \in UsedSlots(n)
  BY <1>1, <1>3, <1>5 DEF UsedSlots, find_entry
<1>7. KeyOnce' /\ Stored'
  BY <1>2, <1>3, <1>5 DEF KeyOnce, Stored
<1>8. count' \in [NS -> 0 .. MaxKeys] /\ CountsUsed'
  <2>1. IsFiniteSet(UsedSlots(n)) /\ Cardinality(UsedSlots(n)) \in 0 .. MaxKeys
    BY UsedFinite
  <2>2. Cardinality(UsedSlots(n) \ {e}) = Cardinality(UsedSlots(n)) - 1
    BY <1>6, <2>1, FS_RemoveElement
  <2>3. count'[n] = count[n] - 1 /\ \A m \in NS : m # n => count'[m] = count[m]
    BY <1>1, <1>2 DEF StoreTyped
  <2>4. count[n] \in 0 .. MaxKeys /\ MaxKeys \in Nat
    BY <1>2, StateAssumption DEF StoreTyped
  <2>5. count[n] - 1 \in 0 .. MaxKeys
    BY <2>4, <1>1
  <2> QED
    BY <2>2, <2>3, <2>5, <1>1, <1>2, <1>6 DEF CountsUsed, StoreTyped
<1> QED
  BY <1>1, <1>2, <1>4, <1>7, <1>8 DEF StoreInv, StoreTyped

-------------------------------------------------------------------------------
(* The subscriber queues *)

\* sub_push keeps a queue of messages within its limit, with or without memory.
LEMMA PushTyped ==
  ASSUME NEW q \in Seq(Message), Len(q) <= PendingMax, NEW m \in Message
  PROVE  /\ Trimmed(q) \in Seq(Message) /\ Len(Trimmed(q)) < PendingMax
         /\ Pushed(q, m) = Append(Trimmed(q), m)
         /\ Pushed(q, m) \in Seq(Message) /\ Len(Pushed(q, m)) <= PendingMax
<1>1. PendingMax \in Nat /\ PendingMax > 0 /\ Len(q) \in Nat
  BY StateAssumption, LenProperties
<1>2. Trimmed(q) \in Seq(Message) /\ Len(Trimmed(q)) < PendingMax
  <2>1. CASE Len(q) >= PendingMax
    <3>1. q # <<>>
      BY <2>1, <1>1
    <3>2. Tail(q) \in Seq(Message) /\ Len(Tail(q)) = Len(q) - 1
      BY <3>1
    <3> QED
      BY <2>1, <3>2, <1>1 DEF Trimmed
  <2>2. CASE ~(Len(q) >= PendingMax)
    BY <2>2, <1>1 DEF Trimmed
  <2> QED
    BY <2>1, <2>2
<1>3. Pushed(q, m) = Append(Trimmed(q), m)
  BY DEF Pushed, Trimmed
<1>4. Len(Trimmed(q)) \in Nat
  BY <1>2, LenProperties
<1>5. /\ Append(Trimmed(q), m) \in Seq(Message)
      /\ Len(Append(Trimmed(q), m)) = Len(Trimmed(q)) + 1
  BY <1>2, AppendProperties
<1> QED
  BY <1>1, <1>2, <1>3, <1>4, <1>5

\* A queue's messages are addressed to keys of namespaces.
LEMMA AddressedTyped ==
  ASSUME NEW q \in Seq(Message)
  PROVE  Addressed(q) \subseteq Address
<1> SUFFICES ASSUME NEW i \in 1 .. Len(q)
             PROVE  <<q[i].ns, q[i].key>> \in Address
  BY DEF Addressed
<1>1. q[i] \in Message
  BY ElementOfSeq
<1> QED
  BY <1>1 DEF Message, Address

\* A broadcast keeps the hub's types, and a slot nobody subscribes gets nothing.
LEMMA BroadcastTyped ==
  ASSUME HubInv, NEW n \in NS, NEW k \in Keys, NEW v \in Values \cup {Absent}, NEW oom,
         broadcast(n, k, v, oom), phantom' \subseteq Address
  PROVE  HubInv'
<1> DEFINE m == [ns |-> n, key |-> k, value |-> v]
<1>1. m \in Message
  BY DEF Message
<1> HIDE DEF m
<1>2. \A c \in Conns : /\ queue[c] \in Seq(Message) /\ Len(queue[c]) <= PendingMax
                       /\ queue'[c] = IF ~active[c] THEN queue[c]
                                      ELSE IF c \in oom THEN Trimmed(queue[c])
                                      ELSE Pushed(queue[c], m)
  BY DEF HubInv, HubTyped, broadcast, m
<1>3. \A c \in Conns : queue'[c] \in Seq(Message) /\ Len(queue'[c]) <= PendingMax
  <2> TAKE c \in Conns
  <2>1. /\ Trimmed(queue[c]) \in Seq(Message) /\ Len(Trimmed(queue[c])) < PendingMax
        /\ Pushed(queue[c], m) \in Seq(Message) /\ Len(Pushed(queue[c], m)) <= PendingMax
    BY <1>1, <1>2, PushTyped
  <2>2. Len(Trimmed(queue[c])) \in Nat /\ PendingMax \in Nat
    BY <2>1, LenProperties, StateAssumption
  <2> QED
    BY <1>2, <2>1, <2>2
<1>4. queue' \in [Conns -> Seq(Message)]
  BY <1>3 DEF broadcast
<1>5. lost' \in [Conns -> SUBSET Address]
  <2>1. \A c \in Conns : Addressed(queue[c]) \subseteq Address /\ lost[c] \subseteq Address
    BY <1>2, AddressedTyped DEF HubInv, HubTyped
  <2>2. <<n, k>> \in Address
    BY DEF Address
  <2> QED
    BY <2>1, <2>2 DEF broadcast
<1>6. active' = active /\ copy' = copy
  BY DEF broadcast
<1>7. Quiet'
  BY <1>2, <1>6 DEF HubInv, Quiet
<1> QED
  BY <1>3, <1>4, <1>5, <1>6, <1>7 DEF HubInv, HubTyped

-------------------------------------------------------------------------------
(* What edge_state_get reads, as a function of the table *)

Holding(tab, k) == {e \in EntrySlots : tab[e].used /\ tab[e].key = k}
Read(tab, k) == IF Holding(tab, k) = {} THEN Absent ELSE tab[First(Holding(tab, k))].value

LEMMA CurrentIsRead ==
  \A n, k : /\ find_entry(n, k) = Holding(entries[n], k)
            /\ Current(n, k) = Read(entries[n], k)
            /\ Current(n, k)' = Read(entries'[n], k)
BY DEF Current, Read, find_entry, Holding

\* In a table that holds a key once, edge_state_get reads the entry that holds it.
LEMMA ReadAt ==
  ASSUME NEW tab, NEW k, NEW e \in EntrySlots, tab[e].used, tab[e].key = k,
         \A f \in EntrySlots : tab[f].used /\ tab[f].key = k => f = e
  PROVE  Read(tab, k) = tab[e].value
<1>1. Holding(tab, k) = {e}
  BY DEF Holding
<1>2. First({e}) \in {e}
  BY FirstIsMember
<1> QED
  BY <1>1, <1>2 DEF Read

\* Two tables that agree on the entries holding a key read alike.
LEMMA ReadSame ==
  ASSUME NEW s, NEW t, NEW k, Holding(s, k) = Holding(t, k),
         \A e \in Holding(s, k) : s[e] = t[e]
  PROVE  Read(s, k) = Read(t, k)
<1>1. CASE Holding(s, k) = {}
  BY <1>1 DEF Read
<1>2. CASE Holding(s, k) # {}
  <2>1. First(Holding(s, k)) \in Holding(s, k)
    BY <1>2, FirstIsMember DEF Holding
  <2> QED
    BY <1>2, <2>1 DEF Read
<1> QED
  BY <1>1, <1>2

\* edge_state_get reads a stored value or reports that there is none.
LEMMA CurrentTyped ==
  ASSUME StoreInv
  PROVE  \A n \in NS, k \in Keys : Current(n, k) \in Values \cup {Absent}
<1> TAKE n \in NS, k \in Keys
<1>1. CASE find_entry(n, k) = {}
  BY <1>1 DEF Current
<1>2. CASE find_entry(n, k) # {}
  <2>1. First(find_entry(n, k)) \in find_entry(n, k)
    BY <1>2, FirstIsMember DEF find_entry
  <2> QED
    BY <1>2, <2>1 DEF Current, find_entry, StoreInv, Stored
<1> QED
  BY <1>1, <1>2

\* After a put, the key reads as the new value and every other key reads as before.
LEMMA PutReads ==
  ASSUME StoreInv, NEW n \in NS, NEW k \in Keys, NEW v \in Values, put_ok(n, k),
         edge_state_put(n, k, v)
  PROVE  /\ Current(n, k)' = v
         /\ \A m \in NS, l \in Keys : ~(m = n /\ l = k) => Current(m, l)' = Current(m, l)
<1> DEFINE E == [used |-> TRUE, key |-> k, value |-> v]
<1>1. PICK e \in EntrySlots :
           /\ entries' = [entries EXCEPT ![n][e] = E]
           /\ e \in find_entry(n, k) \/ (find_entry(n, k) = {} /\ e \in find_free(n))
  BY PutSlot
<1>2. StoreTyped /\ KeyOnce
  BY DEF StoreInv
<1>3. E.used /\ E.key = k /\ E.value = v
  OBVIOUS
<1>4. /\ \A m \in NS, f \in EntrySlots : ~(m = n /\ f = e) => entries'[m][f] = entries[m][f]
      /\ entries'[n][e] = E
      /\ \A m \in NS : m # n => entries'[m] = entries[m]
  BY <1>1, <1>2 DEF StoreTyped
<1> HIDE DEF E
<1>5. \A f \in EntrySlots : f # e => ~(entries[n][f].used /\ entries[n][f].key = k)
  BY <1>1, <1>2 DEF KeyOnce, find_entry
<1>6. Read(entries'[n], k) = v
  <2>1. \A f \in EntrySlots : entries'[n][f].used /\ entries'[n][f].key = k => f = e
    BY <1>4, <1>5
  <2> QED
    BY <1>3, <1>4, <2>1, ReadAt
<1>7. ASSUME NEW l \in Keys, l # k
      PROVE  Read(entries'[n], l) = Read(entries[n], l)
  <2>1. e \notin Holding(entries[n], l) /\ e \notin Holding(entries'[n], l)
    BY <1>1, <1>3, <1>4, <1>7 DEF find_entry, find_free, Holding
  <2>2. Holding(entries'[n], l) = Holding(entries[n], l)
    BY <1>4, <2>1 DEF Holding
  <2>3. \A f \in Holding(entries'[n], l) : entries'[n][f] = entries[n][f]
    BY <1>4, <2>1 DEF Holding
  <2> QED
    BY <2>2, <2>3, ReadSame
<1> QED
  BY <1>4, <1>6, <1>7, CurrentIsRead

\* After a delete, the key is absent and every other key reads as before.
LEMMA DeleteReads ==
  ASSUME StoreInv, NEW n \in NS, NEW k \in Keys, delete_ok(n, k), edge_state_delete(n, k)
  PROVE  /\ Current(n, k)' = Absent
         /\ \A m \in NS, l \in Keys : ~(m = n /\ l = k) => Current(m, l)' = Current(m, l)
<1>1. PICK e \in find_entry(n, k) :
           /\ e \in EntrySlots
           /\ entries' = [entries EXCEPT ![n][e] = NoEntry]
  BY DeleteSlot
<1>2. StoreTyped /\ KeyOnce
  BY DEF StoreInv
<1>3. ~NoEntry.used
  BY DEF NoEntry
<1>4. /\ \A m \in NS, f \in EntrySlots : ~(m = n /\ f = e) => entries'[m][f] = entries[m][f]
      /\ entries'[n][e] = NoEntry
      /\ \A m \in NS : m # n => entries'[m] = entries[m]
  BY <1>1, <1>2 DEF StoreTyped
<1>5. \A f \in EntrySlots : f # e => ~(entries[n][f].used /\ entries[n][f].key = k)
  BY <1>1, <1>2 DEF KeyOnce, find_entry
<1>6. Read(entries'[n], k) = Absent
  BY <1>3, <1>4, <1>5 DEF Read, Holding
<1>7. ASSUME NEW l \in Keys, l # k
      PROVE  Read(entries'[n], l) = Read(entries[n], l)
  <2>1. e \notin Holding(entries[n], l) /\ e \notin Holding(entries'[n], l)
    BY <1>1, <1>3, <1>4, <1>7 DEF find_entry, Holding
  <2>2. Holding(entries'[n], l) = Holding(entries[n], l)
    BY <1>4, <2>1 DEF Holding
  <2>3. \A f \in Holding(entries'[n], l) : entries'[n][f] = entries[n][f]
    BY <1>4, <2>1 DEF Holding
  <2> QED
    BY <2>2, <2>3, ReadSame
<1> QED
  BY <1>4, <1>6, <1>7, CurrentIsRead

-------------------------------------------------------------------------------
(* The inductive invariant *)

\* Subscribing, unsubscribing and taking a message keep the hub's types.
LEMMA SubscribeTyped ==
  ASSUME StoreInv, HubInv, NEW c \in Conns, edge_ws_hub_subscribe(c)
  PROVE  HubInv'
<1>1. [a \in Address |-> Current(a[1], a[2])] \in [Address -> Values \cup {Absent}]
  BY CurrentTyped DEF Address
<1> QED
  BY <1>1 DEF HubInv, HubTyped, Quiet, edge_ws_hub_subscribe

LEMMA UnsubscribeTyped ==
  ASSUME HubInv, NEW c \in Conns, edge_ws_hub_unsubscribe(c)
  PROVE  HubInv'
<1>1. <<>> \in Seq(Message) /\ Len(<<>>) <= PendingMax
  BY StateAssumption
<1>2. \A d \in Conns : queue'[d] = IF d = c THEN <<>> ELSE queue[d]
  BY DEF HubInv, HubTyped, edge_ws_hub_unsubscribe
<1> QED
  BY <1>1, <1>2 DEF HubInv, HubTyped, Quiet, edge_ws_hub_unsubscribe

LEMMA TakeTyped ==
  ASSUME HubInv, NEW c \in Conns, edge_ws_hub_take_pending(c)
  PROVE  /\ HubInv'
         /\ Head(queue[c]) \in Message
         /\ <<Head(queue[c]).ns, Head(queue[c]).key>> \in Address
<1>1. queue[c] \in Seq(Message) /\ queue[c] # <<>> /\ Len(queue[c]) <= PendingMax
  BY DEF HubInv, HubTyped, edge_ws_hub_take_pending
<1>2. /\ Head(queue[c]) \in Message
      /\ Tail(queue[c]) \in Seq(Message) /\ Len(Tail(queue[c])) = Len(queue[c]) - 1
  BY <1>1, HeadTailProperties
<1>3. Len(Tail(queue[c])) <= PendingMax
  BY <1>1, <1>2, LenProperties, StateAssumption
<1>4. <<Head(queue[c]).ns, Head(queue[c]).key>> \in Address
  BY <1>2 DEF Message, Address
<1>5. \A d \in Conns : queue'[d] = IF d = c THEN Tail(queue[c]) ELSE queue[d]
  BY DEF HubInv, HubTyped, edge_ws_hub_take_pending
<1>6. queue' \in [Conns -> Seq(Message)]
  BY <1>2 DEF HubInv, HubTyped, edge_ws_hub_take_pending
<1>7. Head(queue[c]).value \in Values \cup {Absent}
  BY <1>2 DEF Message
<1>8. copy' \in [Conns -> [Address -> Values \cup {Absent}]]
  <2>1. copy[c] \in [Address -> Values \cup {Absent}]
    BY DEF HubInv, HubTyped
  <2>2. [copy[c] EXCEPT ![<<Head(queue[c]).ns, Head(queue[c]).key>>] = Head(queue[c]).value]
          \in [Address -> Values \cup {Absent}]
    BY <2>1, <1>7
  <2> QED
    BY <2>2 DEF HubInv, HubTyped, edge_ws_hub_take_pending
<1> QED
  BY <1>2, <1>3, <1>4, <1>5, <1>6, <1>8 DEF HubInv, HubTyped, Quiet, edge_ws_hub_take_pending

\* A write of the plugin ABI keeps the hub's types.
LEMMA SilentTyped ==
  ASSUME HubInv, NEW n \in NS, NEW k \in Keys, NEW v \in Values, api_state_put(n, k, v)
  PROVE  HubInv'
<1>1. <<n, k>> \in Address
  BY DEF Address
<1>2. lost' \in [Conns -> SUBSET Address]
  BY <1>1 DEF api_state_put, HubInv, HubTyped
<1> QED
  BY <1>2 DEF api_state_put, HubInv, HubTyped, Quiet, hub

LEMMA InitSound == Init => StoreInv /\ HubInv
<1> SUFFICES ASSUME Init PROVE StoreInv /\ HubInv
  OBVIOUS
<1>1. NoEntry \in Entry /\ ~NoEntry.used
  BY DEF NoEntry, Entry
<1>2. \A n \in NS, e \in EntrySlots : entries[n][e] = NoEntry
  BY DEF Init
<1>3. \A n \in NS : UsedSlots(n) = {}
  BY <1>1, <1>2 DEF UsedSlots
<1>4. StoreTyped
  BY <1>1, StateAssumption DEF Init, StoreTyped
<1>5. CountsUsed
  BY <1>3, FS_EmptySet DEF Init, CountsUsed
<1>6. KeyOnce /\ Stored
  BY <1>1, <1>2 DEF KeyOnce, Stored
<1>7. HubInv
  <2>1. <<>> \in Seq(Message) /\ Len(<<>>) <= PendingMax
    BY StateAssumption
  <2> QED
    BY <2>1 DEF Init, HubInv, HubTyped, Quiet
<1> QED
  BY <1>4, <1>5, <1>6, <1>7 DEF StoreInv

\* The writers that store a value: a write of the store, a broadcast or both.
LEMMA WritersSound ==
  ASSUME StoreInv, HubInv, NEW n \in NS, NEW k \in Keys, NEW v \in Values, NEW oom
  PROVE  /\ PutAndNotify(n, k, v, oom) => StoreInv' /\ HubInv'
         /\ ScrapeUp(v, oom) => StoreInv' /\ HubInv'
         /\ ScrapeDown(v, oom) => StoreInv' /\ HubInv'
<1>1. \A m, l : Announced(m, l) => phantom' \subseteq Address
  BY DEF HubInv, HubTyped, Announced
<1>2. ASSUME NEW m \in NS, NEW l \in Keys, PutAndNotify(m, l, v, oom)
      PROVE  StoreInv' /\ HubInv'
  <2>1. put_ok(m, l) /\ edge_state_put(m, l, v) /\ broadcast(m, l, v, oom) /\ Announced(m, l)
    BY <1>2 DEF PutAndNotify
  <2>2. StoreInv'
    BY <2>1, PutSound
  <2>3. HubInv'
    BY <1>1, <2>1, BroadcastTyped
  <2> QED
    BY <2>2, <2>3
<1>4. HealthNs \in NS /\ HealthKey \in Keys /\ <<HealthNs, HealthKey>> \in Address
  BY StateAssumption DEF Address
<1>5. ASSUME ScrapeDown(v, oom)
      PROVE  StoreInv' /\ HubInv'
  <2>1. broadcast(HealthNs, HealthKey, v, oom)
    BY <1>5 DEF ScrapeDown
  <2>2. CASE put_ok(HealthNs, HealthKey) /\ edge_state_put(HealthNs, HealthKey, v)
             /\ Announced(HealthNs, HealthKey)
    BY <1>1, <1>4, <2>1, <2>2, PutSound, BroadcastTyped
  <2>3. CASE phantom' = phantom \cup {<<HealthNs, HealthKey>>} /\ UNCHANGED store
    <3>1. phantom' \subseteq Address
      BY <1>4, <2>3 DEF HubInv, HubTyped
    <3>2. HubInv'
      BY <1>4, <2>1, <3>1, BroadcastTyped
    <3>3. StoreInv'
      BY <2>3 DEF store, StoreInv, StoreTyped, CountsUsed, UsedSlots, KeyOnce, Stored
    <3> QED
      BY <3>2, <3>3
  <2> QED
    BY <1>5, <2>2, <2>3 DEF ScrapeDown
<1> QED
  BY <1>2, <1>4, <1>5 DEF ScrapeUp

LEMMA NextSound == StoreInv /\ HubInv /\ [Next]_vars => StoreInv' /\ HubInv'
<1> SUFFICES ASSUME StoreInv, HubInv, [Next]_vars PROVE StoreInv' /\ HubInv'
  OBVIOUS
<1>0. ASSUME UNCHANGED store PROVE StoreInv'
  BY <1>0 DEF store, StoreInv, StoreTyped, CountsUsed, UsedSlots, KeyOnce, Stored
<1>1. CASE \E n \in NS, k \in Keys, v \in Values, oom \in SUBSET Conns : PutAndNotify(n, k, v, oom)
  BY <1>1, WritersSound
<1>2. CASE \E n \in NS, k \in Keys, oom \in SUBSET Conns : DeleteAndNotify(n, k, oom)
  <2>1. PICK n \in NS, k \in Keys, oom \in SUBSET Conns : DeleteAndNotify(n, k, oom)
    BY <1>2
  <2>2. delete_ok(n, k) /\ edge_state_delete(n, k) /\ broadcast(n, k, Absent, oom)
        /\ Announced(n, k)
    BY <2>1 DEF DeleteAndNotify
  <2>3. phantom' \subseteq Address
    BY <2>2 DEF HubInv, HubTyped, Announced
  <2> QED
    BY <2>2, <2>3, DeleteSound, BroadcastTyped
<1>3. CASE \E v \in Values, oom \in SUBSET Conns : ScrapeUp(v, oom) \/ ScrapeDown(v, oom)
  BY <1>3, WritersSound, StateAssumption
<1>4. CASE \E n \in NS, k \in Keys, v \in Values : api_state_put(n, k, v)
  BY <1>4, PutSound, SilentTyped DEF api_state_put
<1>5. CASE \E n \in NS, on \in BOOLEAN : edge_state_ns_set_enabled(n, on)
  <2>1. HubInv'
    BY <1>5 DEF edge_state_ns_set_enabled, hub, HubInv, HubTyped, Quiet
  <2>2. StoreInv'
    BY <1>5 DEF edge_state_ns_set_enabled, StoreInv, StoreTyped, CountsUsed, UsedSlots,
                KeyOnce, Stored
  <2> QED
    BY <2>1, <2>2
<1>6. CASE \E c \in Conns : edge_ws_hub_subscribe(c)
  BY <1>0, <1>6, SubscribeTyped DEF edge_ws_hub_subscribe
<1>7. CASE \E c \in Conns : edge_ws_hub_unsubscribe(c)
  BY <1>0, <1>7, UnsubscribeTyped DEF edge_ws_hub_unsubscribe
<1>8. CASE \E c \in Conns : edge_ws_hub_take_pending(c)
  BY <1>0, <1>8, TakeTyped DEF edge_ws_hub_take_pending
<1>9. CASE UNCHANGED vars
  BY <1>0, <1>9 DEF vars, hub, HubInv, HubTyped, Quiet
<1> QED
  BY <1>1, <1>2, <1>3, <1>4, <1>5, <1>6, <1>7, <1>8, <1>9 DEF Next

\* For every set of keys and every capacity, whatever the writers do: count is the
\* number of used entries and no key occupies two, so edge_state_delete removes a
\* key for good and a sub_push queue never outgrows its limit.
THEOREM TableIsSound == Spec => []TableSound
<1>1. StoreInv /\ HubInv => TableSound
  BY DEF StoreInv, StoreTyped, CountsUsed, UsedSlots, KeyOnce, HubInv, HubTyped,
         TableSound, TypeOK, Entry
<1> QED
  BY <1>1, InitSound, NextSound, PTL DEF Spec

-------------------------------------------------------------------------------
(* What a subscriber ends up with *)

\* The positions of the messages for an address, and the value the last of them
\* leaves a copy with that now holds d.
Later(q, a) == {i \in 1 .. Len(q) : <<q[i].ns, q[i].key>> = a}
Settled(q, a, d) ==
  IF Later(q, a) = {} THEN d
  ELSE q[CHOOSE i \in Later(q, a) : \A j \in Later(q, a) : j <= i].value

LEMMA EventualIsSettled ==
  \A c, a : /\ Eventual(c, a) = Settled(queue[c], a, copy[c][a])
            /\ Eventual(c, a)' = Settled(queue'[c], a, copy'[c][a])
BY DEF Eventual, Settled, Later

\* A queue with messages for an address has a last one.
LEMMA LastExists ==
  ASSUME NEW q \in Seq(Message), NEW a, Later(q, a) # {}
  PROVE  \E i \in Later(q, a) : \A j \in Later(q, a) : j <= i
<1> DEFINE S == {n \in Nat : \E i \in Later(q, a) : n = Len(q) - i}
<1>1. Len(q) \in Nat
  BY LenProperties
<1>2. \A i \in Later(q, a) : i \in Nat /\ i <= Len(q)
  BY <1>1 DEF Later
<1>3. S # {}
  <2>1. PICK i \in Later(q, a) : TRUE
    OBVIOUS
  <2>2. Len(q) - i \in Nat
    BY <1>1, <1>2, <2>1
  <2> QED
    BY <2>1, <2>2
<1>4. PICK x \in S : \A y \in S : ~(<<y, x>> \in OpToRel(<, Nat))
  <2>1. S \subseteq Nat
    OBVIOUS
  <2> HIDE DEF S
  <2> QED
    BY <1>3, <2>1, NatLessThanWellFounded, WFMin
<1>5. OpToRel(<, Nat) = {ss \in Nat \X Nat : ss[1] < ss[2]}
  BY DEF OpToRel
<1>6. PICK i \in Later(q, a) : x = Len(q) - i
  BY <1>4
<1>7. \A j \in Later(q, a) : j <= i
  <2> TAKE j \in Later(q, a)
  <2>1. Len(q) - j \in S /\ Len(q) - j \in Nat
    BY <1>1, <1>2
  <2>2. ~(<<Len(q) - j, x>> \in {ss \in Nat \X Nat : ss[1] < ss[2]})
    BY <1>4, <1>5, <2>1
  <2>3. x \in Nat
    BY <1>4
  <2>4. ~(Len(q) - j < x)
    BY <2>1, <2>2, <2>3
  <2> QED
    BY <1>1, <1>2, <1>6, <2>3, <2>4
<1> QED
  BY <1>6, <1>7

\* The last message for an address decides.
LEMMA SettledAt ==
  ASSUME NEW q \in Seq(Message), NEW a, NEW d, NEW i \in Later(q, a),
         \A j \in Later(q, a) : j <= i
  PROVE  Settled(q, a, d) = q[i].value
<1> DEFINE k == CHOOSE n \in Later(q, a) : \A j \in Later(q, a) : j <= n
<1>1. k \in Later(q, a) /\ \A j \in Later(q, a) : j <= k
  OBVIOUS
<1> HIDE DEF k
<1>2. k <= i /\ i <= k /\ i \in Nat /\ k \in Nat
  BY <1>1, LenProperties DEF Later
<1>3. k = i
  BY <1>2
<1> QED
  BY <1>3 DEF Settled, k

LEMMA SettledNone ==
  ASSUME NEW q \in Seq(Message), NEW a, NEW d, a \notin Addressed(q)
  PROVE  Settled(q, a, d) = d
BY DEF Settled, Later, Addressed

\* A message appended to the queue decides its own address and no other.
LEMMA SettledAppend ==
  ASSUME NEW q \in Seq(Message), NEW m \in Message, NEW a, NEW d
  PROVE  /\ Settled(Append(q, m), a, d) =
              IF <<m.ns, m.key>> = a THEN m.value ELSE Settled(q, a, d)
         /\ Addressed(Append(q, m)) = Addressed(q) \cup {<<m.ns, m.key>>}
<1> DEFINE p == Append(q, m)
<1>1. /\ Len(q) \in Nat /\ p \in Seq(Message) /\ Len(p) = Len(q) + 1
      /\ \A i \in 1 .. Len(q) : p[i] = q[i]
      /\ p[Len(q) + 1] = m
  BY LenProperties, AppendProperties
<1> HIDE DEF p
<1>2. \A i \in 1 .. Len(p) : i \in 1 .. Len(q) \/ i = Len(q) + 1
  BY <1>1
<1>3. 1 .. Len(q) \subseteq 1 .. Len(p) /\ Len(q) + 1 \in 1 .. Len(p)
  BY <1>1
<1>4. Addressed(p) = Addressed(q) \cup {<<m.ns, m.key>>}
  BY <1>1, <1>2, <1>3 DEF Addressed
<1>5. CASE <<m.ns, m.key>> = a
  <2>1. Len(q) + 1 \in Later(p, a)
    BY <1>1, <1>3, <1>5 DEF Later
  <2>2. \A j \in Later(p, a) : j <= Len(q) + 1
    BY <1>1 DEF Later
  <2>3. Settled(p, a, d) = p[Len(q) + 1].value
    BY <1>1, <2>1, <2>2, SettledAt
  <2> QED
    BY <1>1, <1>4, <1>5, <2>3 DEF p
<1>6. CASE <<m.ns, m.key>> # a
  <2>1. Later(p, a) = Later(q, a)
    BY <1>1, <1>2, <1>3, <1>6 DEF Later
  <2>2. CASE Later(q, a) = {}
    BY <1>4, <1>6, <2>1, <2>2 DEF Settled, p
  <2>3. CASE Later(q, a) # {}
    <3>1. PICK i \in Later(q, a) : \A j \in Later(q, a) : j <= i
      BY <2>3, LastExists
    <3>2. Settled(q, a, d) = q[i].value /\ Settled(p, a, d) = p[i].value
      BY <1>1, <2>1, <3>1, SettledAt
    <3>3. p[i] = q[i]
      BY <1>1, <3>1 DEF Later
    <3> QED
      BY <1>4, <1>6, <3>2, <3>3 DEF p
  <2> QED
    BY <2>2, <2>3
<1> QED
  BY <1>5, <1>6

\* Discarding the head of a queue changes what it settles only for an address that
\* no other message of the queue carries; that one is left with the head's value.
LEMMA SettledTail ==
  ASSUME NEW q \in Seq(Message), q # <<>>, NEW a, NEW d
  PROVE  /\ a \in Addressed(Tail(q)) => \A b : Settled(Tail(q), a, b) = Settled(q, a, d)
         /\ a \notin Addressed(Tail(q)) /\ a = <<Head(q).ns, Head(q).key>>
              => Settled(q, a, d) = Head(q).value
         /\ Addressed(q) = Addressed(Tail(q)) \cup {<<Head(q).ns, Head(q).key>>}
<1> DEFINE p == Tail(q)
<1>1. /\ Len(q) \in Nat /\ Len(q) > 0 /\ p \in Seq(Message) /\ Len(p) = Len(q) - 1
      /\ \A i \in 1 .. Len(p) : p[i] = q[i + 1]
      /\ q[1] = Head(q)
  BY LenProperties, HeadTailProperties
<1> HIDE DEF p
<1>2. \A i \in 1 .. Len(q) : i = 1 \/ (i - 1 \in 1 .. Len(p) /\ p[i - 1] = q[i])
  <2> SUFFICES ASSUME NEW i \in 1 .. Len(q), i # 1
               PROVE  i - 1 \in 1 .. Len(p) /\ p[i - 1] = q[i]
    OBVIOUS
  <2>1. i - 1 \in 1 .. Len(p) /\ (i - 1) + 1 = i
    BY <1>1
  <2> QED
    BY <1>1, <2>1
<1>3. \A i \in 1 .. Len(p) : i + 1 \in 1 .. Len(q) /\ i + 1 # 1
  BY <1>1
<1>4. 1 \in 1 .. Len(q)
  BY <1>1
<1>5. Addressed(q) = Addressed(p) \cup {<<Head(q).ns, Head(q).key>>}
  BY <1>1, <1>2, <1>3, <1>4 DEF Addressed
<1>6. ASSUME a \in Addressed(p), NEW b PROVE Settled(p, a, b) = Settled(q, a, d)
  <2>1. Later(p, a) # {}
    BY <1>6 DEF Addressed, Later
  <2>2. PICK i \in Later(p, a) : \A j \in Later(p, a) : j <= i
    BY <1>1, <2>1, LastExists
  <2>3. i \in 1 .. Len(p) /\ p[i] = q[i + 1] /\ i + 1 \in Later(q, a)
    BY <1>1, <1>3, <2>2 DEF Later
  <2>4. \A j \in Later(q, a) : j <= i + 1
    <3> TAKE j \in Later(q, a)
    <3>1. CASE j = 1
      BY <1>1, <2>3, <3>1
    <3>2. CASE j # 1
      <4>1. j - 1 \in Later(p, a)
        BY <1>2, <3>2 DEF Later
      <4>2. j - 1 <= i /\ j \in Nat /\ i \in Nat
        BY <1>1, <2>2, <2>3, <4>1 DEF Later
      <4> QED
        BY <4>2
    <3> QED
      BY <3>1, <3>2
  <2> QED
    BY <1>1, <2>2, <2>3, <2>4, SettledAt
<1>7. ASSUME a \notin Addressed(p), a = <<Head(q).ns, Head(q).key>>
      PROVE  Settled(q, a, d) = Head(q).value
  <2>1. 1 \in Later(q, a)
    BY <1>1, <1>4, <1>7 DEF Later
  <2>2. \A j \in Later(q, a) : j <= 1
    BY <1>2, <1>7 DEF Later, Addressed
  <2> QED
    BY <1>1, <2>1, <2>2, SettledAt
<1> QED
  BY <1>5, <1>6, <1>7 DEF p

\* sub_push's discard of the oldest message changes what a queue settles only for
\* an address that thereby disappears from the queue.
LEMMA SettledTrimmed ==
  ASSUME NEW q \in Seq(Message), NEW a, NEW d
  PROVE  /\ Addressed(Trimmed(q)) \subseteq Addressed(q)
         /\ a \notin Addressed(q) \ Addressed(Trimmed(q))
              => Settled(Trimmed(q), a, d) = Settled(q, a, d)
<1>1. CASE Len(q) >= PendingMax
  <2>1. q # <<>>
    BY <1>1, StateAssumption, LenProperties
  <2>2. Trimmed(q) = Tail(q) /\ Tail(q) \in Seq(Message)
    BY <1>1, <2>1, HeadTailProperties DEF Trimmed
  <2>3. Addressed(q) = Addressed(Tail(q)) \cup {<<Head(q).ns, Head(q).key>>}
    BY <2>1, SettledTail
  <2>4. CASE a \in Addressed(Tail(q))
    <3>1. Settled(Tail(q), a, d) = Settled(q, a, d)
      BY <2>1, <2>4, SettledTail
    <3> QED
      BY <2>2, <2>3, <3>1
  <2>5. CASE a \notin Addressed(Tail(q)) /\ a \notin Addressed(q)
    BY <2>2, <2>3, <2>5, SettledNone
  <2>6. CASE a \notin Addressed(Tail(q)) /\ a \in Addressed(q)
    BY <2>2, <2>3, <2>6
  <2> QED
    BY <2>4, <2>5, <2>6
<1>2. CASE ~(Len(q) >= PendingMax)
  BY <1>2 DEF Trimmed
<1> QED
  BY <1>1, <1>2

\* What a broadcast does to an active subscriber: the announced key will settle at
\* the announced value, and nothing else changes, except for the keys that are now
\* recorded as lost.
LEMMA BroadcastSettles ==
  ASSUME HubInv, NEW n \in NS, NEW k \in Keys, NEW v \in Values \cup {Absent}, NEW oom,
         broadcast(n, k, v, oom), NEW c \in Conns, active[c], NEW a, a \notin lost'[c]
  PROVE  IF a = <<n, k>> THEN Eventual(c, a)' = v
         ELSE a \notin lost[c] /\ Eventual(c, a)' = Eventual(c, a)
<1> DEFINE m == [ns |-> n, key |-> k, value |-> v]
           q == queue[c]
           t == Trimmed(queue[c])
<1>1. m \in Message /\ <<m.ns, m.key>> = <<n, k>> /\ m.value = v
  BY DEF Message
<1> HIDE DEF m
<1>2. /\ q \in Seq(Message) /\ Len(q) <= PendingMax
      /\ queue'[c] = IF c \in oom THEN t ELSE Pushed(q, m)
      /\ copy' = copy
  BY DEF HubInv, HubTyped, broadcast, m
<1>3. lost'[c] = ((lost[c] \ {<<n, k>>}) \cup (Addressed(q) \ Addressed(queue'[c])))
                   \cup IF c \in oom THEN {<<n, k>>} ELSE {}
  BY DEF broadcast
<1>4. t \in Seq(Message) /\ Pushed(q, m) = Append(t, m)
  BY <1>1, <1>2, PushTyped
<1> HIDE DEF t, q
<1>5. CASE a = <<n, k>>
  <2>1. c \notin oom
    BY <1>3, <1>5
  <2>2. Settled(Append(t, m), a, copy[c][a]) = v
    BY <1>1, <1>4, <1>5, SettledAppend
  <2> QED
    BY <1>2, <1>4, <1>5, <2>1, <2>2, EventualIsSettled
<1>6. CASE a # <<n, k>>
  <2>1. a \notin lost[c] /\ a \notin Addressed(q) \ Addressed(queue'[c])
    BY <1>3, <1>6
  <2>2. /\ Settled(queue'[c], a, copy[c][a]) = Settled(t, a, copy[c][a])
        /\ Addressed(queue'[c]) \subseteq Addressed(t) \cup {<<n, k>>}
    BY <1>1, <1>2, <1>4, <1>6, SettledAppend
  <2>3. a \notin Addressed(q) \ Addressed(t)
    BY <2>1, <2>2, <1>6
  <2>4. Settled(t, a, copy[c][a]) = Settled(q, a, copy[c][a])
    BY <1>2, <2>3, SettledTrimmed DEF t, q
  <2> QED
    BY <1>2, <1>6, <2>1, <2>2, <2>4, EventualIsSettled DEF q
<1> QED
  BY <1>5, <1>6

\* Convergence for one writer: if the store's new value of the announced key is the
\* announced one and other keys read as before, convergence is kept.
LEMMA BroadcastConverges ==
  ASSUME HubInv, CopyConverges,
         NEW n \in NS, NEW k \in Keys, NEW v \in Values \cup {Absent}, NEW oom,
         broadcast(n, k, v, oom),
         <<n, k>> \notin phantom' => Current(n, k)' = v,
         \A m \in NS, l \in Keys : ~(m = n /\ l = k) => Current(m, l)' = Current(m, l),
         phantom \ {<<n, k>>} \subseteq phantom'
  PROVE  CopyConverges'
<1> SUFFICES ASSUME NEW c \in Conns, NEW a \in Address,
                    active'[c], a \notin lost'[c], a \notin phantom'
             PROVE  Eventual(c, a)' = Current(a[1], a[2])'
  BY DEF CopyConverges
<1>1. active[c]
  BY DEF broadcast
<1>2. a[1] \in NS /\ a[2] \in Keys /\ a = <<a[1], a[2]>>
  BY DEF Address
<1>3. CASE a = <<n, k>>
  <2>1. Eventual(c, a)' = v
    BY <1>1, <1>3, BroadcastSettles
  <2>2. Current(n, k)' = v
    BY <1>3
  <2>3. a[1] = n /\ a[2] = k
    BY <1>3
  <2> QED
    BY <2>1, <2>2, <2>3
<1>4. CASE a # <<n, k>>
  <2>1. a \notin lost[c] /\ Eventual(c, a)' = Eventual(c, a)
    BY <1>1, <1>4, BroadcastSettles
  <2>2. a \notin phantom
    BY <1>4
  <2>3. Eventual(c, a) = Current(a[1], a[2])
    BY <1>1, <2>1, <2>2 DEF CopyConverges
  <2>4. Current(a[1], a[2])' = Current(a[1], a[2])
    BY <1>2, <1>4
  <2> QED
    BY <2>1, <2>3, <2>4
<1> QED
  BY <1>3, <1>4

\* A write keeps every subscriber converging, announced or not.
LEMMA WritersConverge ==
  ASSUME StoreInv, HubInv, CopyConverges, NEW n \in NS, NEW k \in Keys, NEW v \in Values,
         NEW oom
  PROVE  /\ PutAndNotify(n, k, v, oom) => CopyConverges'
         /\ api_state_put(n, k, v) => CopyConverges'
<1>1. \A x, y : Announced(x, y) => phantom \ {<<x, y>>} \subseteq phantom'
  BY DEF Announced
<1>2. ASSUME PutAndNotify(n, k, v, oom) PROVE CopyConverges'
  <2>1. put_ok(n, k) /\ edge_state_put(n, k, v) /\ broadcast(n, k, v, oom) /\ Announced(n, k)
    BY <1>2 DEF PutAndNotify
  <2>2. /\ Current(n, k)' = v
        /\ \A m \in NS, l \in Keys : ~(m = n /\ l = k) => Current(m, l)' = Current(m, l)
    BY <2>1, PutReads
  <2> QED
    BY <1>1, <2>1, <2>2, BroadcastConverges
<1>4. ASSUME api_state_put(n, k, v) PROVE CopyConverges'
  <2> SUFFICES ASSUME NEW c \in Conns, NEW a \in Address,
                      active'[c], a \notin lost'[c], a \notin phantom'
               PROVE  Eventual(c, a)' = Current(a[1], a[2])'
    BY DEF CopyConverges
  <2>1. put_ok(n, k) /\ edge_state_put(n, k, v)
    BY <1>4 DEF api_state_put
  <2>2. active' = active /\ queue' = queue /\ copy' = copy /\ phantom' = phantom
    BY <1>4 DEF api_state_put, hub
  <2>3. lost'[c] = lost[c] \cup {<<n, k>>}
    BY <1>4, <2>2 DEF api_state_put
  <2>4. a[1] \in NS /\ a[2] \in Keys /\ a = <<a[1], a[2]>> /\ a # <<n, k>>
    BY <2>3 DEF Address
  <2>5. Current(a[1], a[2])' = Current(a[1], a[2])
    BY <2>1, <2>4, PutReads
  <2>6. Eventual(c, a)' = Eventual(c, a)
    BY <2>2, EventualIsSettled
  <2>7. Eventual(c, a) = Current(a[1], a[2])
    BY <2>2, <2>3 DEF CopyConverges
  <2> QED
    BY <2>5, <2>6, <2>7
<1> QED
  BY <1>2, <1>4

\* A failed scrape is announced whether or not the store took it.
LEMMA ScrapeDownConverges ==
  ASSUME StoreInv, HubInv, CopyConverges, NEW v \in Values, NEW oom, ScrapeDown(v, oom)
  PROVE  CopyConverges'
<1>1. HealthNs \in NS /\ HealthKey \in Keys
  BY StateAssumption
<1>2. broadcast(HealthNs, HealthKey, v, oom)
  BY DEF ScrapeDown
<1>3. CASE put_ok(HealthNs, HealthKey) /\ edge_state_put(HealthNs, HealthKey, v)
           /\ Announced(HealthNs, HealthKey)
  <2>1. PutAndNotify(HealthNs, HealthKey, v, oom)
    BY <1>2, <1>3 DEF PutAndNotify
  <2> QED
    BY <1>1, <2>1, WritersConverge
<1>4. CASE phantom' = phantom \cup {<<HealthNs, HealthKey>>} /\ UNCHANGED store
  <2>1. \A m \in NS, l \in Keys : Current(m, l)' = Current(m, l)
    BY <1>4, CurrentIsRead DEF store
  <2> QED
    BY <1>1, <1>2, <1>4, <2>1, BroadcastConverges
<1> QED
  BY <1>3, <1>4 DEF ScrapeDown

\* A new subscriber starts with the stored state and nothing queued.
LEMMA SubscribeConverges ==
  ASSUME HubInv, CopyConverges, NEW c \in Conns, edge_ws_hub_subscribe(c)
  PROVE  CopyConverges'
<1> SUFFICES ASSUME NEW b \in Conns, NEW a \in Address,
                    active'[b], a \notin lost'[b], a \notin phantom'
             PROVE  Eventual(b, a)' = Current(a[1], a[2])'
  BY DEF CopyConverges
<1>1. Current(a[1], a[2])' = Current(a[1], a[2])
  BY CurrentIsRead DEF edge_ws_hub_subscribe, store
<1>2. CASE b = c
  <2>1. queue'[c] = <<>>
    BY DEF edge_ws_hub_subscribe, HubInv, Quiet
  <2>2. copy'[c][a] = Current(a[1], a[2])
    BY DEF edge_ws_hub_subscribe, HubInv, HubTyped
  <2>3. Later(<<>>, a) = {}
    BY DEF Later
  <2>4. Settled(<<>>, a, copy'[c][a]) = copy'[c][a]
    BY <2>3 DEF Settled
  <2> QED
    BY <1>1, <1>2, <2>1, <2>2, <2>4, EventualIsSettled
<1>3. CASE b # c
  <2>1. /\ active[b] /\ queue'[b] = queue[b] /\ copy'[b] = copy[b] /\ lost'[b] = lost[b]
        /\ phantom' = phantom
    BY <1>3 DEF edge_ws_hub_subscribe, HubInv, HubTyped
  <2> QED
    BY <1>1, <2>1, EventualIsSettled DEF CopyConverges
<1> QED
  BY <1>2, <1>3

LEMMA UnsubscribeConverges ==
  ASSUME HubInv, CopyConverges, NEW c \in Conns, edge_ws_hub_unsubscribe(c)
  PROVE  CopyConverges'
<1> SUFFICES ASSUME NEW b \in Conns, NEW a \in Address,
                    active'[b], a \notin lost'[b], a \notin phantom'
             PROVE  Eventual(b, a)' = Current(a[1], a[2])'
  BY DEF CopyConverges
<1>1. Current(a[1], a[2])' = Current(a[1], a[2])
  BY CurrentIsRead DEF edge_ws_hub_unsubscribe, store
<1>2. b # c
  BY DEF edge_ws_hub_unsubscribe, HubInv, HubTyped
<1>3. /\ active[b] /\ queue'[b] = queue[b] /\ copy'[b] = copy[b] /\ lost'[b] = lost[b]
      /\ phantom' = phantom
  BY <1>2 DEF edge_ws_hub_unsubscribe, HubInv, HubTyped
<1> QED
  BY <1>1, <1>3, EventualIsSettled DEF CopyConverges

\* Taking a message moves its value from the queue to the copy.
LEMMA TakeConverges ==
  ASSUME HubInv, CopyConverges, NEW c \in Conns, edge_ws_hub_take_pending(c)
  PROVE  CopyConverges'
<1> SUFFICES ASSUME NEW b \in Conns, NEW a \in Address,
                    active'[b], a \notin lost'[b], a \notin phantom'
             PROVE  Eventual(b, a)' = Current(a[1], a[2])'
  BY DEF CopyConverges
<1>1. Current(a[1], a[2])' = Current(a[1], a[2])
  BY CurrentIsRead DEF edge_ws_hub_take_pending, store
<1>2. active' = active /\ lost' = lost /\ phantom' = phantom
  BY DEF edge_ws_hub_take_pending
<1>3. Eventual(b, a)' = Eventual(b, a)
  <2>1. CASE b = c
    <3> DEFINE q == queue[c]
               h == Head(queue[c])
    <3>1. q \in Seq(Message) /\ q # <<>> /\ queue'[c] = Tail(q) /\ Tail(q) \in Seq(Message)
      BY HeadTailProperties DEF edge_ws_hub_take_pending, HubInv, HubTyped
    <3>2. /\ <<h.ns, h.key>> \in Address
          /\ copy'[c] = [copy[c] EXCEPT ![<<h.ns, h.key>>] = h.value]
      BY TakeTyped DEF edge_ws_hub_take_pending, HubInv, HubTyped
    <3>3. copy'[c][a] = IF a = <<h.ns, h.key>> THEN h.value ELSE copy[c][a]
      BY <3>2 DEF HubInv, HubTyped
    <3>7. Head(q) = h
      OBVIOUS
    <3> HIDE DEF q, h
    <3>4. CASE a \in Addressed(Tail(q))
      <4>1. Settled(Tail(q), a, copy'[c][a]) = Settled(q, a, copy[c][a])
        BY <3>1, <3>4, SettledTail
      <4> QED
        BY <2>1, <3>1, <4>1, EventualIsSettled DEF q
    <3>5. CASE a \notin Addressed(Tail(q)) /\ a = <<h.ns, h.key>>
      <4>1. Settled(q, a, copy[c][a]) = h.value
        <5>1. a \notin Addressed(Tail(q)) /\ a = <<Head(q).ns, Head(q).key>>
          BY <3>5, <3>7
        <5>2. Settled(q, a, copy[c][a]) = Head(q).value
          BY <3>1, <5>1, SettledTail
        <5> QED
          BY <3>7, <5>2
      <4>2. Settled(Tail(q), a, copy'[c][a]) = h.value
        BY <3>1, <3>3, <3>5, SettledNone
      <4> QED
        BY <2>1, <3>1, <4>1, <4>2, EventualIsSettled DEF q
    <3>6. CASE a \notin Addressed(Tail(q)) /\ a # <<h.ns, h.key>>
      <4>1. a \notin Addressed(q)
        BY <3>1, <3>6, <3>7, SettledTail
      <4>2. Settled(Tail(q), a, copy'[c][a]) = copy[c][a]
            /\ Settled(q, a, copy[c][a]) = copy[c][a]
        BY <3>1, <3>3, <3>6, <4>1, SettledNone
      <4> QED
        BY <2>1, <3>1, <4>2, EventualIsSettled DEF q
    <3> QED
      BY <3>4, <3>5, <3>6
  <2>2. CASE b # c
    <3>1. queue'[b] = queue[b] /\ copy'[b] = copy[b]
      BY <2>2 DEF edge_ws_hub_take_pending, HubInv, HubTyped
    <3> QED
      BY <3>1, EventualIsSettled
  <2> QED
    BY <2>1, <2>2
<1> QED
  BY <1>1, <1>2, <1>3 DEF CopyConverges

\* Whatever the REST handlers, NOTIFY payloads, the scraper and the plugins
\* interleave, for any number of subscribers and any queue length: what a
\* subscriber will hold once its queue is drained is what the store holds, except
\* for the keys whose latest message was discarded or never sent.
THEOREM SubscribersConverge == Spec => []CopyConverges
<1>1. Init => CopyConverges
  BY DEF Init, CopyConverges
<1>2. StoreInv /\ HubInv /\ CopyConverges /\ [Next]_vars => CopyConverges'
  <2> SUFFICES ASSUME StoreInv, HubInv, CopyConverges, [Next]_vars PROVE CopyConverges'
    OBVIOUS
  <2>1. CASE \E n \in NS, k \in Keys, v \in Values, oom \in SUBSET Conns :
               PutAndNotify(n, k, v, oom)
    BY <2>1, WritersConverge
  <2>2. CASE \E n \in NS, k \in Keys, oom \in SUBSET Conns : DeleteAndNotify(n, k, oom)
    <3>1. PICK n \in NS, k \in Keys, oom \in SUBSET Conns : DeleteAndNotify(n, k, oom)
      BY <2>2
    <3>2. delete_ok(n, k) /\ edge_state_delete(n, k) /\ broadcast(n, k, Absent, oom)
          /\ Announced(n, k)
      BY <3>1 DEF DeleteAndNotify
    <3>3. /\ Current(n, k)' = Absent
          /\ \A m \in NS, l \in Keys : ~(m = n /\ l = k) => Current(m, l)' = Current(m, l)
      BY <3>2, DeleteReads
    <3>4. phantom \ {<<n, k>>} \subseteq phantom'
      BY <3>2 DEF Announced
    <3> QED
      BY <3>2, <3>3, <3>4, BroadcastConverges
  <2>3. CASE \E v \in Values, oom \in SUBSET Conns : ScrapeUp(v, oom)
    BY <2>3, WritersConverge, StateAssumption DEF ScrapeUp
  <2>4. CASE \E v \in Values, oom \in SUBSET Conns : ScrapeDown(v, oom)
    BY <2>4, ScrapeDownConverges
  <2>5. CASE \E n \in NS, k \in Keys, v \in Values : api_state_put(n, k, v)
    BY <2>5, WritersConverge
  <2>6. CASE \E n \in NS, on \in BOOLEAN : edge_state_ns_set_enabled(n, on)
    BY <2>6, EventualIsSettled, CurrentIsRead DEF edge_state_ns_set_enabled, hub, CopyConverges
  <2>7. CASE \E c \in Conns : edge_ws_hub_subscribe(c)
    BY <2>7, SubscribeConverges
  <2>8. CASE \E c \in Conns : edge_ws_hub_unsubscribe(c)
    BY <2>8, UnsubscribeConverges
  <2>9. CASE \E c \in Conns : edge_ws_hub_take_pending(c)
    BY <2>9, TakeConverges
  <2>10. CASE UNCHANGED vars
    BY <2>10, EventualIsSettled, CurrentIsRead DEF vars, store, hub, CopyConverges
  <2> QED
    BY <2>1, <2>2, <2>3, <2>4, <2>5, <2>6, <2>7, <2>8, <2>9, <2>10 DEF Next
<1> QED
  BY <1>1, <1>2, InitSound, NextSound, PTL DEF Spec

-------------------------------------------------------------------------------
(* The slot table implements a bounded map *)

AbstractKv == [n \in NS |-> Pairs(n)]

\* The pairs of a namespace whose slot e is written, in terms of the old ones.
LEMMA PairsRewritten ==
  ASSUME StoreInv, NEW n \in NS, NEW k \in Keys, NEW e \in EntrySlots, NEW E \in Entry,
         entries' = [entries EXCEPT ![n][e] = E],
         e \in find_entry(n, k) \/ (find_entry(n, k) = {} /\ e \in find_free(n))
  PROVE  /\ Pairs(n)' = {p \in Pairs(n) : p[1] # k}
                          \cup IF E.used THEN {<<E.key, E.value>>} ELSE {}
         /\ \A m \in NS : m # n => Pairs(m)' = Pairs(m)
         /\ Cardinality({p \in Pairs(n) : p[1] # k}) < MaxKeys
<1>1. StoreTyped /\ KeyOnce
  BY DEF StoreInv
<1>2. /\ \A f \in EntrySlots : f # e => entries'[n][f] = entries[n][f]
      /\ entries'[n][e] = E
      /\ \A m \in NS : m # n => entries'[m] = entries[m]
  BY <1>1 DEF StoreTyped
<1>3. \A f \in EntrySlots : entries[n][f].used => (entries[n][f].key = k <=> f = e)
  BY <1>1 DEF KeyOnce, find_entry, find_free
<1> DEFINE U == UsedSlots(n) \ {e}
           P == {p \in Pairs(n) : p[1] # k}
           pair == [f \in U |-> <<entries[n][f].key, entries[n][f].value>>]
<1>4. P = {<<entries[n][f].key, entries[n][f].value>> : f \in U}
  BY <1>3 DEF Pairs, UsedSlots
<1>5. Pairs(n)' = P \cup IF E.used THEN {<<E.key, E.value>>} ELSE {}
  <2>1. Pairs(n)' = {<<entries'[n][f].key, entries'[n][f].value>> :
                       f \in {g \in EntrySlots : entries'[n][g].used}}
    BY DEF Pairs
  <2>2. U = {f \in EntrySlots : f # e /\ entries'[n][f].used}
    BY <1>2 DEF UsedSlots
  <2>3. P = {<<entries'[n][f].key, entries'[n][f].value>> : f \in U}
    BY <1>2, <1>4 DEF UsedSlots
  <2> HIDE DEF U, P
  <2>4. CASE E.used
    <3>1. {g \in EntrySlots : entries'[n][g].used} = U \cup {e}
      BY <1>2, <2>2, <2>4
    <3> QED
      BY <1>2, <2>1, <2>3, <2>4, <3>1
  <2>5. CASE ~E.used
    <3>1. {g \in EntrySlots : entries'[n][g].used} = U
      BY <1>2, <2>2, <2>5
    <3> QED
      BY <2>1, <2>3, <2>5, <3>1
  <2> QED
    BY <2>4, <2>5
<1>6. \A m \in NS : m # n => Pairs(m)' = Pairs(m)
  BY <1>2 DEF Pairs
<1>7. Cardinality(P) < MaxKeys
  <2>1. IsFiniteSet(EntrySlots) /\ Cardinality(EntrySlots) = MaxKeys /\ MaxKeys \in Nat
        /\ MaxKeys >= 1
    BY StateAssumption, FS_Interval DEF EntrySlots
  <2>2. IsFiniteSet(EntrySlots \ {e}) /\ Cardinality(EntrySlots \ {e}) = MaxKeys - 1
    BY <2>1, FS_RemoveElement
  <2>3. U \in SUBSET (EntrySlots \ {e})
    BY DEF UsedSlots
  <2>4. IsFiniteSet(U) /\ Cardinality(U) <= MaxKeys - 1
    BY <2>2, <2>3, FS_Subset
  <2>5. pair \in Surjection(U, P)
    BY <1>4 DEF Surjection
  <2>6. IsFiniteSet(P) /\ Cardinality(P) <= Cardinality(U)
    BY <2>4, <2>5, FS_Surjection
  <2>7. Cardinality(U) \in Nat /\ Cardinality(P) \in Nat
    BY <2>4, <2>6, FS_CardinalityType
  <2> QED
    BY <2>1, <2>4, <2>6, <2>7
<1> QED
  BY <1>5, <1>6, <1>7

\* edge_state_put is the map's Put.
LEMMA PutRefines ==
  ASSUME StoreInv, NEW n \in NS, NEW k \in Keys, NEW v \in Values, put_ok(n, k),
         edge_state_put(n, k, v)
  PROVE  Kv!Next
<1> DEFINE E == [used |-> TRUE, key |-> k, value |-> v]
<1>1. PICK e \in EntrySlots :
           /\ entries' = [entries EXCEPT ![n][e] = E]
           /\ e \in find_entry(n, k) \/ (find_entry(n, k) = {} /\ e \in find_free(n))
  BY PutSlot
<1>2. E \in Entry /\ E.used /\ E.key = k /\ E.value = v
  BY DEF Entry
<1> HIDE DEF E
<1>3. /\ Pairs(n)' = {p \in Pairs(n) : p[1] # k} \cup {<<k, v>>}
      /\ \A m \in NS : m # n => Pairs(m)' = Pairs(m)
      /\ Cardinality({p \in Pairs(n) : p[1] # k}) < MaxKeys
  BY <1>1, <1>2, PairsRewritten
<1>4. Kv!Others(n, k) = {p \in Pairs(n) : p[1] # k}
  BY DEF Kv!Others
<1>5. [m \in NS |-> Pairs(m)]'
        = [[m \in NS |-> Pairs(m)] EXCEPT ![n] = Kv!Others(n, k) \cup {<<k, v>>}]
  BY <1>3, <1>4
<1>6. Kv!Cardinality(Kv!Others(n, k)) = Cardinality(Kv!Others(n, k))
  BY DEF Kv!Cardinality, Cardinality
<1>7. Kv!Put(n, k, v)
  BY <1>3, <1>4, <1>5, <1>6 DEF Kv!Put
<1> QED
  BY <1>7 DEF Kv!Next

\* edge_state_delete is the map's Delete.
LEMMA DeleteRefines ==
  ASSUME StoreInv, NEW n \in NS, NEW k \in Keys, delete_ok(n, k), edge_state_delete(n, k)
  PROVE  Kv!Next
<1>1. PICK e \in find_entry(n, k) :
           /\ e \in EntrySlots
           /\ entries' = [entries EXCEPT ![n][e] = NoEntry]
  BY DeleteSlot
<1>2. NoEntry \in Entry /\ ~NoEntry.used
  BY DEF Entry, NoEntry
<1>3. /\ Pairs(n)' = {p \in Pairs(n) : p[1] # k}
      /\ \A m \in NS : m # n => Pairs(m)' = Pairs(m)
  <2>1. /\ Pairs(n)' = {p \in Pairs(n) : p[1] # k}
                      \cup IF NoEntry.used THEN {<<NoEntry.key, NoEntry.value>>} ELSE {}
        /\ \A m \in NS : m # n => Pairs(m)' = Pairs(m)
    BY <1>1, <1>2, PairsRewritten
  <2> QED
    BY <1>2, <2>1
<1>4. Kv!Others(n, k) = {p \in Pairs(n) : p[1] # k}
  BY DEF Kv!Others
<1>5. <<entries[n][e].key, entries[n][e].value>> \in Pairs(n)
      /\ entries[n][e].key = k
  BY <1>1 DEF find_entry, Pairs
<1>6. Kv!Others(n, k) # Pairs(n)
  BY <1>4, <1>5
<1>7. [m \in NS |-> Pairs(m)]' = [[m \in NS |-> Pairs(m)] EXCEPT ![n] = Kv!Others(n, k)]
  BY <1>3, <1>4
<1>8. Kv!Delete(n, k)
  BY <1>6, <1>7 DEF Kv!Delete
<1> QED
  BY <1>8 DEF Kv!Next

\* For every capacity, the slot table of state_store.c with its linear searches and
\* reuse of entries behaves as a map of at most MaxKeys keys per namespace: every
\* step of any handler is one write of one key, one delete of one key, or nothing.
THEOREM TableImplementsMap == Spec => TableIsMap
<1>1. Init => Kv!Init
  <2> SUFFICES ASSUME Init PROVE [n \in NS |-> Pairs(n)] = [n \in NS |-> {}]
    BY DEF Kv!Init
  <2>1. \A n \in NS, e \in EntrySlots : ~entries[n][e].used
    BY DEF Init, NoEntry
  <2> QED
    BY <2>1 DEF Pairs
<1>2. StoreInv /\ [Next]_vars => [Kv!Next]_AbstractKv
  <2> SUFFICES ASSUME StoreInv, [Next]_vars PROVE Kv!Next \/ AbstractKv' = AbstractKv
    OBVIOUS
  <2>0. ASSUME entries' = entries PROVE AbstractKv' = AbstractKv
    BY <2>0 DEF AbstractKv, Pairs
  <2>1. CASE \E n \in NS, k \in Keys, v \in Values, oom \in SUBSET Conns :
               PutAndNotify(n, k, v, oom)
    BY <2>1, PutRefines DEF PutAndNotify
  <2>2. CASE \E n \in NS, k \in Keys, oom \in SUBSET Conns : DeleteAndNotify(n, k, oom)
    BY <2>2, DeleteRefines DEF DeleteAndNotify
  <2>3. CASE \E v \in Values, oom \in SUBSET Conns : ScrapeUp(v, oom)
    BY <2>3, PutRefines, StateAssumption DEF ScrapeUp, PutAndNotify
  <2>4. CASE \E v \in Values, oom \in SUBSET Conns : ScrapeDown(v, oom)
    BY <2>0, <2>4, PutRefines, StateAssumption DEF ScrapeDown, store
  <2>5. CASE \E n \in NS, k \in Keys, v \in Values : api_state_put(n, k, v)
    BY <2>5, PutRefines DEF api_state_put
  <2>6. CASE \/ \E n \in NS, on \in BOOLEAN : edge_state_ns_set_enabled(n, on)
             \/ \E c \in Conns : edge_ws_hub_subscribe(c)
             \/ \E c \in Conns : edge_ws_hub_unsubscribe(c)
             \/ \E c \in Conns : edge_ws_hub_take_pending(c)
             \/ UNCHANGED vars
    <3>1. entries' = entries
      BY <2>6 DEF edge_state_ns_set_enabled, edge_ws_hub_subscribe, edge_ws_hub_unsubscribe,
                  edge_ws_hub_take_pending, vars, store
    <3> QED
      BY <2>0, <3>1
  <2> QED
    BY <2>1, <2>2, <2>3, <2>4, <2>5, <2>6 DEF Next
<1> QED
  BY <1>1, <1>2, InitSound, NextSound, PTL DEF Spec, TableIsMap, Kv!Spec, AbstractKv
===============================================================================
