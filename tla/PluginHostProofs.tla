--------------------------- MODULE PluginHostProofs ----------------------------
(***************************************************************************)
(* Theorems about PluginHost for every capacity of the pending table,      *)
(* every set of inbound slots and every limit of openai_proxy.             *)
(***************************************************************************)
EXTENDS PluginHost, FiniteSetTheorems, WellFoundedInduction, TLAPS

HostRecord == [slots : [TableSlots -> Entry], count : Nat, next : Nat \ {0}, last : Nat,
               started : BOOLEAN]
UsedIn(g) == {k \in TableSlots : g.slots[k].used}
Filled(i, o, p) == [used |-> TRUE, inbound |-> i, outbound |-> o, plugin |-> p]

\* The pending table of a host record is sound: types, count, entries with ids the
\* host has handed out, and no two entries with the same key.
TableInv(g) ==
  /\ g \in HostRecord
  /\ g.next <= MaxOut + 1
  /\ g.count = Cardinality(UsedIn(g))
  /\ \A k \in UsedIn(g) : /\ g.slots[k].inbound \in Inbounds
                          /\ g.slots[k].outbound \in 1 .. g.next - 1
                          /\ g.slots[k].plugin \in Plugins
  /\ \A k, m \in UsedIn(g) : k # m =>
       /\ g.slots[k].inbound # g.slots[m].inbound
       /\ g.slots[k].outbound # g.slots[m].outbound

\* The types of the variables other than the host record.
Typed ==
  /\ parking \in BOOLEAN
  /\ in_flight \in Nat
  /\ hit_n \in 0 .. Rpm
  /\ conn \in [Inbounds -> {"idle", "parked"}]
  /\ upstream \subseteq Outbound
  /\ fate \in [Outbound -> {"unused", "pending", "completed", "cancelled", "stray",
                            "dropped"}]
  /\ strays \subseteq Inbounds
  /\ unfinished \in Nat

\* What the history says of ids and entries: an id not handed out is unused, an
\* exchange under way is pending or cancelled, an entry is pending with its exchange
\* under way or is the stray one of a slot whose plugin did not wait, and every such
\* slot has one.
FateInv ==
  /\ \A o \in Outbound : o >= h.next => fate[o] = "unused"
  /\ \A o \in upstream : o < h.next /\ fate[o] \in {"pending", "cancelled"}
  /\ \A k \in Used :
       \/ fate[h.slots[k].outbound] = "pending" /\ h.slots[k].outbound \in upstream
       \/ /\ fate[h.slots[k].outbound] = "stray"
          /\ h.slots[k].inbound \in strays /\ h.slots[k].outbound \notin upstream
  /\ \A i \in strays : \E k \in Used : h.slots[k].inbound = i
                                       /\ fate[h.slots[k].outbound] = "stray"

IInv == TableInv(h) /\ Typed /\ FateInv /\ ParkedHasEntry /\ InFlightAccounted
        /\ SyncLeavesNoEntry

-------------------------------------------------------------------------------
(* pending_table.c *)

\* A non-empty set of slots has a first member: the linear searches of
\* pending_table.c return a slot of the set they search.
LEMMA FirstIsMember ==
  ASSUME NEW S, S \subseteq TableSlots, S # {}
  PROVE  First(S) \in S
<1>1. S \subseteq Nat
  BY PluginAssumption DEF TableSlots
<1>2. PICK x \in S : \A y \in S : ~(<<y, x>> \in OpToRel(<, Nat))
  BY <1>1, NatLessThanWellFounded, WFMin
<1>3. OpToRel(<, Nat) = {ss \in Nat \X Nat : ss[1] < ss[2]}
  BY DEF OpToRel
<1>4. \A y \in S : x <= y
  <2> TAKE y \in S
  <2>1. ~(<<y, x>> \in {ss \in Nat \X Nat : ss[1] < ss[2]})
    BY <1>2, <1>3
  <2>2. x \in Nat /\ y \in Nat
    BY <1>1
  <2> QED
    BY <2>1, <2>2
<1> QED
  BY <1>4 DEF First

\* The used slots are finitely many; a count below the capacity means a vacant slot.
LEMMA UsedFinite ==
  ASSUME NEW g
  PROVE  /\ IsFiniteSet(UsedIn(g)) /\ Cardinality(UsedIn(g)) \in Nat
         /\ Cardinality(UsedIn(g)) < Cap => Vacant(g) # {}
<1>1. Cap \in Nat /\ Cap >= 1
  BY PluginAssumption
<1>2. IsFiniteSet(TableSlots) /\ Cardinality(TableSlots) = Cap
  BY <1>1, FS_Interval DEF TableSlots
<1>3. UsedIn(g) \in SUBSET TableSlots
  BY DEF UsedIn
<1>4. IsFiniteSet(UsedIn(g))
  BY <1>2, <1>3, FS_Subset
<1>5. Cardinality(UsedIn(g)) \in Nat
  BY <1>4, FS_CardinalityType
<1>6. Vacant(g) = {} => UsedIn(g) = TableSlots
  BY DEF Vacant, UsedIn
<1> QED
  BY <1>1, <1>2, <1>4, <1>5, <1>6

\* An entry for a connection slot, an id and a plugin is well-typed.
LEMMA FilledTyped ==
  ASSUME NEW i \in Inbounds, NEW o \in Outbound, NEW p \in Plugins
  PROVE  /\ Filled(i, o, p) \in Entry
         /\ Filled(i, o, p).used /\ Filled(i, o, p).inbound = i
         /\ Filled(i, o, p).outbound = o /\ Filled(i, o, p).plugin = p
<1>1. o \in 0 .. MaxOut
  BY PluginAssumption DEF Outbound
<1> QED
  BY <1>1 DEF Filled, Entry

LEMMA UnusedTyped == Unused \in Entry /\ ~Unused.used
<1>1. 0 \in 0 .. MaxOut
  BY PluginAssumption
<1> QED
  BY <1>1 DEF Unused, Entry

\* Host records with the same fields are the same.
LEMMA SameHost ==
  ASSUME NEW r \in HostRecord, NEW s \in HostRecord, r.slots = s.slots, r.count = s.count,
         r.next = s.next, r.last = s.last, r.started = s.started
  PROVE  r = s
BY DEF HostRecord

\* The host record with an entry for a new id in slot v.
Grown(g, v, i, p) ==
  [slots |-> [g.slots EXCEPT ![v] = Filled(i, g.next, p)], count |-> g.count + 1,
   next |-> g.next + 1, last |-> g.next, started |-> TRUE]

\* Filling a vacant slot keeps the table sound.
LEMMA GrownSound ==
  ASSUME NEW g, TableInv(g), NEW i \in Inbounds, NEW p \in Plugins, g.next <= MaxOut,
         edge_pending_find_inbound(g, i) = {}, NEW v \in Vacant(g)
  PROVE  /\ TableInv(Grown(g, v, i, p))
         /\ v \in TableSlots /\ v \notin UsedIn(g)
         /\ UsedIn(Grown(g, v, i, p)) = UsedIn(g) \cup {v}
         /\ Grown(g, v, i, p).slots[v] = Filled(i, g.next, p)
         /\ \A k \in TableSlots : k # v => Grown(g, v, i, p).slots[k] = g.slots[k]
<1> DEFINE E == Filled(i, g.next, p)
           n == Grown(g, v, i, p)
<1>1. /\ g \in HostRecord
      /\ g.slots \in [TableSlots -> Entry] /\ g.count \in Nat /\ g.next \in Nat /\ g.next # 0
      /\ g.count = Cardinality(UsedIn(g))
  BY DEF TableInv, HostRecord
<1>2. v \in TableSlots /\ v \notin UsedIn(g)
  BY DEF Vacant, UsedIn
<1>3. g.next \in Outbound
  BY <1>1, PluginAssumption DEF Outbound
<1>4. E \in Entry /\ E.used /\ E.inbound = i /\ E.outbound = g.next /\ E.plugin = p
  BY <1>3, FilledTyped
<1>5. /\ n.slots = [g.slots EXCEPT ![v] = E] /\ n.count = g.count + 1
      /\ n.next = g.next + 1 /\ n.last = g.next /\ n.started
  BY DEF Grown
<1> HIDE DEF E
<1>6. n.slots \in [TableSlots -> Entry]
  BY <1>1, <1>4, <1>5
<1>7. n \in HostRecord
  <2>1. n = [slots |-> [g.slots EXCEPT ![v] = E], count |-> g.count + 1,
             next |-> g.next + 1, last |-> g.next, started |-> TRUE]
    BY DEF Grown, E
  <2>2. g.count + 1 \in Nat /\ g.next + 1 \in Nat \ {0} /\ g.next \in Nat
    BY <1>1
  <2>3. [g.slots EXCEPT ![v] = E] \in [TableSlots -> Entry]
    BY <1>1, <1>4
  <2> HIDE DEF n
  <2> QED
    BY <2>1, <2>2, <2>3 DEF HostRecord
<1> HIDE DEF n
<1>8. n.slots[v] = E /\ \A k \in TableSlots : k # v => n.slots[k] = g.slots[k]
  BY <1>1, <1>2, <1>5
<1>9. UsedIn(n) = UsedIn(g) \cup {v}
  BY <1>2, <1>4, <1>8 DEF UsedIn
<1>10. n.count = Cardinality(UsedIn(n))
  <2>1. Cardinality(UsedIn(g) \cup {v}) = Cardinality(UsedIn(g)) + 1
    BY <1>2, UsedFinite, FS_AddElement
  <2> QED
    BY <1>1, <1>5, <1>9, <2>1
<1>11. n.next <= MaxOut + 1
  BY <1>1, <1>5, PluginAssumption
<1>12. \A k \in UsedIn(n) : /\ n.slots[k].inbound \in Inbounds
                            /\ n.slots[k].outbound \in 1 .. n.next - 1
                            /\ n.slots[k].plugin \in Plugins
  <2> TAKE k \in UsedIn(n)
  <2>1. CASE k = v
    BY <1>1, <1>4, <1>5, <1>8, <2>1
  <2>2. CASE k # v
    <3>1. k \in UsedIn(g) /\ n.slots[k] = g.slots[k]
      BY <1>8, <1>9, <2>2 DEF UsedIn
    <3>2. g.slots[k].inbound \in Inbounds /\ g.slots[k].outbound \in 1 .. g.next - 1
          /\ g.slots[k].plugin \in Plugins
      BY <3>1 DEF TableInv
    <3>3. g.slots[k].outbound \in 1 .. n.next - 1
      BY <1>1, <1>5, <3>2
    <3> QED
      BY <3>1, <3>2, <3>3
  <2> QED
    BY <2>1, <2>2
<1>13. ASSUME NEW k \in UsedIn(g)
       PROVE  g.slots[k].inbound # i /\ g.slots[k].outbound # g.next
  <2>1. g.slots[k].outbound \in 1 .. g.next - 1
    BY <1>13 DEF TableInv
  <2>2. g.slots[k].outbound # g.next
    BY <1>1, <2>1
  <2> QED
    BY <1>13, <2>2 DEF UsedIn, edge_pending_find_inbound
<1>14. \A k, m \in UsedIn(n) : k # m =>
         /\ n.slots[k].inbound # n.slots[m].inbound
         /\ n.slots[k].outbound # n.slots[m].outbound
  <2> TAKE k, m \in UsedIn(n)
  <2> HAVE k # m
  <2>1. CASE k = v
    <3>1. m \in UsedIn(g) /\ n.slots[m] = g.slots[m]
      BY <1>8, <1>9, <2>1 DEF UsedIn
    <3> QED
      BY <1>4, <1>8, <1>13, <2>1, <3>1
  <2>2. CASE m = v
    <3>1. k \in UsedIn(g) /\ n.slots[k] = g.slots[k]
      BY <1>8, <1>9, <2>2 DEF UsedIn
    <3> QED
      BY <1>4, <1>8, <1>13, <2>2, <3>1
  <2>3. CASE k # v /\ m # v
    <3>1. /\ k \in UsedIn(g) /\ n.slots[k] = g.slots[k]
          /\ m \in UsedIn(g) /\ n.slots[m] = g.slots[m]
      BY <1>8, <1>9, <2>3 DEF UsedIn
    <3> QED
      BY <3>1 DEF TableInv
  <2> QED
    BY <2>1, <2>2, <2>3
<1>15. TableInv(n)
  BY <1>7, <1>10, <1>11, <1>12, <1>14 DEF TableInv
<1> QED
  BY <1>2, <1>8, <1>9, <1>15 DEF n, E

\* The host record with slot k emptied.
Shrunk(g, k) ==
  [slots |-> [g.slots EXCEPT ![k] = Unused], count |-> g.count - 1, next |-> g.next,
   last |-> g.last, started |-> g.started]

\* edge_pending_release of a used entry empties its slot and keeps the table sound.
LEMMA ReleaseSound ==
  ASSUME NEW g, TableInv(g), NEW k \in UsedIn(g)
  PROVE  /\ edge_pending_release(g, {k}) = Shrunk(g, k)
         /\ TableInv(Shrunk(g, k))
         /\ UsedIn(Shrunk(g, k)) = UsedIn(g) \ {k}
         /\ \A m \in TableSlots : m # k => Shrunk(g, k).slots[m] = g.slots[m]
<1> DEFINE n == Shrunk(g, k)
<1>1. /\ g \in HostRecord
      /\ g.slots \in [TableSlots -> Entry] /\ g.count \in Nat /\ g.next \in Nat \ {0}
      /\ g.last \in Nat /\ g.started \in BOOLEAN
      /\ g.count = Cardinality(UsedIn(g)) /\ k \in TableSlots
  BY DEF TableInv, HostRecord, UsedIn
<1>2. g.count > 0
  <2>1. g.count # 0
    BY <1>1, UsedFinite, FS_EmptySet
  <2> QED
    BY <1>1, <2>1
<1>3. First({k}) = k
  BY <1>1, FirstIsMember
<1>4. /\ n.slots = [g.slots EXCEPT ![k] = Unused] /\ n.count = g.count - 1
      /\ n.next = g.next /\ n.last = g.last /\ n.started = g.started
  BY DEF Shrunk
<1>5. n \in HostRecord
  <2>1. g.count - 1 \in Nat
    BY <1>1, <1>2
  <2>2. [g.slots EXCEPT ![k] = Unused] \in [TableSlots -> Entry]
    BY <1>1, UnusedTyped
  <2> QED
    BY <1>1, <2>1, <2>2 DEF HostRecord, Shrunk
<1>6. edge_pending_release(g, {k}) = n
  <2> DEFINE r == [g EXCEPT !.slots[k] = Unused, !.count = @ - 1]
  <2>1. edge_pending_release(g, {k}) = r
    BY <1>2, <1>3 DEF edge_pending_release
  <2>2. g.count - 1 \in Nat
    BY <1>1, <1>2
  <2>3. r \in HostRecord
    BY <1>1, <2>2, UnusedTyped DEF HostRecord
  <2>4. /\ r.slots = [g.slots EXCEPT ![k] = Unused] /\ r.count = g.count - 1
        /\ r.next = g.next /\ r.last = g.last /\ r.started = g.started
    BY <1>1 DEF HostRecord
  <2> HIDE DEF r, n
  <2> QED
    BY <1>4, <1>5, <2>1, <2>3, <2>4, SameHost
<1> HIDE DEF n
<1>7. n.slots[k] = Unused /\ \A m \in TableSlots : m # k => n.slots[m] = g.slots[m]
  BY <1>1, <1>4
<1>8. UsedIn(n) = UsedIn(g) \ {k}
  BY <1>7, UnusedTyped DEF UsedIn
<1>9. n.count = Cardinality(UsedIn(n))
  BY <1>1, <1>4, <1>8, UsedFinite, FS_RemoveElement
<1>10. \A m \in UsedIn(n) : m \in UsedIn(g) /\ n.slots[m] = g.slots[m]
  BY <1>7, <1>8 DEF UsedIn
<1>11. TableInv(n)
  BY <1>4, <1>5, <1>9, <1>10 DEF TableInv
<1> QED
  BY <1>6, <1>7, <1>8, <1>11 DEF n

-------------------------------------------------------------------------------
(* on_http *)

\* dispatch_http clears client_req_started and nothing else.
LEMMA EnteredSound ==
  ASSUME TableInv(h)
  PROVE  /\ TableInv(Entered) /\ UsedIn(Entered) = UsedIn(h)
         /\ Entered.slots = h.slots /\ Entered.count = h.count /\ Entered.next = h.next
         /\ Entered.last = h.last /\ ~Entered.started
<1>1. h \in HostRecord
  BY DEF TableInv
<1>2. /\ Entered \in HostRecord
      /\ Entered.slots = h.slots /\ Entered.count = h.count /\ Entered.next = h.next
      /\ Entered.last = h.last /\ Entered.started = FALSE
  BY <1>1 DEF Entered, HostRecord
<1>3. UsedIn(Entered) = UsedIn(h)
  BY <1>2 DEF UsedIn
<1> QED
  BY <1>2, <1>3 DEF TableInv

\* api_http_client_request on a slot without an entry: it is refused when the table
\* is full, and otherwise fills one vacant slot with the next id.
LEMMA RequestSound ==
  ASSUME TableInv(h), NEW i \in Inbounds, NEW p \in Plugins, h.next <= MaxOut,
         edge_pending_find_inbound(h, i) = {}
  PROVE  \/ /\ edge_pending_full(Entered)
            /\ api_http_client_request(Entered, i, p) = Entered
         \/ \E v \in Vacant(h) : api_http_client_request(Entered, i, p) = Grown(h, v, i, p)
<1> DEFINE g == Entered
           v == First(Vacant(g))
           m == edge_pending_insert(g, i, g.next, p)
<1>1. /\ TableInv(g) /\ g.slots = h.slots /\ g.count = h.count /\ g.next = h.next
      /\ ~g.started
  BY EnteredSound
<1>2. g \in HostRecord /\ g.count = Cardinality(UsedIn(g)) /\ g.next \in Nat /\ g.next # 0
      /\ g.count \in Nat
  BY <1>1 DEF TableInv, HostRecord
<1>3. edge_pending_find_inbound(g, i) = {} /\ Vacant(g) = Vacant(h)
  BY <1>1 DEF edge_pending_find_inbound, Vacant
<1> HIDE DEF g
<1>4. CASE edge_pending_full(g)
  BY <1>4 DEF api_http_client_request, g
<1>5. CASE ~edge_pending_full(g)
  <2>1. Vacant(g) # {}
    BY <1>2, <1>5, UsedFinite, PluginAssumption DEF edge_pending_full
  <2>2. v \in Vacant(g) /\ v \in TableSlots
    BY <2>1, FirstIsMember DEF Vacant
  <2>3. edge_pending_find_outbound(g, g.next) = {}
    <3> SUFFICES ASSUME NEW k \in UsedIn(g) PROVE g.slots[k].outbound # g.next
      BY DEF edge_pending_find_outbound, UsedIn
    <3>1. g.slots[k].outbound \in 1 .. g.next - 1
      BY <1>1 DEF TableInv
    <3> QED
      BY <1>2, <3>1
  <2>4. Insertable(g, i, g.next)
    BY <1>2, <1>3, <1>5, <2>1, <2>3 DEF Insertable
  <2>5. api_http_client_request(g, i, p)
          = [m EXCEPT !.next = @ + 1, !.started = TRUE, !.last = g.next]
    BY <1>1, <1>3, <1>5, <2>4 DEF api_http_client_request
  <2>6. g.next \in Outbound
    BY <1>1, <1>2, PluginAssumption DEF Outbound
  <2>7. Filled(i, g.next, p) \in Entry
    BY <2>6, FilledTyped
  <2>8. m = [g EXCEPT !.slots[v] = Filled(i, g.next, p), !.count = @ + 1]
    BY DEF edge_pending_insert, Filled
  <2>9. g.count + 1 \in Nat
    BY <1>2
  <2> HIDE DEF v, m
  <2>10. /\ m \in HostRecord
         /\ m.slots = [g.slots EXCEPT ![v] = Filled(i, g.next, p)] /\ m.count = g.count + 1
         /\ m.next = g.next /\ m.last = g.last
    BY <1>2, <2>2, <2>7, <2>8, <2>9 DEF HostRecord
  <2> DEFINE r == [m EXCEPT !.next = @ + 1, !.started = TRUE, !.last = g.next]
  <2>11. g.next + 1 \in Nat \ {0}
    BY <1>2
  <2>12. /\ r \in HostRecord
         /\ r.slots = m.slots /\ r.count = m.count /\ r.next = g.next + 1
         /\ r.last = g.next /\ r.started = TRUE
    BY <1>2, <2>10, <2>11 DEF HostRecord
  <2> HIDE DEF r
  <2>13. /\ Grown(h, v, i, p) \in HostRecord
         /\ Grown(h, v, i, p).slots = [h.slots EXCEPT ![v] = Filled(i, h.next, p)]
         /\ Grown(h, v, i, p).count = h.count + 1 /\ Grown(h, v, i, p).next = h.next + 1
         /\ Grown(h, v, i, p).last = h.next /\ Grown(h, v, i, p).started = TRUE
    <3>1. TableInv(Grown(h, v, i, p))
      BY <1>3, <2>2, GrownSound
    <3> QED
      BY <3>1 DEF TableInv, Grown
  <2>14. r = Grown(h, v, i, p)
    <3> DEFINE n == Grown(h, v, i, p)
    <3> HIDE DEF n
    <3>1. r.slots = n.slots
      BY <1>1, <2>10, <2>12, <2>13 DEF n
    <3>2. r.count = n.count /\ r.next = n.next /\ r.last = n.last /\ r.started = n.started
      BY <1>1, <2>10, <2>12, <2>13 DEF n
    <3>3. r \in HostRecord /\ n \in HostRecord
      BY <2>12, <2>13 DEF n
    <3>4. r = n
      BY <3>1, <3>2, <3>3, SameHost
    <3> QED
      BY <3>4 DEF n
  <2>15. api_http_client_request(g, i, p) = r
    BY <2>5 DEF r
  <2>16. api_http_client_request(g, i, p) = Grown(h, v, i, p)
    BY <2>14, <2>15
  <2> QED
    BY <1>3, <2>2, <2>16 DEF g
<1> QED
  BY <1>4, <1>5

\* The host as either kind of plugin leaves it on a slot without an entry: as it
\* was entered, or with one new entry.  AfterOnHttp finds nothing to release.
LEMMA OnHttpSound ==
  ASSUME TableInv(h), NEW i \in Inbounds, h.next <= MaxOut,
         edge_pending_find_inbound(h, i) = {}
  PROVE  /\ \A roll, has_key \in BOOLEAN :
              \/ openai_on_http(i, roll, has_key) = Entered
              \/ \E v \in Vacant(h) : openai_on_http(i, roll, has_key) = Grown(h, v, i, "openai")
         /\ \A st : AfterOnHttp(Entered, i, st) = Entered
         /\ \A st, p : \A v \in Vacant(h) :
              AfterOnHttp(Grown(h, v, i, p), i, st) = Grown(h, v, i, p)
<1>1. "openai" \in Plugins
  BY DEF Plugins
<1>2. Entered.slots = h.slots /\ ~Entered.started
  BY EnteredSound
<1>3. edge_pending_find_inbound(Entered, i) = {}
  BY <1>2 DEF edge_pending_find_inbound
<1>4. \A st : AfterOnHttp(Entered, i, st) = Entered
  BY <1>3 DEF AfterOnHttp, edge_pending_release
<1>5. \A p, v : Grown(h, v, i, p).started
  BY DEF Grown
<1> QED
  BY <1>1, <1>4, <1>5, RequestSound DEF openai_on_http, AfterOnHttp

\* A plugin that makes up to two requests: the second one never adds an entry.
LEMMA OtherSound ==
  ASSUME TableInv(h), NEW i \in Inbounds, h.next <= MaxOut, NEW calls \in 0 .. 2,
         edge_pending_find_inbound(h, i) = {}
  PROVE  LET g1 == IF calls >= 1 THEN api_http_client_request(Entered, i, "other")
                   ELSE Entered
             g == IF calls >= 2 THEN api_http_client_request(g1, i, "other") ELSE g1
         IN  g = Entered \/ \E v \in Vacant(h) : g = Grown(h, v, i, "other")
<1> DEFINE g1 == IF calls >= 1 THEN api_http_client_request(Entered, i, "other") ELSE Entered
           g == IF calls >= 2 THEN api_http_client_request(g1, i, "other") ELSE g1
<1>1. "other" \in Plugins
  BY DEF Plugins
<1>2. \/ /\ edge_pending_full(Entered)
         /\ api_http_client_request(Entered, i, "other") = Entered
      \/ \E v \in Vacant(h) : api_http_client_request(Entered, i, "other")
                                = Grown(h, v, i, "other")
  BY <1>1, RequestSound
<1>3. \A v : api_http_client_request(Grown(h, v, i, "other"), i, "other")
               = Grown(h, v, i, "other")
  BY DEF api_http_client_request, Grown
<1>4. calls >= 2 => calls >= 1
  OBVIOUS
<1> QED
  BY <1>2, <1>3, <1>4

-------------------------------------------------------------------------------
(* The three ways a step changes the host record *)

Openai == {k \in Used : h.slots[k].plugin = "openai"}

LEMMA UsedFacts ==
  /\ Used = UsedIn(h) /\ Used' = UsedIn(h')
  /\ IsFiniteSet(Used) /\ IsFiniteSet(Openai) /\ Cardinality(Openai) \in Nat
  /\ TableInv(h) => \A k \in Used : /\ k \in TableSlots
                                    /\ h.slots[k].outbound \in Outbound
                                    /\ h.slots[k].outbound < h.next
                                    /\ h.slots[k].inbound \in Inbounds
<1>1. Used = UsedIn(h) /\ Used' = UsedIn(h')
  BY DEF Used, UsedIn
<1>2. IsFiniteSet(Used)
  BY <1>1, UsedFinite
<1>3. Openai \in SUBSET Used
  BY DEF Openai
<1>4. IsFiniteSet(Openai)
  BY <1>2, <1>3, FS_Subset
<1>5. Cardinality(Openai) \in Nat
  BY <1>4, FS_CardinalityType
<1>6. ASSUME TableInv(h), NEW k \in Used
      PROVE  /\ k \in TableSlots /\ h.slots[k].outbound \in Outbound
             /\ h.slots[k].outbound < h.next /\ h.slots[k].inbound \in Inbounds
  <2>1. h.slots[k].outbound \in 1 .. h.next - 1 /\ h.slots[k].inbound \in Inbounds
        /\ h.next \in Nat /\ h.next <= MaxOut + 1
    BY <1>1, <1>6 DEF TableInv, HostRecord
  <2>2. k \in TableSlots
    BY <1>6 DEF Used
  <2> QED
    BY <2>1, <2>2, PluginAssumption DEF Outbound
<1> QED
  BY <1>1, <1>2, <1>4, <1>5, <1>6

\* A new entry.
LEMMA GrowFacts ==
  ASSUME TableInv(h), NEW i \in Inbounds, NEW p \in Plugins, h.next <= MaxOut,
         edge_pending_find_inbound(h, i) = {}, NEW v \in Vacant(h), h' = Grown(h, v, i, p)
  PROVE  /\ TableInv(h') /\ h.next \in Outbound /\ v \in TableSlots /\ v \notin Used
         /\ Used' = Used \cup {v}
         /\ h'.slots[v].inbound = i /\ h'.slots[v].outbound = h.next /\ h'.slots[v].plugin = p
         /\ \A k \in Used : h'.slots[k] = h.slots[k]
         /\ h'.next = h.next + 1 /\ h'.last = h.next /\ h'.started
         /\ edge_pending_find_inbound(h', i) # {}
         /\ \A j : j # i => edge_pending_find_inbound(h', j) = edge_pending_find_inbound(h, j)
         /\ Cardinality(Openai') = Cardinality(Openai) + IF p = "openai" THEN 1 ELSE 0
<1>1. /\ TableInv(h') /\ v \in TableSlots /\ v \notin UsedIn(h)
      /\ UsedIn(h') = UsedIn(h) \cup {v} /\ h'.slots[v] = Filled(i, h.next, p)
      /\ \A k \in TableSlots : k # v => h'.slots[k] = h.slots[k]
  BY GrownSound
<1>2. Used = UsedIn(h) /\ Used' = UsedIn(h') /\ Used \subseteq TableSlots
  BY UsedFacts DEF Used
<1>3. h.next \in Outbound
  BY PluginAssumption DEF TableInv, HostRecord, Outbound
<1>4. /\ h'.slots[v].inbound = i /\ h'.slots[v].outbound = h.next /\ h'.slots[v].plugin = p
      /\ h'.slots[v].used
  BY <1>1, <1>3, FilledTyped
<1>5. \A k \in Used : h'.slots[k] = h.slots[k]
  BY <1>1, <1>2
<1>6. h'.next = h.next + 1 /\ h'.last = h.next /\ h'.started
  BY DEF Grown
<1>7. v \in edge_pending_find_inbound(h', i)
  BY <1>1, <1>4 DEF edge_pending_find_inbound
<1>8. \A j : j # i => edge_pending_find_inbound(h', j) = edge_pending_find_inbound(h, j)
  BY <1>1, <1>4 DEF edge_pending_find_inbound, UsedIn
<1>9. Openai' = IF p = "openai" THEN Openai \cup {v} ELSE Openai
  BY <1>1, <1>2, <1>4, <1>5 DEF Openai
<1>10. v \notin Openai
  BY <1>1, <1>2 DEF Openai
<1>11. Cardinality(Openai') = Cardinality(Openai) + IF p = "openai" THEN 1 ELSE 0
  <2>1. Cardinality(Openai \cup {v}) = Cardinality(Openai) + 1
    BY <1>10, UsedFacts, FS_AddElement
  <2>2. Cardinality(Openai) + 0 = Cardinality(Openai)
    BY UsedFacts
  <2> QED
    BY <1>9, <2>1, <2>2
<1> QED
  BY <1>1, <1>2, <1>3, <1>4, <1>5, <1>6, <1>7, <1>8, <1>11

\* A released entry, found by its inbound slot or its outbound id.
LEMMA ShrinkFacts ==
  ASSUME TableInv(h), NEW k \in Used,
         h' = edge_pending_release(h, edge_pending_find_inbound(h, h.slots[k].inbound))
         \/ h' = edge_pending_release(h, edge_pending_find_outbound(h, h.slots[k].outbound))
  PROVE  /\ TableInv(h') /\ Used' = Used \ {k}
         /\ \A m \in Used' : h'.slots[m] = h.slots[m]
         /\ h'.next = h.next /\ h'.last = h.last /\ h'.started = h.started
         /\ edge_pending_find_inbound(h, h.slots[k].inbound) = {k}
         /\ edge_pending_find_outbound(h, h.slots[k].outbound) = {k}
         /\ edge_pending_find_inbound(h', h.slots[k].inbound) = {}
         /\ \A j : j # h.slots[k].inbound =>
              edge_pending_find_inbound(h', j) = edge_pending_find_inbound(h, j)
         /\ Cardinality(Openai')
              = Cardinality(Openai) - IF h.slots[k].plugin = "openai" THEN 1 ELSE 0
<1>1. Used = UsedIn(h) /\ Used' = UsedIn(h') /\ k \in TableSlots
  BY UsedFacts
<1>2. /\ edge_pending_find_inbound(h, h.slots[k].inbound) = {k}
      /\ edge_pending_find_outbound(h, h.slots[k].outbound) = {k}
  BY <1>1 DEF TableInv, UsedIn, edge_pending_find_inbound, edge_pending_find_outbound
<1>3. h' = Shrunk(h, k)
  BY <1>1, <1>2, ReleaseSound
<1>4. /\ TableInv(h') /\ UsedIn(h') = UsedIn(h) \ {k}
      /\ \A m \in TableSlots : m # k => h'.slots[m] = h.slots[m]
  BY <1>1, <1>3, ReleaseSound
<1>5. h'.next = h.next /\ h'.last = h.last /\ h'.started = h.started
  BY <1>3 DEF Shrunk
<1>6. \A m \in Used' : h'.slots[m] = h.slots[m] /\ m \in TableSlots
  BY <1>1, <1>4 DEF UsedIn
<1>7. \A j : edge_pending_find_inbound(h', j) = edge_pending_find_inbound(h, j) \ {k}
  BY <1>1, <1>4, <1>6 DEF edge_pending_find_inbound, UsedIn
<1>8. \A j : j # h.slots[k].inbound => k \notin edge_pending_find_inbound(h, j)
  BY DEF edge_pending_find_inbound
<1>9. Openai' = Openai \ {k}
  BY <1>1, <1>4, <1>6 DEF Openai
<1>10. k \in Openai <=> h.slots[k].plugin = "openai"
  BY DEF Openai
<1>11. Cardinality(Openai \ {k}) = IF k \in Openai THEN Cardinality(Openai) - 1
                                   ELSE Cardinality(Openai)
  BY UsedFacts, FS_RemoveElement
<1>12. Cardinality(Openai')
              = Cardinality(Openai) - IF h.slots[k].plugin = "openai" THEN 1 ELSE 0
  <2>1. Cardinality(Openai) - 0 = Cardinality(Openai)
    BY UsedFacts
  <2> QED
    BY <1>9, <1>10, <1>11, <2>1
<1> QED
  BY <1>1, <1>2, <1>4, <1>5, <1>6, <1>7, <1>8, <1>12

\* A dispatch that added nothing.
LEMMA SameFacts ==
  ASSUME TableInv(h), h' = Entered \/ h' = h
  PROVE  /\ TableInv(h') /\ Used' = Used /\ h'.slots = h.slots /\ h'.next = h.next
         /\ h'.count = h.count /\ Openai' = Openai
         /\ \A j : edge_pending_find_inbound(h', j) = edge_pending_find_inbound(h, j)
<1>1. TableInv(h') /\ h'.slots = h.slots /\ h'.next = h.next /\ h'.count = h.count
  BY EnteredSound
<1> QED
  BY <1>1 DEF Used, Openai, edge_pending_find_inbound

-------------------------------------------------------------------------------
(* The actions *)

\* No settled exchange changes its fate in this step.
FateKept == \A o \in Outbound : fate[o] \in Settled => fate'[o] = fate[o]

\* Connection i waits for the result of exchange o, which is under way.
Awaits(i, o) ==
  /\ conn[i] = "parked" /\ o \in upstream /\ fate[o] = "pending"
  /\ \E k \in Used : h.slots[k].inbound = i /\ h.slots[k].outbound = o

\* In this step every wait goes on, or ends with its own result or its client leaving.
WaitKept ==
  \A i \in Inbounds, o \in Outbound : Awaits(i, o) =>
    \/ Awaits(i, o)'
    \/ conn'[i] = "idle" /\ (complete_outbound(o) \/ cancel_inbound(i))

\* A wait goes on while its entry, its exchange and its connection stay.
LEMMA WaitStays ==
  ASSUME NEW i \in Inbounds, NEW o \in Outbound, NEW k \in Used,
         h.slots[k].inbound = i, h.slots[k].outbound = o,
         k \in Used', h'.slots[k] = h.slots[k],
         conn'[i] = "parked", o \in upstream', fate'[o] = "pending"
  PROVE  Awaits(i, o)'
BY DEF Awaits

LEMMA InFlightIs == InFlightAccounted <=> in_flight = unfinished + Cardinality(Openai)
BY DEF InFlightAccounted, Openai

LEMMA HitsTyped ==
  ASSUME hit_n \in 0 .. Rpm, NEW roll \in BOOLEAN
  PROVE  Hits(roll) \in 0 .. Rpm
BY PluginAssumption DEF Hits, rate_limit_ok

\* A step that adds no entry and moves no exchange keeps everything.
LEMMA NothingStep ==
  ASSUME IInv, h' = Entered \/ h' = h, hit_n' \in 0 .. Rpm,
         UNCHANGED <<parking, in_flight, conn, upstream, fate, strays, unfinished>>
  PROVE  IInv' /\ FateKept /\ WaitKept
<1>1. TableInv(h) /\ Typed /\ FateInv /\ ParkedHasEntry /\ InFlightAccounted
      /\ SyncLeavesNoEntry
  BY DEF IInv
<1>2. /\ TableInv(h') /\ Used' = Used /\ h'.slots = h.slots /\ h'.next = h.next
      /\ h'.count = h.count /\ Openai' = Openai
      /\ \A j : edge_pending_find_inbound(h', j) = edge_pending_find_inbound(h, j)
  BY <1>1, SameFacts
<1>3. Typed'
  BY <1>1 DEF Typed
<1>4. FateInv'
  BY <1>1, <1>2 DEF FateInv
<1>5. ParkedHasEntry'
  BY <1>1, <1>2 DEF ParkedHasEntry
<1>6. InFlightAccounted'
  BY <1>1, <1>2 DEF InFlightAccounted, Openai
<1>7. SyncLeavesNoEntry'
  BY <1>1, <1>2 DEF SyncLeavesNoEntry
<1>8. WaitKept
  BY <1>2 DEF WaitKept, Awaits
<1> QED
  BY <1>2, <1>3, <1>4, <1>5, <1>6, <1>7, <1>8 DEF IInv, FateKept

\* An entry is made and its plugin waits: the connection is parked and the exchange
\* starts.
LEMMA ParkStep ==
  ASSUME IInv, parking, NEW i \in Inbounds, NEW p \in Plugins, NEW v \in Vacant(h),
         conn[i] = "idle", edge_pending_find_inbound(h, i) = {}, h.next <= MaxOut,
         h' = Grown(h, v, i, p), hit_n' \in 0 .. Rpm,
         conn' = [conn EXCEPT ![i] = "parked"],
         upstream' = upstream \cup {h.next},
         fate' = [o \in Outbound |-> IF o = h.next THEN "pending" ELSE fate[o]],
         in_flight' = in_flight + IF p = "openai" THEN 1 ELSE 0,
         UNCHANGED <<parking, strays, unfinished>>
  PROVE  IInv' /\ FateKept /\ WaitKept
<1>1. TableInv(h) /\ Typed /\ FateInv /\ ParkedHasEntry /\ InFlightAccounted
  BY DEF IInv
<1>2. /\ TableInv(h') /\ h.next \in Outbound /\ v \notin Used /\ Used' = Used \cup {v}
      /\ h'.slots[v].inbound = i /\ h'.slots[v].outbound = h.next
      /\ \A k \in Used : h'.slots[k] = h.slots[k]
      /\ h'.next = h.next + 1
      /\ edge_pending_find_inbound(h', i) # {}
      /\ \A j : j # i => edge_pending_find_inbound(h', j) = edge_pending_find_inbound(h, j)
      /\ Cardinality(Openai') = Cardinality(Openai) + IF p = "openai" THEN 1 ELSE 0
  BY <1>1, GrowFacts
<1>3. /\ \A k \in Used : h.slots[k].outbound \in Outbound /\ h.slots[k].outbound < h.next
      /\ Cardinality(Openai) \in Nat
  BY <1>1, UsedFacts
<1>4. h.next \in Nat
  BY <1>1 DEF TableInv, HostRecord
<1>5. fate'[h.next] = "pending" /\ \A o \in Outbound : o # h.next => fate'[o] = fate[o]
  BY <1>2
<1>6. fate[h.next] = "unused"
  BY <1>1, <1>2, <1>4 DEF FateInv
<1>7. Typed'
  <2>1. in_flight' \in Nat
    BY <1>1 DEF Typed
  <2>2. conn' \in [Inbounds -> {"idle", "parked"}]
    BY <1>1 DEF Typed
  <2>3. fate' \in [Outbound -> {"unused", "pending", "completed", "cancelled", "stray",
                                "dropped"}]
    BY <1>1 DEF Typed
  <2> QED
    BY <1>1, <1>2, <2>1, <2>2, <2>3 DEF Typed
<1>8. FateInv'
  <2>1. \A o \in Outbound : o >= h'.next => fate'[o] = "unused"
    <3> SUFFICES ASSUME NEW o \in Outbound, o >= h.next + 1 PROVE fate'[o] = "unused"
      BY <1>2
    <3>1. o \in Nat
      BY DEF Outbound
    <3>2. o >= h.next /\ o # h.next
      BY <1>4, <3>1
    <3> QED
      BY <1>1, <1>5, <3>2 DEF FateInv
  <2>2. \A o \in upstream' : o < h'.next /\ fate'[o] \in {"pending", "cancelled"}
    <3> TAKE o \in upstream'
    <3>1. CASE o = h.next
      BY <1>2, <1>4, <1>5, <3>1
    <3>2. CASE o # h.next
      <4>1. o \in upstream /\ o \in Outbound
        BY <1>1, <3>2 DEF Typed
      <4>2. o < h.next /\ fate[o] \in {"pending", "cancelled"} /\ o \in Nat
        BY <1>1, <4>1 DEF FateInv, Outbound
      <4>3. o < h.next + 1
        BY <1>4, <4>2
      <4> QED
        BY <1>2, <1>5, <3>2, <4>1, <4>2, <4>3
    <3> QED
      BY <3>1, <3>2
  <2>3. \A k \in Used : /\ h'.slots[k] = h.slots[k] /\ h.slots[k].outbound # h.next
                        /\ fate'[h.slots[k].outbound] = fate[h.slots[k].outbound]
    <3> TAKE k \in Used
    <3>1. h.slots[k].outbound # h.next
      BY <1>3, <1>4 DEF Outbound
    <3> QED
      BY <1>2, <1>3, <1>5, <3>1
  <2>4. \A k \in Used' :
          \/ fate'[h'.slots[k].outbound] = "pending" /\ h'.slots[k].outbound \in upstream'
          \/ /\ fate'[h'.slots[k].outbound] = "stray"
             /\ h'.slots[k].inbound \in strays' /\ h'.slots[k].outbound \notin upstream'
    <3> TAKE k \in Used'
    <3>1. CASE k = v
      BY <1>2, <1>5, <3>1
    <3>2. CASE k # v
      <4>1. k \in Used
        BY <1>2, <3>2
      <4> QED
        BY <1>1, <2>3, <4>1 DEF FateInv
    <3> QED
      BY <3>1, <3>2
  <2>5. \A j \in strays' : \E k \in Used' : h'.slots[k].inbound = j
                                            /\ fate'[h'.slots[k].outbound] = "stray"
    <3> TAKE j \in strays'
    <3>1. PICK k \in Used : h.slots[k].inbound = j /\ fate[h.slots[k].outbound] = "stray"
      BY <1>1 DEF FateInv
    <3> QED
      BY <1>2, <2>3, <3>1
  <2> QED
    BY <2>1, <2>2, <2>4, <2>5 DEF FateInv
<1>9. ParkedHasEntry'
  <2>1. i \notin strays
    <3> SUFFICES ASSUME i \in strays PROVE FALSE
      OBVIOUS
    <3>1. PICK k \in Used : h.slots[k].inbound = i
      BY <1>1 DEF FateInv
    <3> QED
      BY <3>1 DEF Used, edge_pending_find_inbound
  <2>2. \A j \in Inbounds : conn'[j] = IF j = i THEN "parked" ELSE conn[j]
    BY <1>1 DEF Typed
  <2> QED
    BY <1>1, <1>2, <2>1, <2>2 DEF ParkedHasEntry
<1>10. InFlightAccounted'
  <2>1. in_flight = unfinished + Cardinality(Openai)
    BY <1>1, InFlightIs
  <2>2. in_flight' = unfinished' + Cardinality(Openai')
    BY <1>1, <1>2, <1>3, <2>1 DEF Typed
  <2> QED
    BY <2>2 DEF InFlightAccounted, Openai
<1>11. SyncLeavesNoEntry'
  BY DEF SyncLeavesNoEntry
<1>12. FateKept
  BY <1>5, <1>6 DEF FateKept, Settled
<1>13. WaitKept
  <2> SUFFICES ASSUME NEW j \in Inbounds, NEW o \in Outbound, Awaits(j, o) PROVE Awaits(j, o)'
    BY DEF WaitKept
  <2>1. PICK k \in Used : h.slots[k].inbound = j /\ h.slots[k].outbound = o
    BY DEF Awaits
  <2>2. conn'[j] = "parked"
    BY <1>1 DEF Awaits, Typed
  <2>3. o \in upstream' /\ fate'[o] = "pending"
    BY <1>5 DEF Awaits
  <2> QED
    BY <1>2, <2>1, <2>2, <2>3, WaitStays
<1> QED
  BY <1>2, <1>7, <1>8, <1>9, <1>10, <1>11, <1>12, <1>13 DEF IInv

\* An entry is made and its plugin answers without waiting: the entry is stray.
LEMMA StrayStep ==
  ASSUME IInv, parking, NEW i \in Inbounds, NEW v \in Vacant(h),
         conn[i] = "idle", edge_pending_find_inbound(h, i) = {}, h.next <= MaxOut,
         h' = Grown(h, v, i, "other"),
         fate' = [o \in Outbound |-> IF o = h.next THEN "stray" ELSE fate[o]],
         strays' = strays \cup {i},
         UNCHANGED <<parking, in_flight, hit_n, conn, upstream, unfinished>>
  PROVE  IInv' /\ FateKept /\ WaitKept
<1>1. TableInv(h) /\ Typed /\ FateInv /\ ParkedHasEntry /\ InFlightAccounted
  BY DEF IInv
<1>2. /\ TableInv(h') /\ h.next \in Outbound /\ v \notin Used /\ Used' = Used \cup {v}
      /\ h'.slots[v].inbound = i /\ h'.slots[v].outbound = h.next
      /\ \A k \in Used : h'.slots[k] = h.slots[k]
      /\ h'.next = h.next + 1
      /\ \A j : j # i => edge_pending_find_inbound(h', j) = edge_pending_find_inbound(h, j)
      /\ Cardinality(Openai') = Cardinality(Openai) + 0
  <2>1. "other" \in Plugins /\ "other" # "openai"
    BY DEF Plugins
  <2> QED
    BY <1>1, <2>1, GrowFacts
<1>3. /\ \A k \in Used : h.slots[k].outbound \in Outbound /\ h.slots[k].outbound < h.next
      /\ Cardinality(Openai) \in Nat
  BY <1>1, UsedFacts
<1>4. h.next \in Nat
  BY <1>1 DEF TableInv, HostRecord
<1>5. fate'[h.next] = "stray" /\ \A o \in Outbound : o # h.next => fate'[o] = fate[o]
  BY <1>2
<1>6. fate[h.next] = "unused"
  BY <1>1, <1>2, <1>4 DEF FateInv
<1>7. Typed'
  <2>1. fate' \in [Outbound -> {"unused", "pending", "completed", "cancelled", "stray",
                                "dropped"}]
    BY <1>1 DEF Typed
  <2> QED
    BY <1>1, <2>1 DEF Typed
<1>8. \A o \in upstream : o # h.next /\ o \in Outbound /\ o < h.next
      /\ fate[o] \in {"pending", "cancelled"} /\ o < h.next + 1
  <2> TAKE o \in upstream
  <2>1. o \in Outbound /\ o \in Nat /\ o < h.next /\ fate[o] \in {"pending", "cancelled"}
    BY <1>1 DEF FateInv, Typed, Outbound
  <2> QED
    BY <1>4, <2>1
<1>9. FateInv'
  <2>1. \A o \in Outbound : o >= h'.next => fate'[o] = "unused"
    <3> SUFFICES ASSUME NEW o \in Outbound, o >= h.next + 1 PROVE fate'[o] = "unused"
      BY <1>2
    <3>1. o \in Nat
      BY DEF Outbound
    <3>2. o >= h.next /\ o # h.next
      BY <1>4, <3>1
    <3> QED
      BY <1>1, <1>5, <3>2 DEF FateInv
  <2>2. \A o \in upstream' : o < h'.next /\ fate'[o] \in {"pending", "cancelled"}
    BY <1>2, <1>5, <1>8
  <2>3. \A k \in Used : /\ h'.slots[k] = h.slots[k] /\ h.slots[k].outbound # h.next
                        /\ fate'[h.slots[k].outbound] = fate[h.slots[k].outbound]
    <3> TAKE k \in Used
    <3>1. h.slots[k].outbound # h.next
      BY <1>3, <1>4 DEF Outbound
    <3> QED
      BY <1>2, <1>3, <1>5, <3>1
  <2>4. \A k \in Used' :
          \/ fate'[h'.slots[k].outbound] = "pending" /\ h'.slots[k].outbound \in upstream'
          \/ /\ fate'[h'.slots[k].outbound] = "stray"
             /\ h'.slots[k].inbound \in strays' /\ h'.slots[k].outbound \notin upstream'
    <3> TAKE k \in Used'
    <3>1. CASE k = v
      BY <1>2, <1>5, <1>8, <3>1
    <3>2. CASE k # v
      <4>1. k \in Used
        BY <1>2, <3>2
      <4> QED
        BY <1>1, <2>3, <4>1 DEF FateInv
    <3> QED
      BY <3>1, <3>2
  <2>5. \A j \in strays' : \E k \in Used' : h'.slots[k].inbound = j
                                            /\ fate'[h'.slots[k].outbound] = "stray"
    <3> TAKE j \in strays'
    <3>1. CASE j = i
      BY <1>2, <1>5, <3>1
    <3>2. CASE j # i
      <4>1. PICK k \in Used : h.slots[k].inbound = j /\ fate[h.slots[k].outbound] = "stray"
        BY <1>1, <3>2 DEF FateInv
      <4> QED
        BY <1>2, <2>3, <4>1
    <3> QED
      BY <3>1, <3>2
  <2> QED
    BY <2>1, <2>2, <2>4, <2>5 DEF FateInv
<1>10. ParkedHasEntry'
  <2> SUFFICES ASSUME NEW j \in Inbounds
               PROVE  /\ conn[j] = "parked" =>
                           edge_pending_find_inbound(h', j) # {} /\ j \notin strays'
                      /\ edge_pending_find_inbound(h', j) # {} =>
                           conn[j] = "parked" \/ j \in strays'
    BY DEF ParkedHasEntry
  <2>1. CASE j = i
    BY <2>1
  <2>2. CASE j # i
    BY <1>1, <1>2, <2>2 DEF ParkedHasEntry
  <2> QED
    BY <2>1, <2>2
<1>11. InFlightAccounted'
  <2>1. in_flight' = unfinished' + Cardinality(Openai')
    BY <1>1, <1>2, <1>3, InFlightIs DEF Typed
  <2> QED
    BY <2>1 DEF InFlightAccounted, Openai
<1>12. SyncLeavesNoEntry' /\ FateKept
  BY <1>5, <1>6 DEF SyncLeavesNoEntry, FateKept, Settled
<1>13. WaitKept
  <2> SUFFICES ASSUME NEW j \in Inbounds, NEW o \in Outbound, Awaits(j, o) PROVE Awaits(j, o)'
    BY DEF WaitKept
  <2>1. PICK k \in Used : h.slots[k].inbound = j /\ h.slots[k].outbound = o
    BY DEF Awaits
  <2>2. conn'[j] = "parked" /\ o \in upstream'
    BY DEF Awaits
  <2>3. fate'[o] = "pending"
    BY <1>5, <1>6 DEF Awaits
  <2> QED
    BY <1>2, <2>1, <2>2, <2>3, WaitStays
<1> QED
  BY <1>2, <1>7, <1>9, <1>10, <1>11, <1>12, <1>13 DEF IInv

\* An entry that is not stray is released; its exchange is settled as f.
LEMMA ReleaseFate ==
  ASSUME IInv, NEW k \in Used, fate[h.slots[k].outbound] = "pending",
         TableInv(h'), Used' = Used \ {k}, \A m \in Used' : h'.slots[m] = h.slots[m],
         h'.next = h.next, upstream' \subseteq upstream,
         upstream \ {h.slots[k].outbound} \subseteq upstream',
         h.slots[k].outbound \in upstream' => fate'[h.slots[k].outbound] = "cancelled",
         fate'[h.slots[k].outbound] \in Settled,
         \A o \in Outbound : o # h.slots[k].outbound => fate'[o] = fate[o],
         strays' = strays
  PROVE  FateInv' /\ FateKept
<1> DEFINE x == h.slots[k].outbound
<1>1. TableInv(h) /\ Typed /\ FateInv
  BY DEF IInv
<1>2. /\ \A m \in Used : h.slots[m].outbound \in Outbound /\ h.slots[m].outbound < h.next
      /\ Used = UsedIn(h)
  BY <1>1, UsedFacts
<1>3. \A m \in Used' : m \in Used /\ h.slots[m].outbound # x /\ h'.slots[m] = h.slots[m]
                       /\ fate'[h.slots[m].outbound] = fate[h.slots[m].outbound]
  <2> TAKE m \in Used'
  <2>1. m \in Used /\ m # k
    OBVIOUS
  <2>2. h.slots[m].outbound # x
    BY <1>1, <1>2, <2>1 DEF TableInv
  <2> QED
    BY <1>2, <2>1, <2>2
<1>4. x \in Outbound /\ x < h.next /\ h.next \in Nat
  BY <1>1, <1>2 DEF TableInv, HostRecord
<1>5. \A o \in Outbound : o >= h'.next => fate'[o] = "unused"
  <2> SUFFICES ASSUME NEW o \in Outbound, o >= h.next PROVE fate'[o] = "unused"
    OBVIOUS
  <2>1. o # x
    BY <1>4 DEF Outbound
  <2> QED
    BY <1>1, <2>1 DEF FateInv
<1>6. \A o \in upstream' : o < h'.next /\ fate'[o] \in {"pending", "cancelled"}
  <2> TAKE o \in upstream'
  <2>1. o \in upstream /\ o \in Outbound /\ o < h.next /\ fate[o] \in {"pending", "cancelled"}
    BY <1>1 DEF FateInv, Typed
  <2>2. CASE o = x
    BY <2>1, <2>2
  <2>3. CASE o # x
    BY <2>1, <2>3
  <2> QED
    BY <2>2, <2>3
<1>7. \A m \in Used' :
          \/ fate'[h'.slots[m].outbound] = "pending" /\ h'.slots[m].outbound \in upstream'
          \/ /\ fate'[h'.slots[m].outbound] = "stray"
             /\ h'.slots[m].inbound \in strays' /\ h'.slots[m].outbound \notin upstream'
  BY <1>1, <1>3 DEF FateInv
<1>8. \A j \in strays' : \E m \in Used' : h'.slots[m].inbound = j
                                          /\ fate'[h'.slots[m].outbound] = "stray"
  <2> TAKE j \in strays'
  <2>1. PICK m \in Used : h.slots[m].inbound = j /\ fate[h.slots[m].outbound] = "stray"
    BY <1>1 DEF FateInv
  <2>2. m # k
    BY <2>1
  <2> QED
    BY <1>3, <2>1, <2>2
<1>9. FateInv'
  BY <1>5, <1>6, <1>7, <1>8 DEF FateInv
<1>10. FateKept
  BY DEF FateKept, Settled
<1> QED
  BY <1>9, <1>10

\* A result that is refused or handed to on_http_complete.
LEMMA CompleteStep ==
  ASSUME IInv, NEW o \in Outbound, complete_outbound(o)
  PROVE  IInv' /\ FateKept /\ WaitKept
<1>1. /\ TableInv(h) /\ Typed /\ FateInv /\ ParkedHasEntry /\ InFlightAccounted
      /\ SyncLeavesNoEntry
  BY DEF IInv
<1>2. /\ parking /\ o \in upstream /\ upstream' = upstream \ {o}
      /\ UNCHANGED <<parking, hit_n, strays, unfinished>>
  BY DEF complete_outbound
<1> DEFINE found == edge_pending_find_outbound(h, o)
           k == First(found)
           e == h.slots[k]
<1>3. CASE found = {}
  <2>1. UNCHANGED <<h, in_flight, conn, fate>>
    BY <1>3 DEF complete_outbound
  <2>2. TableInv(h') /\ Used' = Used
    BY <1>1, <2>1 DEF Used
  <2>3. \A m \in Used : h.slots[m].outbound # o
    BY <1>3 DEF Used, edge_pending_find_outbound
  <2>4. Typed'
    BY <1>1, <1>2, <2>1 DEF Typed
  <2>5. FateInv'
    BY <1>1, <1>2, <2>1, <2>2, <2>3 DEF FateInv
  <2>6. ParkedHasEntry' /\ InFlightAccounted' /\ SyncLeavesNoEntry' /\ FateKept
    BY <1>1, <1>2, <2>1, <2>2 DEF ParkedHasEntry, InFlightAccounted, SyncLeavesNoEntry,
       FateKept
  <2>7. WaitKept
    <3> SUFFICES ASSUME NEW j \in Inbounds, NEW x \in Outbound, Awaits(j, x)
                 PROVE  Awaits(j, x)'
      BY DEF WaitKept
    <3>1. PICK m \in Used : h.slots[m].inbound = j /\ h.slots[m].outbound = x
      BY DEF Awaits
    <3>2. x # o
      BY <1>3, <2>3, <3>1
    <3>3. conn'[j] = "parked" /\ x \in upstream' /\ fate'[x] = "pending"
      BY <1>2, <2>1, <3>2 DEF Awaits
    <3>4. m \in Used' /\ h'.slots[m] = h.slots[m]
      BY <2>1, <2>2
    <3> QED
      BY <3>1, <3>3, <3>4, WaitStays
  <2> QED
    BY <2>2, <2>4, <2>5, <2>6, <2>7 DEF IInv
<1>4. CASE found # {}
  <2>1. /\ h' = edge_pending_release(h, found)
        /\ in_flight' = IF e.plugin = "openai" THEN InFlightAfterComplete(in_flight)
                        ELSE in_flight
        /\ conn' = [conn EXCEPT ![e.inbound] = "idle"]
        /\ fate' = [fate EXCEPT ![o] = "completed"]
    BY <1>4 DEF complete_outbound
  <2>2. k \in found
    BY <1>4, FirstIsMember DEF edge_pending_find_outbound
  <2>3. k \in Used /\ h.slots[k].outbound = o
    BY <2>2 DEF Used, edge_pending_find_outbound
  <2> HIDE DEF k
  <2>4. fate[o] = "pending"
    BY <1>1, <1>2, <2>3 DEF FateInv
  <2>5. /\ TableInv(h') /\ Used' = Used \ {k} /\ \A m \in Used' : h'.slots[m] = h.slots[m]
        /\ h'.next = h.next
        /\ edge_pending_find_inbound(h', e.inbound) = {}
        /\ \A j : j # e.inbound =>
             edge_pending_find_inbound(h', j) = edge_pending_find_inbound(h, j)
        /\ Cardinality(Openai') = Cardinality(Openai) - IF e.plugin = "openai" THEN 1 ELSE 0
    BY <1>1, <2>1, <2>3, ShrinkFacts
  <2>6. fate'[o] = "completed" /\ \A x \in Outbound : x # o => fate'[x] = fate[x]
    BY <1>1, <2>1 DEF Typed
  <2>7. FateInv' /\ FateKept
    <3>1. o \notin upstream' /\ fate'[o] \in Settled
      BY <1>2, <2>6 DEF Settled
    <3> QED
      BY <1>2, <2>3, <2>4, <2>5, <2>6, <3>1, ReleaseFate
  <2>8. e.inbound \in Inbounds /\ Cardinality(Openai) \in Nat /\ IsFiniteSet(Openai)
    BY <1>1, <2>3, UsedFacts
  <2>9. in_flight = unfinished + Cardinality(Openai) /\ in_flight \in Nat
        /\ unfinished \in Nat
    BY <1>1, InFlightIs DEF Typed
  <2>10. e.plugin = "openai" => Cardinality(Openai) > 0
    <3>1. e.plugin = "openai" => Openai # {}
      BY <2>3 DEF Openai
    <3>2. Openai # {} => Cardinality(Openai) # 0
      BY <2>8, FS_EmptySet
    <3> QED
      BY <2>8, <3>1, <3>2
  <2>11. in_flight' = in_flight - IF e.plugin = "openai" THEN 1 ELSE 0
    BY <2>1, <2>8, <2>9, <2>10 DEF InFlightAfterComplete
  <2>12. in_flight' \in Nat /\ in_flight' = unfinished' + Cardinality(Openai')
    BY <1>2, <2>5, <2>8, <2>9, <2>10, <2>11
  <2>13. InFlightAccounted'
    BY <2>12 DEF InFlightAccounted, Openai
  <2>14. Typed'
    <3>1. conn' \in [Inbounds -> {"idle", "parked"}]
      BY <1>1, <2>1 DEF Typed
    <3>2. fate' \in [Outbound -> {"unused", "pending", "completed", "cancelled", "stray",
                                  "dropped"}]
      BY <1>1, <2>1 DEF Typed
    <3> QED
      BY <1>1, <1>2, <2>12, <3>1, <3>2 DEF Typed
  <2>15. ParkedHasEntry'
    <3>1. \A j \in Inbounds : conn'[j] = IF j = e.inbound THEN "idle" ELSE conn[j]
      BY <1>1, <2>1 DEF Typed
    <3> QED
      BY <1>1, <1>2, <2>5, <3>1 DEF ParkedHasEntry
  <2>16. SyncLeavesNoEntry'
    BY <1>2 DEF SyncLeavesNoEntry
  <2>17. WaitKept
    <3> SUFFICES ASSUME NEW j \in Inbounds, NEW x \in Outbound, Awaits(j, x)
                 PROVE  Awaits(j, x)' \/ (conn'[j] = "idle" /\ complete_outbound(x))
      BY DEF WaitKept
    <3>1. PICK m \in Used : h.slots[m].inbound = j /\ h.slots[m].outbound = x
      BY DEF Awaits
    <3>2. conn'[j] = IF j = e.inbound THEN "idle" ELSE conn[j]
      BY <1>1, <2>1 DEF Typed
    <3>3. CASE m = k
      BY <2>3, <3>1, <3>2, <3>3
    <3>4. CASE m # k
      <4>1. x # o /\ j # e.inbound
        BY <1>1, <2>3, <3>1, <3>4, UsedFacts DEF TableInv
      <4>2. conn'[j] = "parked" /\ x \in upstream' /\ fate'[x] = "pending"
        BY <1>2, <2>6, <3>2, <4>1 DEF Awaits
      <4>3. m \in Used' /\ h'.slots[m] = h.slots[m]
        BY <2>5, <3>4
      <4> QED
        BY <3>1, <4>2, <4>3, WaitStays
    <3> QED
      BY <3>3, <3>4
  <2> QED
    BY <2>5, <2>7, <2>13, <2>14, <2>15, <2>16, <2>17 DEF IInv
<1> QED
  BY <1>3, <1>4

\* A client that goes away.
LEMMA CancelStep ==
  ASSUME IInv, NEW i \in Inbounds, cancel_inbound(i)
  PROVE  IInv' /\ FateKept /\ WaitKept
<1>1. TableInv(h) /\ Typed /\ FateInv /\ ParkedHasEntry /\ InFlightAccounted
  BY DEF IInv
<1> DEFINE found == edge_pending_find_inbound(h, i)
<1>2. /\ parking /\ conn[i] = "parked"
      /\ h' = edge_pending_release(h, found)
      /\ fate' = [o \in Outbound |-> IF \E m \in found : h.slots[m].outbound = o
                                     THEN "cancelled" ELSE fate[o]]
      /\ conn' = [conn EXCEPT ![i] = "idle"]
      /\ unfinished' = unfinished + Cardinality({m \in found : h.slots[m].plugin = "openai"})
      /\ UNCHANGED <<parking, in_flight, hit_n, upstream, strays>>
  BY DEF cancel_inbound
<1>3. found # {} /\ i \notin strays
  BY <1>1, <1>2 DEF ParkedHasEntry
<1>4. PICK k \in found : TRUE
  BY <1>3
<1>5. k \in Used /\ h.slots[k].inbound = i
  BY <1>4 DEF Used, edge_pending_find_inbound
<1>6. /\ TableInv(h') /\ Used' = Used \ {k} /\ \A m \in Used' : h'.slots[m] = h.slots[m]
      /\ h'.next = h.next
      /\ found = {k}
      /\ edge_pending_find_inbound(h', i) = {}
      /\ \A j : j # i => edge_pending_find_inbound(h', j) = edge_pending_find_inbound(h, j)
      /\ Cardinality(Openai')
           = Cardinality(Openai) - IF h.slots[k].plugin = "openai" THEN 1 ELSE 0
  BY <1>1, <1>2, <1>5, ShrinkFacts
<1>7. /\ h.slots[k].outbound \in Outbound
      /\ Cardinality(Openai) \in Nat /\ IsFiniteSet(Openai)
  BY <1>1, <1>5, UsedFacts
<1>8. fate[h.slots[k].outbound] = "pending"
  BY <1>1, <1>3, <1>5 DEF FateInv
<1>9. /\ fate'[h.slots[k].outbound] = "cancelled"
      /\ \A o \in Outbound : o # h.slots[k].outbound => fate'[o] = fate[o]
  BY <1>2, <1>6, <1>7
<1>10. FateInv' /\ FateKept
  <2>1. fate'[h.slots[k].outbound] \in Settled
    BY <1>9 DEF Settled
  <2>2. upstream' = upstream /\ strays' = strays
    BY <1>2
  <2> QED
    BY <1>5, <1>6, <1>8, <1>9, <2>1, <2>2, ReleaseFate
<1>11. Cardinality({m \in found : h.slots[m].plugin = "openai"})
         = IF h.slots[k].plugin = "openai" THEN 1 ELSE 0
  <2>1. {m \in found : h.slots[m].plugin = "openai"}
          = IF h.slots[k].plugin = "openai" THEN {k} ELSE {}
    BY <1>6
  <2> QED
    BY <2>1, FS_EmptySet, FS_Singleton
<1>12. in_flight = unfinished + Cardinality(Openai) /\ unfinished \in Nat
  BY <1>1, InFlightIs DEF Typed
<1>13. InFlightAccounted' /\ unfinished' \in Nat
  <2>1. in_flight' = unfinished' + Cardinality(Openai') /\ unfinished' \in Nat
    BY <1>2, <1>6, <1>7, <1>11, <1>12
  <2> QED
    BY <2>1 DEF InFlightAccounted, Openai
<1>14. Typed'
  <2>1. conn' \in [Inbounds -> {"idle", "parked"}]
    BY <1>1, <1>2 DEF Typed
  <2>2. fate' \in [Outbound -> {"unused", "pending", "completed", "cancelled", "stray",
                                "dropped"}]
    BY <1>1, <1>2 DEF Typed
  <2> QED
    BY <1>1, <1>2, <1>13, <2>1, <2>2 DEF Typed
<1>15. ParkedHasEntry'
  <2>1. \A j \in Inbounds : conn'[j] = IF j = i THEN "idle" ELSE conn[j]
    BY <1>1, <1>2 DEF Typed
  <2>2. strays' = strays
    BY <1>2
  <2> SUFFICES ASSUME NEW j \in Inbounds
               PROVE  /\ conn'[j] = "parked" =>
                           edge_pending_find_inbound(h', j) # {} /\ j \notin strays
                      /\ edge_pending_find_inbound(h', j) # {} =>
                           conn'[j] = "parked" \/ j \in strays
    BY <2>2 DEF ParkedHasEntry
  <2>3. CASE j = i
    BY <1>6, <2>1, <2>3
  <2>4. CASE j # i
    BY <1>1, <1>6, <2>1, <2>4 DEF ParkedHasEntry
  <2> QED
    BY <2>3, <2>4
<1>16. SyncLeavesNoEntry'
  BY <1>2 DEF SyncLeavesNoEntry
<1>17. WaitKept
  <2> SUFFICES ASSUME NEW j \in Inbounds, NEW x \in Outbound, Awaits(j, x)
               PROVE  Awaits(j, x)' \/ (conn'[j] = "idle" /\ cancel_inbound(j))
    BY DEF WaitKept
  <2>1. PICK m \in Used : h.slots[m].inbound = j /\ h.slots[m].outbound = x
    BY DEF Awaits
  <2>2. conn'[j] = IF j = i THEN "idle" ELSE conn[j]
    BY <1>1, <1>2 DEF Typed
  <2>3. CASE j = i
    BY <2>2, <2>3
  <2>4. CASE j # i
    <3>1. m # k
      BY <1>5, <2>1, <2>4
    <3>2. x # h.slots[k].outbound
      BY <1>1, <1>5, <2>1, <3>1, UsedFacts DEF TableInv
    <3>3. conn'[j] = "parked" /\ x \in upstream' /\ fate'[x] = "pending"
      BY <1>2, <1>9, <2>2, <2>4, <3>2 DEF Awaits
    <3>4. m \in Used' /\ h'.slots[m] = h.slots[m]
      BY <1>6, <3>1
    <3> QED
      BY <2>1, <3>3, <3>4, WaitStays
  <2> QED
    BY <2>3, <2>4
<1> QED
  BY <1>6, <1>10, <1>13, <1>14, <1>15, <1>16, <1>17 DEF IInv

\* A request of the shipped server: its entry comes and goes within the step.
LEMMA ServeStep ==
  ASSUME IInv, NEW i \in Inbounds, NEW roll \in BOOLEAN, NEW has_key \in BOOLEAN,
         NEW oom \in BOOLEAN, ServeV1(i, roll, has_key, oom)
  PROVE  IInv' /\ FateKept /\ WaitKept
<1> DEFINE g == openai_on_http(i, roll, has_key)
<1>1. /\ TableInv(h) /\ Typed /\ FateInv /\ ParkedHasEntry /\ InFlightAccounted
      /\ SyncLeavesNoEntry
  BY DEF IInv
<1>2. ~parking /\ h.next <= MaxOut /\ UNCHANGED <<parking, conn, upstream, strays>>
  BY DEF ServeV1
<1>3. Used = {}
  BY <1>1, <1>2 DEF SyncLeavesNoEntry
<1>4. \A j : edge_pending_find_inbound(h, j) = {}
  BY <1>3 DEF Used, edge_pending_find_inbound
<1>5. /\ hit_n' = Hits(roll)
      /\ h' = IF g.started THEN finish_pending_sync(g, oom) ELSE g
      /\ in_flight' = IF ~g.started THEN in_flight
                      ELSE IF oom THEN in_flight + 1 ELSE InFlightAfterComplete(in_flight + 1)
      /\ unfinished' = IF g.started /\ oom THEN unfinished + 1 ELSE unfinished
      /\ fate' = [o \in Outbound |-> IF Started(g, o) THEN IF oom THEN "dropped" ELSE "completed"
                                     ELSE fate[o]]
  BY <1>4 DEF ServeV1
<1>6. hit_n' \in 0 .. Rpm
  BY <1>1, <1>5, HitsTyped DEF Typed
<1>7. CASE g = Entered
  <2>1. ~g.started
    BY <1>1, <1>7, EnteredSound
  <2> HIDE DEF g
  <2>2. fate' = [o \in Outbound |-> fate[o]]
    BY <1>5, <2>1 DEF Started
  <2>3. fate' = fate
    BY <1>1, <2>2 DEF Typed
  <2>4. h' = Entered /\ in_flight' = in_flight /\ unfinished' = unfinished
    BY <1>5, <1>7, <2>1
  <2> QED
    BY <1>2, <1>6, <2>3, <2>4, NothingStep
<1>8. CASE \E v \in Vacant(h) : g = Grown(h, v, i, "openai")
  <2>1. PICK v \in Vacant(h) : g = Grown(h, v, i, "openai")
    BY <1>8
  <2> HIDE DEF g
  <2>2. "openai" \in Plugins
    BY DEF Plugins
  <2>3. /\ TableInv(g) /\ v \in TableSlots /\ UsedIn(g) = UsedIn(h) \cup {v}
        /\ g.slots[v] = Filled(i, h.next, "openai")
    BY <1>1, <1>2, <1>4, <2>1, <2>2, GrownSound
  <2>4. UsedIn(g) = {v}
    BY <1>3, <2>3, UsedFacts
  <2>5. g.last = h.next /\ g.next = h.next + 1 /\ g.started
    BY <2>1 DEF Grown
  <2>6. h.next \in Outbound /\ h.next \in Nat
    BY <1>1, <1>2, PluginAssumption DEF TableInv, HostRecord, Outbound
  <2>7. g.slots[v].outbound = h.next /\ g.slots[v].used
    BY <2>2, <2>3, <2>6, FilledTyped
  <2>8. edge_pending_find_outbound(g, g.last) = {v}
    BY <2>3, <2>4, <2>5, <2>7 DEF edge_pending_find_outbound, UsedIn
  <2>9. h' = Shrunk(g, v) /\ TableInv(h') /\ UsedIn(h') = {}
    BY <1>5, <2>3, <2>4, <2>5, <2>8, ReleaseSound DEF finish_pending_sync
  <2>10. Used' = {} /\ h'.next = h.next + 1
    BY <2>5, <2>9, UsedFacts DEF Shrunk
  <2>11. h'.count = 0
    BY <2>9, FS_EmptySet DEF TableInv
  <2>12. /\ fate'[h.next] = IF oom THEN "dropped" ELSE "completed"
         /\ \A o \in Outbound : o # h.next => fate'[o] = fate[o]
    BY <1>5, <2>5, <2>6 DEF Started
  <2>13. fate[h.next] = "unused"
    BY <1>1, <2>6 DEF FateInv
  <2>14. in_flight \in Nat /\ unfinished \in Nat
    BY <1>1 DEF Typed
  <2>15. /\ in_flight' = in_flight + IF oom THEN 1 ELSE 0
         /\ unfinished' = unfinished + IF oom THEN 1 ELSE 0
         /\ in_flight' \in Nat /\ unfinished' \in Nat
    BY <1>5, <2>5, <2>14 DEF InFlightAfterComplete
  <2>16. Typed'
    <3>1. fate' \in [Outbound -> {"unused", "pending", "completed", "cancelled", "stray",
                                  "dropped"}]
      BY <1>1, <1>5 DEF Typed
    <3> QED
      BY <1>1, <1>2, <1>6, <2>15, <3>1 DEF Typed
  <2>17. FateInv'
    <3>1. \A o \in Outbound : o >= h'.next => fate'[o] = "unused"
      <4> SUFFICES ASSUME NEW o \in Outbound, o >= h.next + 1 PROVE fate'[o] = "unused"
        BY <2>10
      <4>1. o \in Nat
        BY DEF Outbound
      <4>2. o >= h.next /\ o # h.next
        BY <2>6, <4>1
      <4> QED
        BY <1>1, <2>12, <4>2 DEF FateInv
    <3>2. \A o \in upstream' : o < h'.next /\ fate'[o] \in {"pending", "cancelled"}
      <4> TAKE o \in upstream'
      <4>1. o \in Outbound /\ o \in Nat /\ o < h.next /\ fate[o] \in {"pending", "cancelled"}
        BY <1>1, <1>2 DEF FateInv, Typed, Outbound
      <4>2. o < h.next + 1 /\ o # h.next
        BY <2>6, <4>1
      <4> QED
        BY <2>10, <2>12, <4>1, <4>2
    <3>3. strays' = {}
      BY <1>1, <1>2, <1>3 DEF FateInv
    <3> QED
      BY <2>10, <3>1, <3>2, <3>3 DEF FateInv
  <2>18. ParkedHasEntry'
    <3>1. \A j : edge_pending_find_inbound(h', j) = {}
      BY <2>10 DEF Used, edge_pending_find_inbound
    <3>2. \A j \in Inbounds : conn[j] # "parked"
      BY <1>1, <1>4 DEF ParkedHasEntry
    <3> QED
      BY <1>2, <3>1, <3>2 DEF ParkedHasEntry
  <2>19. InFlightAccounted'
    <3>1. Openai = {} /\ {k \in Used : h.slots[k].plugin = "openai"}' = {}
      BY <1>3, <2>10 DEF Openai
    <3>2. in_flight = unfinished + 0
      BY <1>1, <3>1, InFlightIs, FS_EmptySet
    <3>3. in_flight' = unfinished' + 0
      BY <2>14, <2>15, <3>2
    <3> QED
      BY <3>1, <3>3, FS_EmptySet DEF InFlightAccounted
  <2>20. SyncLeavesNoEntry' /\ FateKept
    BY <2>10, <2>11, <2>12, <2>13 DEF SyncLeavesNoEntry, FateKept, Settled
  <2>21. WaitKept
    BY <1>3 DEF WaitKept, Awaits
  <2> QED
    BY <2>9, <2>16, <2>17, <2>18, <2>19, <2>20, <2>21 DEF IInv
<1> QED
  BY <1>1, <1>2, <1>4, <1>7, <1>8, OnHttpSound

\* dispatch_http to openai_proxy.
LEMMA DispatchOpenaiStep ==
  ASSUME IInv, NEW i \in Inbounds, NEW roll \in BOOLEAN, NEW has_key \in BOOLEAN,
         DispatchOpenai(i, roll, has_key)
  PROVE  IInv' /\ FateKept /\ WaitKept
<1> DEFINE g == openai_on_http(i, roll, has_key)
<1>1. TableInv(h) /\ Typed
  BY DEF IInv
<1>2. /\ parking /\ conn[i] = "idle" /\ edge_pending_find_inbound(h, i) = {}
      /\ h.next <= MaxOut /\ hit_n' = Hits(roll)
      /\ UNCHANGED <<parking, strays, unfinished>>
      /\ h' = AfterOnHttp(g, i, IF g.started THEN "PENDING" ELSE "ERR")
      /\ in_flight' = IF g.started THEN in_flight + 1 ELSE in_flight
      /\ conn' = IF g.started THEN [conn EXCEPT ![i] = "parked"] ELSE conn
      /\ upstream' = IF g.started THEN upstream \cup {g.last} ELSE upstream
      /\ fate' = [o \in Outbound |-> IF Started(g, o) THEN "pending" ELSE fate[o]]
  BY DEF DispatchOpenai
<1>3. hit_n' \in 0 .. Rpm
  BY <1>1, <1>2, HitsTyped DEF Typed
<1>4. CASE g = Entered
  <2>1. ~g.started /\ h' = Entered
    BY <1>1, <1>2, <1>4, EnteredSound, OnHttpSound
  <2> HIDE DEF g
  <2>2. fate' = [o \in Outbound |-> fate[o]]
    BY <1>2, <2>1 DEF Started
  <2>3. fate' = fate
    BY <1>1, <2>2 DEF Typed
  <2>4. UNCHANGED <<parking, in_flight, conn, upstream, fate, strays, unfinished>>
    BY <1>2, <2>1, <2>3
  <2> QED
    BY <1>3, <2>1, <2>4, NothingStep
<1>5. CASE \E v \in Vacant(h) : g = Grown(h, v, i, "openai")
  <2>1. PICK v \in Vacant(h) : g = Grown(h, v, i, "openai")
    BY <1>5
  <2>2. h' = Grown(h, v, i, "openai")
    BY <1>1, <1>2, <2>1, OnHttpSound
  <2>3. g.started /\ g.last = h.next
    BY <2>1 DEF Grown
  <2> HIDE DEF g
  <2>4. fate' = [o \in Outbound |-> IF o = h.next THEN "pending" ELSE fate[o]]
    BY <1>2, <2>3 DEF Started
  <2>5. "openai" \in Plugins
    BY DEF Plugins
  <2>6. /\ conn' = [conn EXCEPT ![i] = "parked"] /\ upstream' = upstream \cup {h.next}
        /\ in_flight' = in_flight + IF "openai" = "openai" THEN 1 ELSE 0
    BY <1>2, <2>3
  <2>7. UNCHANGED <<parking, strays, unfinished>>
    BY <1>2
  <2> QED
    BY <1>2, <1>3, <2>2, <2>4, <2>5, <2>6, <2>7, ParkStep
<1> QED
  BY <1>1, <1>2, <1>4, <1>5, OnHttpSound

\* dispatch_http to any other plugin.
LEMMA DispatchOtherStep ==
  ASSUME IInv, NEW i \in Inbounds, NEW calls \in 0 .. 2, NEW st,
         DispatchOther(i, calls, st)
  PROVE  IInv' /\ FateKept /\ WaitKept
<1> DEFINE g1 == IF calls >= 1 THEN api_http_client_request(Entered, i, "other") ELSE Entered
           g == IF calls >= 2 THEN api_http_client_request(g1, i, "other") ELSE g1
           waits == st = "PENDING" /\ g.started
<1>1. TableInv(h) /\ Typed
  BY DEF IInv
<1>2. /\ parking /\ conn[i] = "idle" /\ edge_pending_find_inbound(h, i) = {}
      /\ h.next <= MaxOut
      /\ UNCHANGED <<parking, in_flight, hit_n, unfinished>>
      /\ h' = AfterOnHttp(g, i, st)
      /\ conn' = IF waits THEN [conn EXCEPT ![i] = "parked"] ELSE conn
      /\ upstream' = IF waits THEN upstream \cup {g.last} ELSE upstream
      /\ fate' = [o \in Outbound |-> IF Started(g, o) THEN IF waits THEN "pending" ELSE "stray"
                                     ELSE fate[o]]
      /\ strays' = IF g.started /\ ~waits THEN strays \cup {i} ELSE strays
  BY DEF DispatchOther
<1>3. g = Entered \/ \E v \in Vacant(h) : g = Grown(h, v, i, "other")
  BY <1>1, <1>2, OtherSound
<1> HIDE DEF g
<1>4. hit_n' \in 0 .. Rpm
  BY <1>1, <1>2 DEF Typed
<1>5. CASE g = Entered
  <2>1. ~g.started /\ h' = Entered
    BY <1>1, <1>2, <1>5, EnteredSound, OnHttpSound
  <2>2. fate' = [o \in Outbound |-> fate[o]]
    BY <1>2, <2>1 DEF Started
  <2>3. fate' = fate
    BY <1>1, <2>2 DEF Typed
  <2>4. UNCHANGED <<parking, in_flight, conn, upstream, fate, strays, unfinished>>
    BY <1>2, <2>1, <2>3
  <2> QED
    BY <1>4, <2>1, <2>4, NothingStep
<1>6. CASE \E v \in Vacant(h) : g = Grown(h, v, i, "other")
  <2>1. PICK v \in Vacant(h) : g = Grown(h, v, i, "other")
    BY <1>6
  <2>2. h' = Grown(h, v, i, "other")
    BY <1>1, <1>2, <2>1, OnHttpSound
  <2>3. g.started /\ g.last = h.next
    BY <2>1 DEF Grown
  <2>4. "other" \in Plugins /\ "other" # "openai"
    BY DEF Plugins
  <2>5. CASE st = "PENDING"
    <3>1. fate' = [o \in Outbound |-> IF o = h.next THEN "pending" ELSE fate[o]]
      BY <1>2, <2>3, <2>5 DEF Started
    <3>2. in_flight' = in_flight + IF "other" = "openai" THEN 1 ELSE 0
      BY <1>1, <1>2, <2>4 DEF Typed
    <3>3. /\ conn' = [conn EXCEPT ![i] = "parked"] /\ upstream' = upstream \cup {h.next}
          /\ UNCHANGED <<parking, strays, unfinished>>
      BY <1>2, <2>3, <2>5
    <3> QED
      BY <1>2, <1>4, <2>2, <2>4, <3>1, <3>2, <3>3, ParkStep
  <2>6. CASE st # "PENDING"
    <3>1. fate' = [o \in Outbound |-> IF o = h.next THEN "stray" ELSE fate[o]]
      BY <1>2, <2>3, <2>6 DEF Started
    <3>2. /\ strays' = strays \cup {i}
          /\ UNCHANGED <<parking, in_flight, hit_n, conn, upstream, unfinished>>
      BY <1>2, <2>3, <2>6
    <3> QED
      BY <1>2, <2>2, <3>1, <3>2, StrayStep
  <2> QED
    BY <2>5, <2>6
<1> QED
  BY <1>3, <1>5, <1>6

LEMMA InitHolds == Init => IInv
<1> SUFFICES ASSUME Init PROVE IInv
  OBVIOUS
<1>1. [k \in TableSlots |-> Unused] \in [TableSlots -> Entry]
  BY UnusedTyped
<1>2. /\ h = [slots |-> [k \in TableSlots |-> Unused], count |-> 0, next |-> 1, last |-> 0,
             started |-> FALSE]
      /\ h.slots = [k \in TableSlots |-> Unused] /\ h.count = 0 /\ h.next = 1
  BY DEF Init
<1>3. h \in HostRecord
  BY <1>1, <1>2 DEF HostRecord
<1>4. UsedIn(h) = {} /\ Used = {}
  BY <1>2, UnusedTyped DEF UsedIn, Used
<1>5. TableInv(h)
  <2>1. h.next <= MaxOut + 1
    BY <1>2, PluginAssumption
  <2> QED
    BY <1>2, <1>3, <1>4, <2>1, FS_EmptySet DEF TableInv
<1>6. Typed
  BY PluginAssumption DEF Init, Typed
<1>7. FateInv
  BY <1>4 DEF Init, FateInv
<1>8. ParkedHasEntry
  <2>1. \A j : edge_pending_find_inbound(h, j) = {}
    BY <1>4 DEF Used, edge_pending_find_inbound
  <2> QED
    BY <2>1 DEF Init, ParkedHasEntry
<1>9. InFlightAccounted
  <2>1. {k \in Used : h.slots[k].plugin = "openai"} = {}
    BY <1>4
  <2>2. Cardinality({k \in Used : h.slots[k].plugin = "openai"}) = 0
    BY <2>1, FS_EmptySet
  <2>3. in_flight = 0 /\ unfinished = 0
    BY DEF Init
  <2> QED
    BY <2>2, <2>3 DEF InFlightAccounted
<1>10. SyncLeavesNoEntry
  BY <1>2, <1>4 DEF SyncLeavesNoEntry
<1> QED
  BY <1>5, <1>6, <1>7, <1>8, <1>9, <1>10 DEF IInv

LEMMA NextHolds == IInv /\ [Next]_vars => IInv' /\ FateKept /\ WaitKept
<1> SUFFICES ASSUME IInv, [Next]_vars PROVE IInv' /\ FateKept /\ WaitKept
  OBVIOUS
<1>1. CASE \E i \in Inbounds, roll, has_key \in BOOLEAN : DispatchOpenai(i, roll, has_key)
  BY <1>1, DispatchOpenaiStep
<1>2. CASE \E i \in Inbounds, calls \in 0 .. 2, st \in {"OK", "PENDING", "ERR"} :
             DispatchOther(i, calls, st)
  BY <1>2, DispatchOtherStep
<1>3. CASE UNCHANGED vars
  <2>1. hit_n' \in 0 .. Rpm
    BY <1>3 DEF vars, IInv, Typed
  <2> QED
    BY <1>3, <2>1, NothingStep DEF vars
<1>4. CASE \E i \in Inbounds : DispatchNested(i)
  BY <1>3, <1>4 DEF DispatchNested
<1>5. CASE \E o \in Outbound : complete_outbound(o)
  BY <1>5, CompleteStep
<1>6. CASE \E i \in Inbounds : cancel_inbound(i)
  BY <1>6, CancelStep
<1>7. CASE \E i \in Inbounds, roll, has_key, oom \in BOOLEAN : ServeV1(i, roll, has_key, oom)
  BY <1>7, ServeStep
<1> QED
  BY <1>1, <1>2, <1>3, <1>4, <1>5, <1>6, <1>7 DEF Next

LEMMA IInvHolds == Spec => []IInv
BY InitHolds, NextHolds, PTL DEF Spec

\* Whatever requests, completions and cancellations the pending table has been
\* through, for any capacity: count is the number of used entries, and no two share
\* an inbound slot or an outbound id.
THEOREM PendingTableSound == Spec => []TableSound
<1>1. IInv => TableSound
  BY UsedFacts DEF IInv, TableInv, HostRecord, Typed, TypeOK, TableSound
<1> QED
  BY <1>1, IInvHolds, PTL

\* A connection is parked exactly when it has an entry that a plugin waits for, so
\* no parked client is forgotten and no answer goes to an idle connection.
THEOREM ParkedConnsHaveEntries == Spec => []ParkedHasEntry
<1>1. IInv => ParkedHasEntry
  BY DEF IInv
<1> QED
  BY <1>1, IInvHolds, PTL

\* openai_proxy's in_flight is the number of its entries plus those released
\* without on_http_complete, for every limit and every order of events.
THEOREM InFlightIsAccounted == Spec => []InFlightAccounted
<1>1. IInv => InFlightAccounted
  BY DEF IInv
<1> QED
  BY <1>1, IInvHolds, PTL

\* The blocking server leaves an empty table after every request.
THEOREM SyncServerLeavesNothing == Spec => []SyncLeavesNoEntry
<1>1. IInv => SyncLeavesNoEntry
  BY DEF IInv
<1> QED
  BY <1>1, IInvHolds, PTL

\* A result that arrives late, twice or after its client has gone never changes the
\* fate of an exchange that was already answered, cancelled or dropped.
THEOREM FateIsFinal == Spec => FateFinal
<1>1. IInv /\ [Next]_vars
        => [\A o \in Outbound : fate[o] \in Settled => fate'[o] = fate[o]]_fate
  BY NextHolds DEF FateKept
<1> QED
  BY <1>1, IInvHolds, PTL DEF Spec, FateFinal

\* No wake-up is lost: a parked connection waits for an exchange that is under way and
\* whose entry names it.
THEOREM ParkedAreAwaited ==
  Spec => [](\A i \in Inbounds : conn[i] = "parked" => \E o \in Outbound : Awaits(i, o))
<1>1. IInv => (\A i \in Inbounds : conn[i] = "parked" => \E o \in Outbound : Awaits(i, o))
  <2> SUFFICES ASSUME IInv, NEW i \in Inbounds, conn[i] = "parked"
               PROVE  \E o \in Outbound : Awaits(i, o)
    OBVIOUS
  <2>1. edge_pending_find_inbound(h, i) # {} /\ i \notin strays
    BY DEF IInv, ParkedHasEntry
  <2>2. PICK k \in Used : h.slots[k].inbound = i
    BY <2>1 DEF Used, edge_pending_find_inbound
  <2>3. fate[h.slots[k].outbound] = "pending" /\ h.slots[k].outbound \in upstream
    BY <2>1, <2>2 DEF IInv, FateInv
  <2>4. h.slots[k].outbound \in Outbound
    BY <2>2, UsedFacts DEF IInv
  <2> QED
    BY <2>2, <2>3, <2>4 DEF Awaits
<1> QED
  BY <1>1, IInvHolds, PTL

\* And it gets its own answer: whatever other connections are dispatched, answered or
\* closed meanwhile, it stays parked for that exchange until complete_outbound is called
\* with that exchange's result or its client goes away.  With ParkedAreAwaited this is
\* what ParkedAnswered needs besides exchanges that come to a result.
THEOREM WaitsEndWithTheirAnswer == Spec => [][WaitKept]_vars
<1>1. IInv /\ [Next]_vars => [WaitKept]_vars
  BY NextHolds
<1> QED
  BY <1>1, IInvHolds, PTL DEF Spec
===============================================================================
