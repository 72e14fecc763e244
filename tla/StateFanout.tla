----------------------------- MODULE StateFanout ------------------------------
(***************************************************************************)
(* The state store (src/src/core/state_store.c), the WebSocket hub         *)
(* (src/src/host/ws_stream.c) and the writers: the REST handlers           *)
(* (edge_http1_serve.c), NOTIFY payloads (notify_apply.c) and the pqproxy  *)
(* scraper (pq_sidecar.c) change one and tell the other; plugins           *)
(* (plugin_host.c) only change the store.  Each handler runs to completion *)
(* on the loop thread and is one action.                                   *)
(*                                                                         *)
(* To say what the messages are worth, each subscriber is observed: an     *)
(* auxiliary copy starts as the stored state at the moment of subscribing  *)
(* and applies the STATE_CHANGED messages in the order they are taken.     *)
(* Requests the store refuses for their key, size or JSON change nothing   *)
(* and are not written down.                                               *)
(***************************************************************************)
EXTENDS Naturals, Sequences, FiniteSets

CONSTANTS
  NS, Keys, Values,   \* namespaces, valid keys, JSON values
  HealthNs, HealthKey,\* "net.core" and "pqproxy/health", written by the scraper
  MaxKeys,            \* max_keys_per_ns
  PendingMax,         \* EDGE_WS_PENDING_MAX
  Conns,              \* connection slots that may subscribe
  Absent              \* no value

ASSUME StateAssumption ==
  /\ MaxKeys \in Nat \ {0} /\ PendingMax \in Nat \ {0}
  /\ HealthNs \in NS /\ HealthKey \in Keys
  /\ Absent \notin Values

VARIABLES
  entries, count, enabled,   \* edge_state_ns_t, per namespace
  active, queue,             \* edge_ws_sub_t, per connection slot
  copy,                      \* auxiliary: the subscriber's copy of the state
  lost,                      \* history: keys whose latest change the subscriber is
                             \* not told of
  phantom                    \* history: keys announced without being stored

store == <<entries, count, enabled>>
hub == <<active, queue>>
vars == <<store, hub, copy, lost, phantom>>

EntrySlots == 1 .. MaxKeys
NoEntry == [used |-> FALSE, key |-> Absent, value |-> Absent]
Message == [ns : NS, key : Keys, value : Values \cup {Absent}]
Address == NS \X Keys

\* edge_state_create_with_config and edge_ws_hub_create.  Which namespaces are
\* enabled comes from the configuration.
Init ==
  /\ entries = [n \in NS |-> [e \in EntrySlots |-> NoEntry]]
  /\ count = [n \in NS |-> 0]
  /\ enabled \in [NS -> BOOLEAN]
  /\ active = [c \in Conns |-> FALSE]
  /\ queue = [c \in Conns |-> <<>>]
  /\ copy = [c \in Conns |-> [a \in Address |-> Absent]]
  /\ lost = [c \in Conns |-> {}]
  /\ phantom = {}

-------------------------------------------------------------------------------
(* state_store.c *)

First(S) == CHOOSE e \in S : \A f \in S : e <= f
find_entry(n, k) == {e \in EntrySlots : entries[n][e].used /\ entries[n][e].key = k}
find_free(n) == {e \in EntrySlots : ~entries[n][e].used}

\* edge_state_put returns EDGE_STATE_OK.
put_ok(n, k) == enabled[n] /\ (find_entry(n, k) # {} \/ find_free(n) # {})

\* edge_state_put when put_ok: overwrite the key's entry or take the first free one.
edge_state_put(n, k, v) ==
  LET found == find_entry(n, k)
      e == IF found # {} THEN First(found) ELSE First(find_free(n))
  IN  /\ entries' = [entries EXCEPT ![n][e] = [used |-> TRUE, key |-> k, value |-> v]]
      /\ count' = [count EXCEPT ![n] = IF found # {} THEN @ ELSE @ + 1]
      /\ UNCHANGED enabled

delete_ok(n, k) == enabled[n] /\ find_entry(n, k) # {}

\* Mutant: count is not decremented.
edge_state_delete_keeps_count(n, k) ==
  /\ entries' = [entries EXCEPT ![n][First(find_entry(n, k))] = NoEntry]
  /\ UNCHANGED <<enabled, count>>

\* Mutant: the whole namespace is cleared.
edge_state_delete_all(n, k) ==
  /\ entries' = [entries EXCEPT ![n] = [e \in EntrySlots |-> NoEntry]]
  /\ count' = [count EXCEPT ![n] = 0]
  /\ UNCHANGED enabled

\* edge_state_delete when delete_ok.
edge_state_delete(n, k) ==
  /\ entries' = [entries EXCEPT ![n][First(find_entry(n, k))] = NoEntry]
  /\ count' = [count EXCEPT ![n] = IF @ > 0 THEN @ - 1 ELSE @]
  /\ UNCHANGED enabled

\* What edge_state_get would read from an enabled namespace.
Current(n, k) ==
  IF find_entry(n, k) = {} THEN Absent ELSE entries[n][First(find_entry(n, k))].value

-------------------------------------------------------------------------------
(* The hub *)

\* sub_push: a full queue gives up its oldest message for the new one.
Pushed(q, m) == Append(IF Len(q) >= PendingMax THEN Tail(q) ELSE q, m)

\* What sub_push has discarded when there is no memory for the copy.
Trimmed(q) == IF Len(q) >= PendingMax THEN Tail(q) ELSE q

Addressed(q) == {<<q[i].ns, q[i].key>> : i \in 1 .. Len(q)}

\* edge_ws_hub_broadcast_state_changed to every active subscriber; oom are the
\* subscribers whose copy of the message cannot be allocated.  A message has room
\* for any value of at most max_value_bytes = 4096 bytes, the default.
broadcast(n, k, v, oom) ==
  LET m == [ns |-> n, key |-> k, value |-> v] IN
  /\ oom \subseteq {c \in Conns : active[c]}
  /\ queue' = [c \in Conns |-> IF ~active[c] THEN queue[c]
                               ELSE IF c \in oom THEN Trimmed(queue[c])
                               ELSE Pushed(queue[c], m)]
  /\ lost' = [c \in Conns |->
                IF ~active[c] THEN lost[c]
                ELSE ((lost[c] \ {<<n, k>>})
                      \cup (Addressed(queue[c]) \ Addressed(queue'[c])))
                     \cup IF c \in oom THEN {<<n, k>>} ELSE {}]
  /\ UNCHANGED <<active, copy>>

\* A key that was announced again with what is stored is no phantom any more.
Announced(n, k) == phantom' = phantom \ {<<n, k>>}

\* promote_to_ws subscribes a connection; its copy is the current state.
edge_ws_hub_subscribe(c) ==
  /\ ~active[c]
  /\ active' = [active EXCEPT ![c] = TRUE]
  /\ copy' = [copy EXCEPT ![c] = [a \in Address |-> Current(a[1], a[2])]]
  /\ lost' = [lost EXCEPT ![c] = {}]
  /\ UNCHANGED <<store, queue, phantom>>

\* close_conn unsubscribes; the queue is emptied.
edge_ws_hub_unsubscribe(c) ==
  /\ active[c]
  /\ active' = [active EXCEPT ![c] = FALSE]
  /\ queue' = [queue EXCEPT ![c] = <<>>]
  /\ copy' = [copy EXCEPT ![c] = [a \in Address |-> Absent]]
  /\ lost' = [lost EXCEPT ![c] = {}]
  /\ UNCHANGED <<store, phantom>>

\* edge_ws_hub_take_pending; the frame reaches the client, which applies it.
edge_ws_hub_take_pending(c) ==
  /\ active[c] /\ queue[c] # <<>>
  /\ LET m == Head(queue[c]) IN
       copy' = [copy EXCEPT ![c] = [@ EXCEPT ![<<m.ns, m.key>>] = m.value]]
  /\ queue' = [queue EXCEPT ![c] = Tail(@)]
  /\ UNCHANGED <<store, active, lost, phantom>>

-------------------------------------------------------------------------------
(* The writers *)

\* REST PUT (dispatch_state) and a NOTIFY payload with op "put": store, and on
\* success broadcast.
PutAndNotify(n, k, v, oom) ==
  /\ put_ok(n, k)
  /\ edge_state_put(n, k, v)
  /\ broadcast(n, k, v, oom)
  /\ Announced(n, k)

\* Mutant: a delete is not broadcast.
DeleteAndNotify_silent(n, k, oom) ==
  /\ delete_ok(n, k)
  /\ edge_state_delete(n, k)
  /\ UNCHANGED <<hub, copy, lost, phantom>>

\* REST DELETE and a NOTIFY payload with op "delete".  A NOTIFY for an absent key
\* succeeds without a broadcast and changes nothing.
DeleteAndNotify(n, k, oom) ==
  /\ delete_ok(n, k)
  /\ edge_state_delete(n, k)
  /\ broadcast(n, k, Absent, oom)
  /\ Announced(n, k)

\* edge_pq_sidecar_scrape_once when the scrape succeeded.
ScrapeUp(v, oom) == PutAndNotify(HealthNs, HealthKey, v, oom)

\* edge_pq_sidecar_scrape_once when it failed: the result of edge_state_put is
\* ignored and the broadcast is made either way.
ScrapeDown(v, oom) ==
  /\ broadcast(HealthNs, HealthKey, v, oom)
  /\ \/ /\ put_ok(HealthNs, HealthKey)
        /\ edge_state_put(HealthNs, HealthKey, v)
        /\ Announced(HealthNs, HealthKey)
     \/ /\ ~put_ok(HealthNs, HealthKey)
        /\ phantom' = phantom \cup {<<HealthNs, HealthKey>>}
        /\ UNCHANGED store

\* api_state_put of the plugin ABI: the write is stored and nobody is told.
api_state_put(n, k, v) ==
  /\ put_ok(n, k)
  /\ edge_state_put(n, k, v)
  /\ lost' = [c \in Conns |-> IF active[c] THEN lost[c] \cup {<<n, k>>} ELSE lost[c]]
  /\ UNCHANGED <<hub, copy, phantom>>

\* edge_state_ns_set_enabled, from edge_state_apply_config: entries are kept.
edge_state_ns_set_enabled(n, on) ==
  /\ enabled[n] # on
  /\ enabled' = [enabled EXCEPT ![n] = on]
  /\ UNCHANGED <<entries, count, hub, copy, lost, phantom>>

Next ==
  \/ \E n \in NS, k \in Keys, v \in Values, oom \in SUBSET Conns : PutAndNotify(n, k, v, oom)
  \/ \E n \in NS, k \in Keys, oom \in SUBSET Conns : DeleteAndNotify(n, k, oom)
  \/ \E v \in Values, oom \in SUBSET Conns : ScrapeUp(v, oom)
  \/ \E v \in Values, oom \in SUBSET Conns : ScrapeDown(v, oom)
  \/ \E n \in NS, k \in Keys, v \in Values : api_state_put(n, k, v)
  \/ \E n \in NS, on \in BOOLEAN : edge_state_ns_set_enabled(n, on)
  \/ \E c \in Conns : edge_ws_hub_subscribe(c)
  \/ \E c \in Conns : edge_ws_hub_unsubscribe(c)
  \/ \E c \in Conns : edge_ws_hub_take_pending(c)

Spec == Init /\ [][Next]_vars

-------------------------------------------------------------------------------
(* Properties *)

\* Type correctness; sub_push keeps at most PendingMax messages and count never
\* exceeds the capacity of a namespace.
TypeOK ==
  /\ entries \in [NS -> [EntrySlots ->
                    [used : BOOLEAN, key : Keys \cup {Absent}, value : Values \cup {Absent}]]]
  /\ count \in [NS -> 0 .. MaxKeys]
  /\ enabled \in [NS -> BOOLEAN]
  /\ active \in [Conns -> BOOLEAN]
  /\ queue \in [Conns -> Seq(Message)]
  /\ \A c \in Conns : Len(queue[c]) <= PendingMax
  /\ copy \in [Conns -> [Address -> Values \cup {Absent}]]
  /\ lost \in [Conns -> SUBSET Address]
  /\ phantom \subseteq Address

\* The slot table is sound: count is the number of used entries and a key
\* occupies one entry, so a delete really removes it and a later put does not
\* bring an old value back.  (With the types of all variables.)
TableSound ==
  /\ TypeOK
  /\ \A n \in NS :
       /\ count[n] = Cardinality({e \in EntrySlots : entries[n][e].used})
       /\ \A e, f \in EntrySlots :
            entries[n][e].used /\ entries[n][f].used /\ entries[n][e].key = entries[n][f].key
              => e = f

\* The pairs a namespace holds.
Pairs(n) == {<<entries[n][e].key, entries[n][e].value>> :
               e \in {f \in EntrySlots : entries[n][f].used}}
Kv == INSTANCE KvMap WITH kv <- [n \in NS |-> Pairs(n)], Capacity <- MaxKeys

\* The slot table of edge_state_put and edge_state_delete, with its linear searches
\* and reuse of entries, implements a bounded map: a write touches one key only.
TableIsMap == Kv!Spec

\* What subscriber c will hold for an address once its queue is drained.
Eventual(c, a) ==
  LET later == {i \in 1 .. Len(queue[c]) : <<queue[c][i].ns, queue[c][i].key>> = a}
  IN  IF later = {} THEN copy[c][a]
      ELSE queue[c][CHOOSE i \in later : \A j \in later : j <= i].value

\* Every subscriber converges: whatever the writers interleave, once the queue is
\* drained its copy agrees with the store on every key, apart from keys whose
\* latest message was discarded (queue overflow or no memory) or whose latest
\* writer was a plugin, and keys the scraper announced without storing.
CopyConverges ==
  \A c \in Conns, a \in Address :
    active[c] /\ a \notin lost[c] \cup phantom
      => Eventual(c, a) = Current(a[1], a[2])
===============================================================================
