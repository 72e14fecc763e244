------------------------------ MODULE PluginHost ------------------------------
(***************************************************************************)
(* The plugin host (src/src/host/plugin_host.c) with its pending table     *)
(* (src/src/core/pending_table.c) and the openai_proxy plugin              *)
(* (src/src/plugins/openai_proxy.c).                                       *)
(*                                                                         *)
(* A request on an inbound slot is dispatched to a plugin.  Within on_http *)
(* the plugin may start one outbound exchange, recorded in the pending     *)
(* table, and return PENDING; the answer comes back through                *)
(* complete_outbound.  There are two ways to run the outbound exchange:    *)
(*   parking = FALSE  the shipped server (edge_http1_serve.c): it blocks   *)
(*                    in finish_pending_sync, so the whole request is one  *)
(*                    step of the loop; only openai_proxy is routed;       *)
(*   parking = TRUE   the ABI of ADR-008 that the tests drive: the         *)
(*                    connection is parked, results arrive in any order,   *)
(*                    and a client may go away first.                      *)
(* on_http and on_http_complete are callbacks that run to completion, so   *)
(* each dispatch and each completion is one action.                        *)
(***************************************************************************)
EXTENDS Naturals, FiniteSets

CONSTANTS
  Cap,            \* http.max_pending_outbound, the capacity of the table
  Inbounds,       \* inbound connection slots
  MaxConcurrent,  \* openai.max_concurrent_per_principal, 0 = no limit
  Rpm,            \* openai.rate_limit_rpm, 0 = no limit
  MaxOut,         \* bound: outbound ids handed out
  MaxNomem        \* bound: failed allocations of the response buffer

ASSUME PluginAssumption ==
  /\ Cap \in Nat \ {0}
  /\ {MaxConcurrent, Rpm, MaxOut, MaxNomem} \subseteq Nat
  /\ "none" \notin Inbounds

VARIABLES
  parking,    \* which of the two hosts above; never changes
  h,          \* edge_plugin_host_t: the table, its count, the id counter,
              \* last_outbound_id and client_req_started
  in_flight,  \* openai_data_t
  hit_n,
  conn,       \* host: what each inbound slot is doing
  upstream,   \* host: outbound exchanges under way
  fate,       \* history: what became of each outbound id
  strays,     \* history: inbound slots whose plugin requested and did not wait
  unfinished  \* history: openai entries released without on_http_complete

vars == <<parking, h, in_flight, hit_n, conn, upstream, fate, strays, unfinished>>

TableSlots == 1 .. Cap
Outbound == 1 .. MaxOut
Plugins == {"openai", "other"}
Unused == [used |-> FALSE, inbound |-> "none", outbound |-> 0, plugin |-> "none"]
Entry == [used : BOOLEAN, inbound : Inbounds \cup {"none"}, outbound : 0 .. MaxOut,
          plugin : Plugins \cup {"none"}]

\* edge_plugin_host_create and edge_pending_create.
Init ==
  /\ parking \in BOOLEAN
  /\ h = [slots |-> [k \in TableSlots |-> Unused], count |-> 0,
          next |-> 1, last |-> 0, started |-> FALSE]
  /\ in_flight = 0 /\ hit_n = 0
  /\ conn = [i \in Inbounds |-> "idle"]
  /\ upstream = {}
  /\ fate = [o \in Outbound |-> "unused"]
  /\ strays = {} /\ unfinished = 0

-------------------------------------------------------------------------------
(* pending_table.c, on a host record g *)

edge_pending_full(g) == g.count >= Cap
edge_pending_find_inbound(g, i) ==
  {k \in TableSlots : g.slots[k].used /\ g.slots[k].inbound = i}
edge_pending_find_outbound(g, o) ==
  {k \in TableSlots : g.slots[k].used /\ g.slots[k].outbound = o}
Vacant(g) == {k \in TableSlots : ~g.slots[k].used}
First(S) == CHOOSE k \in S : \A m \in S : k <= m

\* edge_pending_insert refuses a full table and a duplicate of either key.
Insertable(g, i, o) ==
  /\ o # 0
  /\ ~edge_pending_full(g)
  /\ edge_pending_find_inbound(g, i) = {}
  /\ edge_pending_find_outbound(g, o) = {}
  /\ Vacant(g) # {}

edge_pending_insert(g, i, o, p) ==
  [g EXCEPT !.slots[First(Vacant(g))] =
              [used |-> TRUE, inbound |-> i, outbound |-> o, plugin |-> p],
            !.count = @ + 1]

\* Mutant: the count is not given back.
edge_pending_release_keeps_count(g, S) ==
  IF S = {} THEN g
  ELSE [g EXCEPT !.slots[First(S)] = Unused]

\* edge_pending_release of the first entry of S; release_inbound and
\* release_outbound call it with what their find returned.
edge_pending_release(g, S) ==
  IF S = {} THEN g
  ELSE [g EXCEPT !.slots[First(S)] = Unused,
                 !.count = IF @ > 0 THEN @ - 1 ELSE @]

-------------------------------------------------------------------------------
(* Host API *)

\* api_http_client_request, called from on_http: the host after the call.  Ids
\* are 64 bits wide and start at 1, so skipping 0 on wrap-around is left out.
api_http_client_request(g, i, p) ==
  IF g.started \/ edge_pending_full(g) \/ edge_pending_find_inbound(g, i) # {}
  THEN g
  ELSE IF Insertable(g, i, g.next)
       THEN [edge_pending_insert(g, i, g.next, p) EXCEPT
               !.next = @ + 1, !.started = TRUE, !.last = g.next]
       ELSE [g EXCEPT !.next = @ + 1]

\* dispatch_http enters on_http with client_req_started cleared.
Entered == [h EXCEPT !.started = FALSE]

\* The host once on_http has returned: PENDING without a request is a plugin bug
\* and releases whatever is pending for the slot.
AfterOnHttp(g, i, st) ==
  IF st = "PENDING" /\ ~g.started
  THEN edge_pending_release(g, edge_pending_find_inbound(g, i))
  ELSE g

\* An outbound id that this on_http started.
Started(g, o) == o = g.last /\ g.started

-------------------------------------------------------------------------------
(* openai_proxy *)

\* rate_limit_ok with n hits in the current window of 60 seconds.
rate_limit_ok(n) == Rpm = 0 \/ n < Rpm

\* hit_n as rate_limit_ok leaves it; a new window may have begun (roll).
Hits(roll) ==
  LET n == IF roll THEN 0 ELSE hit_n
  IN  IF Rpm # 0 /\ rate_limit_ok(n) THEN n + 1 ELSE n

\* openai_on_http gets as far as http_client_request: a well-formed request from
\* an allowed principal, under both limits, with an API key configured (has_key;
\* no memory to keep the request has the same effect as no key).
openai_forwards(roll, has_key) ==
  /\ rate_limit_ok(IF roll THEN 0 ELSE hit_n)
  /\ MaxConcurrent = 0 \/ in_flight < MaxConcurrent
  /\ has_key

\* The host as openai_on_http leaves it; in_flight is incremented exactly when
\* the request was accepted.
openai_on_http(i, roll, has_key) ==
  IF openai_forwards(roll, has_key)
  THEN api_http_client_request(Entered, i, "openai") ELSE Entered

InFlightAfterComplete_never(n) == n   \* mutant: the count is never given back

\* openai_on_http_complete.
InFlightAfterComplete(n) == IF n > 0 THEN n - 1 ELSE n

-------------------------------------------------------------------------------
(* The parking host *)

\* Mutant: the outbound exchange is never started.
DispatchOpenai_idle(i, roll, has_key) ==
  /\ parking
  /\ conn[i] = "idle"
  /\ edge_pending_find_inbound(h, i) = {}
  /\ h.next <= MaxOut
  /\ LET g == openai_on_http(i, roll, has_key) IN
     /\ h' = g
     /\ in_flight' = IF g.started THEN in_flight + 1 ELSE in_flight
     /\ conn' = IF g.started THEN [conn EXCEPT ![i] = "parked"] ELSE conn
     /\ fate' = [o \in Outbound |-> IF Started(g, o) THEN "pending" ELSE fate[o]]
  /\ hit_n' = Hits(roll)
  /\ UNCHANGED <<parking, upstream, strays, unfinished>>

\* dispatch_http to openai_proxy.  A request it rejects before the rate limit
\* (503, 401, 404, 400) changes nothing and is not written down.
DispatchOpenai(i, roll, has_key) ==
  /\ parking
  /\ conn[i] = "idle"
  /\ edge_pending_find_inbound(h, i) = {}
  /\ h.next <= MaxOut
  /\ LET g == openai_on_http(i, roll, has_key) IN
     /\ h' = AfterOnHttp(g, i, IF g.started THEN "PENDING" ELSE "ERR")
     /\ in_flight' = IF g.started THEN in_flight + 1 ELSE in_flight
     /\ conn' = IF g.started THEN [conn EXCEPT ![i] = "parked"] ELSE conn
     /\ upstream' = IF g.started THEN upstream \cup {g.last} ELSE upstream
     /\ fate' = [o \in Outbound |-> IF Started(g, o) THEN "pending" ELSE fate[o]]
  /\ hit_n' = Hits(roll)
  /\ UNCHANGED <<parking, strays, unfinished>>

\* dispatch_http to any other plugin: on_http makes up to two requests and
\* returns what it likes.  The host parks the connection on PENDING, runs the
\* outbound exchange then, and answers at once otherwise.
DispatchOther(i, calls, st) ==
  /\ parking
  /\ conn[i] = "idle"
  /\ edge_pending_find_inbound(h, i) = {}
  /\ h.next <= MaxOut
  /\ LET g1 == IF calls >= 1 THEN api_http_client_request(Entered, i, "other") ELSE Entered
         g == IF calls >= 2 THEN api_http_client_request(g1, i, "other") ELSE g1
         waits == st = "PENDING" /\ g.started
     IN
     /\ h' = AfterOnHttp(g, i, st)
     /\ conn' = IF waits THEN [conn EXCEPT ![i] = "parked"] ELSE conn
     /\ upstream' = IF waits THEN upstream \cup {g.last} ELSE upstream
     /\ fate' = [o \in Outbound |->
                   IF Started(g, o) THEN IF waits THEN "pending" ELSE "stray"
                   ELSE fate[o]]
     /\ strays' = IF g.started /\ ~waits THEN strays \cup {i} ELSE strays
  /\ UNCHANGED <<parking, in_flight, hit_n, unfinished>>

\* dispatch_http while an entry exists for the slot: 500 NESTED_PENDING, nothing
\* else happens.  The connection is idle, so the entry is a stray one.
DispatchNested(i) ==
  /\ parking
  /\ conn[i] = "idle"
  /\ edge_pending_find_inbound(h, i) # {}
  /\ UNCHANGED vars

\* Mutant: on_http_complete is called although the entry is gone.
complete_outbound_unchecked(o) ==
  /\ parking
  /\ o \in upstream
  /\ upstream' = upstream \ {o}
  /\ fate' = [fate EXCEPT ![o] = "completed"]
  /\ LET found == edge_pending_find_outbound(h, o) IN
     IF found = {} THEN UNCHANGED <<h, in_flight, conn>>
     ELSE LET e == h.slots[First(found)] IN
          /\ h' = edge_pending_release(h, found)
          /\ in_flight' = IF e.plugin = "openai" THEN InFlightAfterComplete(in_flight)
                          ELSE in_flight
          /\ conn' = [conn EXCEPT ![e.inbound] = "idle"]
  /\ UNCHANGED <<parking, hit_n, strays, unfinished>>

\* complete_outbound with the result of exchange o.  A result whose entry is
\* gone is refused.
complete_outbound(o) ==
  /\ parking
  /\ o \in upstream
  /\ upstream' = upstream \ {o}
  /\ LET found == edge_pending_find_outbound(h, o) IN
     IF found = {} THEN UNCHANGED <<h, in_flight, conn, fate>>
     ELSE LET e == h.slots[First(found)] IN
          /\ h' = edge_pending_release(h, found)
          /\ in_flight' = IF e.plugin = "openai" THEN InFlightAfterComplete(in_flight)
                          ELSE in_flight
          /\ conn' = [conn EXCEPT ![e.inbound] = "idle"]
          /\ fate' = [fate EXCEPT ![o] = "completed"]
  /\ UNCHANGED <<parking, hit_n, strays, unfinished>>

\* Mutant: the entry of a client that went away stays in the table.
cancel_inbound_keeps_entry(i) ==
  /\ parking
  /\ conn[i] = "parked"
  /\ fate' = [o \in Outbound |->
                IF \E k \in edge_pending_find_inbound(h, i) : h.slots[k].outbound = o
                THEN "cancelled" ELSE fate[o]]
  /\ conn' = [conn EXCEPT ![i] = "idle"]
  /\ UNCHANGED <<parking, h, in_flight, hit_n, upstream, strays, unfinished>>

\* cancel_inbound: the client of a parked connection disconnects.  The entry is
\* released; the exchange itself goes on and its plugin is not told.
cancel_inbound(i) ==
  /\ parking
  /\ conn[i] = "parked"
  /\ h' = edge_pending_release(h, edge_pending_find_inbound(h, i))
  /\ fate' = [o \in Outbound |->
                IF \E k \in edge_pending_find_inbound(h, i) : h.slots[k].outbound = o
                THEN "cancelled" ELSE fate[o]]
  /\ conn' = [conn EXCEPT ![i] = "idle"]
  /\ unfinished' = unfinished +
       Cardinality({k \in edge_pending_find_inbound(h, i) : h.slots[k].plugin = "openai"})
  /\ UNCHANGED <<parking, in_flight, hit_n, upstream, strays>>

-------------------------------------------------------------------------------
(* The shipped host *)

\* Mutant: the path without memory forgets the entry.
finish_pending_sync_leaks(g, out_of_memory) ==
  IF out_of_memory THEN g
  ELSE edge_pending_release(g, edge_pending_find_outbound(g, g.last))

\* finish_pending_sync: the host after it ran the last request and completed it,
\* or gave up because the response buffer could not be allocated.
finish_pending_sync(g, out_of_memory) ==
  edge_pending_release(g, edge_pending_find_outbound(g, g.last))

\* The /v1 branch of the HTTP server: dispatch, then finish_pending_sync when
\* the plugin returned PENDING.  Without memory on_http_complete is not called.
ServeV1(i, roll, has_key, out_of_memory) ==
  /\ ~parking
  /\ h.next <= MaxOut
  /\ out_of_memory => unfinished < MaxNomem
  /\ IF edge_pending_find_inbound(h, i) # {}
     THEN UNCHANGED <<h, in_flight, hit_n, fate, unfinished>>
     ELSE LET g == openai_on_http(i, roll, has_key) IN
          /\ hit_n' = Hits(roll)
          /\ h' = IF g.started THEN finish_pending_sync(g, out_of_memory) ELSE g
          /\ in_flight' = IF ~g.started THEN in_flight
                          ELSE IF out_of_memory THEN in_flight + 1
                          ELSE InFlightAfterComplete(in_flight + 1)
          /\ unfinished' = IF g.started /\ out_of_memory THEN unfinished + 1 ELSE unfinished
          /\ fate' = [o \in Outbound |->
                        IF Started(g, o)
                        THEN IF out_of_memory THEN "dropped" ELSE "completed"
                        ELSE fate[o]]
  /\ UNCHANGED <<parking, conn, upstream, strays>>

Next ==
  \/ \E i \in Inbounds, roll, has_key \in BOOLEAN : DispatchOpenai(i, roll, has_key)
  \/ \E i \in Inbounds, calls \in 0 .. 2, st \in {"OK", "PENDING", "ERR"} :
       DispatchOther(i, calls, st)
  \/ \E i \in Inbounds : DispatchNested(i)
  \/ \E o \in Outbound : complete_outbound(o)
  \/ \E i \in Inbounds : cancel_inbound(i)
  \/ \E i \in Inbounds, roll, has_key, out_of_memory \in BOOLEAN :
       ServeV1(i, roll, has_key, out_of_memory)

Spec == Init /\ [][Next]_vars

\* Every exchange the host started comes to a result, which is handed to
\* complete_outbound (under TLS the outbound client's time limit sees to it, on a
\* plain connection the upstream has to); no client is obliged to do anything.
FairSpec == Spec /\ \A o \in Outbound : WF_vars(complete_outbound(o))

-------------------------------------------------------------------------------
(* Properties *)

\* Type correctness; hit_n of rate_limit_ok never exceeds the limit.
TypeOK ==
  /\ parking \in BOOLEAN
  /\ h \in [slots : [TableSlots -> Entry], count : Nat, next : Nat \ {0}, last : Nat,
            started : BOOLEAN]
  /\ in_flight \in Nat
  /\ hit_n \in 0 .. Rpm
  /\ conn \in [Inbounds -> {"idle", "parked"}]
  /\ upstream \subseteq Outbound
  /\ fate \in [Outbound -> {"unused", "pending", "completed", "cancelled", "stray",
                            "dropped"}]
  /\ strays \subseteq Inbounds
  /\ unfinished \in Nat

Used == {k \in TableSlots : h.slots[k].used}

\* The table is sound whatever requests, completions and cancellations it has
\* been through: count is the number of used entries, so edge_pending_full never
\* turns a request away while a slot is free, and no two entries share an
\* inbound slot (at most one outstanding outbound per inbound, ADR-008) or an
\* outbound id.  (With the types of all variables.)
TableSound ==
  /\ TypeOK
  /\ h.count = Cardinality(Used)
  /\ \A k, m \in Used : k # m =>
       /\ h.slots[k].inbound # h.slots[m].inbound
       /\ h.slots[k].outbound # h.slots[m].outbound

\* The host has parked exactly the connections that have an entry, apart from
\* the entries of plugins that made a request and then answered without waiting.
ParkedHasEntry ==
  \A i \in Inbounds :
    /\ conn[i] = "parked" => edge_pending_find_inbound(h, i) # {} /\ i \notin strays
    /\ edge_pending_find_inbound(h, i) # {} => conn[i] = "parked" \/ i \in strays

Settled == {"completed", "cancelled", "stray", "dropped"}

\* An exchange that has been answered or cancelled stays so: a late result never
\* reaches on_http_complete a second time, completes a cancelled request or
\* answers another request that reuses the inbound slot.
FateFinal == [][\A o \in Outbound : fate[o] \in Settled => fate'[o] = fate[o]]_fate

\* openai_proxy's in_flight counts its entries in the table, plus one for every
\* entry released without on_http_complete (its client went away, or there was no
\* memory for the response): those are never given back.
InFlightAccounted ==
  in_flight = unfinished + Cardinality({k \in Used : h.slots[k].plugin = "openai"})

\* The blocking host leaves nothing behind: between two requests the table is
\* empty, so no request of the shipped server is refused as NESTED_PENDING.
SyncLeavesNoEntry == ~parking => Used = {} /\ h.count = 0

\* A parked connection is eventually answered or its client goes away.
ParkedAnswered == \A i \in Inbounds : conn[i] = "parked" ~> conn[i] = "idle"
===============================================================================
