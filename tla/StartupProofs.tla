---------------------------- MODULE StartupProofs -----------------------------
(* The process gives back what it took in an order that is safe, starts to     *)
(* serve only when authentication is ready, and follows ConfigReload, for      *)
(* every configuration file and every history of edits, signals and failures.  *)
EXTENDS Startup, ConfigReloadProofs, WellFoundedInduction, TLAPS

Names == Optional \cup {"core", "hub", "conns", "listen", "ring"}

\* The order in which things are given back: what points comes before what it
\* points to.
Rank ==
  [ring |-> 1, listen |-> 2, conns |-> 3, hub |-> 4, tls |-> 5, own_store |-> 6,
   openai |-> 7, slack |-> 8, teams |-> 9, ph |-> 10, store |-> 11, core |-> 12]

\* The stages at which the loop runs, and the ones that lead to it.
Running == {"serving", "waiting", "upstream"}
Stages ==
  {"boot", "auth", "host", "ph", "openai", "slack", "teams", "drain", "own_store", "tls",
   "hub", "conns", "listen", "ring", "accept", "down", "gone"} \cup Running

\* What is held at every stage on the way up: what must be there, because its stage
\* is past and a failure would have ended the process, and what may be.
HeldInv ==
  /\ Held \subseteq Names
  /\ stage # "down" =>
       /\ "core" \in Held <=> stage \notin {"boot", "gone"}
       /\ "hub" \in Held <=> stage \in {"conns", "listen", "ring", "accept"} \cup Running
       /\ "conns" \in Held <=> stage \in {"listen", "ring", "accept"} \cup Running
       /\ "listen" \in Held <=> stage \in {"ring", "accept"} \cup Running
       /\ "ring" \in Held <=> stage \in {"accept"} \cup Running
       /\ "tls" \in Held => stage \in {"hub", "conns", "listen", "ring", "accept"} \cup Running
       /\ "own_store" \in Held =>
            stage \in {"tls", "hub", "conns", "listen", "ring", "accept"} \cup Running
       /\ "openai" \in Held => stage \notin {"boot", "gone", "auth", "host", "ph", "openai"}
       /\ "slack" \in Held =>
            stage \notin {"boot", "gone", "auth", "host", "ph", "openai", "slack"}
       /\ "teams" \in Held =>
            stage \notin {"boot", "gone", "auth", "host", "ph", "openai", "slack", "teams"}
       /\ "ph" \in Held => stage \notin {"boot", "gone", "auth", "host", "ph"}
       /\ "store" \in Held => stage \notin {"boot", "gone", "auth", "host"}
       /\ stage \in {"openai", "slack", "teams"} => "ph" \in Held

\* Nothing points to what is not there, and pointers go up in rank.
PointsInv ==
  /\ \A r \in Held : \A x \in live[r] : x \in Held /\ Rank[r] < Rank[x]
  /\ stage \in {"auth", "host", "ph"} => \A r \in Held : live[r] = {}

\* While the process goes down: the calls that are left name everything that is
\* held, each thing once, and what points before what it points to.
DownInv ==
  /\ todo \in Seq(Names)
  /\ stage # "down" => todo = <<>>
  /\ stage = "down" =>
       /\ \A r \in Held : \E i \in 1 .. Len(todo) : todo[i] = r
       /\ \A i \in 1 .. Len(todo) : todo[i] \in Held \cup Optional
       /\ \A i, j \in 1 .. Len(todo) : i < j => todo[i] # todo[j]
       /\ \A i, j \in 1 .. Len(todo) :
            todo[i] \in Held /\ todo[j] \in live[todo[i]] => i < j

\* Where main is and where the host of ConfigReload is: it has not begun, or it has
\* returned, or never got anything.
ExitInv ==
  /\ stage \in Stages
  /\ pc = "boot" => stage = "boot"
  /\ pc = "exit" => stage \in {"boot", "gone"}

UpDownInv == HeldInv /\ PointsInv /\ DownInv /\ ExitInv

\* What the server verifies with is what its mode asks for.
AuthOK == auth.mode = cfg.auth_mode /\ auth.keys = Secrets(cfg.auth_mode)

\* Authentication is ready from the stage after it on; before it there is no ring.
AuthInv ==
  /\ stage = "auth" => boot \in Good
  /\ stage \notin {"boot", "auth", "down", "gone"} \/ "ring" \in Held => AuthOK

-------------------------------------------------------------------------------
(* The lists of calls *)

\* s names the members of S, once each and by rank.
Lists(s, S) ==
  /\ s \in Seq(Names)
  /\ \A i \in 1 .. Len(s) : s[i] \in S
  /\ \A r \in S : \E i \in 1 .. Len(s) : s[i] = r
  /\ \A i, j \in 1 .. Len(s) : i < j => Rank[s[i]] < Rank[s[j]]

\* Two lists, the second of higher rank, one after the other.
LEMMA ListsConcat ==
  ASSUME NEW s, NEW S, NEW t, NEW T, Lists(s, S), Lists(t, T),
         \A a \in S, b \in T : Rank[a] < Rank[b]
  PROVE  Lists(s \o t, S \cup T)
<1> DEFINE u == s \o t
           m == Len(s)
           n == Len(t)
<1>1. s \in Seq(Names) /\ t \in Seq(Names)
  BY DEF Lists
<1>2. /\ u \in Seq(Names) /\ m \in Nat /\ n \in Nat /\ Len(u) = m + n
      /\ \A i \in 1 .. m + n : u[i] = IF i <= m THEN s[i] ELSE t[i - m]
  BY <1>1
<1> HIDE DEF u
<1>3. \A i \in 1 .. m + n : (i \in 1 .. m /\ u[i] = s[i]) \/ (i - m \in 1 .. n /\ u[i] = t[i - m])
  BY <1>2
<1>4. \A i \in 1 .. m + n : u[i] \in S \cup T
  BY <1>3 DEF Lists
<1>5. \A r \in S \cup T : \E i \in 1 .. m + n : u[i] = r
  <2>1. ASSUME NEW r \in S PROVE \E i \in 1 .. m + n : u[i] = r
    <3>1. PICK i \in 1 .. m : s[i] = r
      BY <2>1 DEF Lists
    <3>2. i \in 1 .. m + n /\ u[i] = s[i]
      BY <1>2, <3>1
    <3> QED BY <3>1, <3>2
  <2>2. ASSUME NEW r \in T PROVE \E i \in 1 .. m + n : u[i] = r
    <3>1. PICK i \in 1 .. n : t[i] = r
      BY <2>2 DEF Lists
    <3>2. m + i \in 1 .. m + n /\ ~(m + i <= m) /\ (m + i) - m = i
      BY <1>2, <3>1
    <3>3. u[m + i] = t[i]
      BY <1>2, <3>2
    <3> QED BY <3>1, <3>2, <3>3
  <2> QED BY <2>1, <2>2
<1>6. ASSUME NEW i \in 1 .. m + n, NEW j \in 1 .. m + n, i < j
      PROVE  Rank[u[i]] < Rank[u[j]]
  <2>1. CASE i \in 1 .. m /\ j \in 1 .. m
    BY <1>2, <1>6, <2>1 DEF Lists
  <2>2. CASE i \in 1 .. m /\ j \notin 1 .. m
    <3>1. u[i] = s[i] /\ j - m \in 1 .. n /\ u[j] = t[j - m]
      BY <1>2, <1>6, <2>2
    <3>2. s[i] \in S /\ t[j - m] \in T
      BY <2>2, <3>1 DEF Lists
    <3> QED BY <3>1, <3>2
  <2>3. CASE i \notin 1 .. m
    <3>1. /\ i - m \in 1 .. n /\ j - m \in 1 .. n /\ i - m < j - m
          /\ u[i] = t[i - m] /\ u[j] = t[j - m]
      BY <1>2, <1>6, <2>3
    <3> QED BY <3>1 DEF Lists
  <2> QED BY <2>1, <2>2, <2>3
<1> QED BY <1>2, <1>4, <1>5, <1>6 DEF Lists, u

MainThings == {"openai", "slack", "teams", "ph", "store", "core"}

\* The end of main.
LEMMA MainEndLists == Lists(MainEnd, MainThings)
<1>1. Lists(<<"openai", "slack", "teams", "ph">>, {"openai", "slack", "teams", "ph"})
  BY DEF Lists, Rank, Names, Optional, Plugins
<1>2. Lists(<<"store", "core">>, {"store", "core"})
  BY DEF Lists, Rank, Names, Optional, Plugins
<1>3. \A a \in {"openai", "slack", "teams", "ph"}, b \in {"store", "core"} : Rank[a] < Rank[b]
  BY DEF Rank
<1>4. MainThings = {"openai", "slack", "teams", "ph"} \cup {"store", "core"}
  BY DEF MainThings
<1> QED BY <1>1, <1>2, <1>3, <1>4, ListsConcat DEF MainEnd, edge_plugin_host_destroy

\* What edge_iouring_run holds when it fails at a stage, if everything is there.
LoopThings(failed) ==
  CASE failed = "tls"    -> {"own_store"}
    [] failed = "hub"    -> {"tls", "own_store"}
    [] failed = "conns"  -> {"hub", "tls", "own_store"}
    [] failed = "listen" -> {"conns", "hub", "tls", "own_store"}
    [] failed = "ring"   -> {"listen", "conns", "hub", "tls", "own_store"}
    [] failed = "accept" -> {"ring", "listen", "conns", "hub", "tls", "own_store"}

Failing == {"tls", "hub", "conns", "listen", "ring", "accept"}

\* Its early returns, each followed by the end of main.
LEMMA CleanupLists ==
  ASSUME NEW f \in Failing
  PROVE  Lists(Cleanup(f) \o MainEnd, LoopThings(f) \cup MainThings)
<1>1. Lists(Cleanup(f), LoopThings(f))
  <2>1. CASE f = "tls"
    BY <2>1 DEF Cleanup, LoopThings, Lists, Rank, Names, Optional, Plugins
  <2>2. CASE f = "hub"
    BY <2>2 DEF Cleanup, LoopThings, Lists, Rank, Names, Optional, Plugins
  <2>3. CASE f = "conns"
    BY <2>3 DEF Cleanup, LoopThings, Lists, Rank, Names, Optional, Plugins
  <2>4. CASE f = "listen"
    BY <2>4 DEF Cleanup, LoopThings, Lists, Rank, Names, Optional, Plugins
  <2>5. CASE f = "ring"
    BY <2>5 DEF Cleanup, LoopThings, Lists, Rank, Names, Optional, Plugins
  <2>6. CASE f = "accept"
    BY <2>6 DEF Cleanup, LoopThings, LoopEnd, Lists, Rank, Names, Optional, Plugins
  <2> QED BY <2>1, <2>2, <2>3, <2>4, <2>5, <2>6 DEF Failing
<1>2. \A a \in LoopThings(f), b \in MainThings : Rank[a] < Rank[b]
  BY DEF LoopThings, MainThings, Rank, Failing
<1> QED BY <1>1, <1>2, MainEndLists, ListsConcat

-------------------------------------------------------------------------------
(* Ways up and down *)

\* A return whose list names all that is held, and nothing else but what may be NULL.
LEMMA GoesDown ==
  ASSUME UpDownInv, stage \notin {"boot", "down", "gone"}, NEW order, NEW S, Lists(order, S),
         GiveBack(order), live' = live, pc' = pc, Held \subseteq S, S \subseteq Held \cup Optional
  PROVE  UpDownInv'
<1>1. stage' = "down" /\ todo' = order /\ Held' = Held
  BY DEF GiveBack, Held
<1>2. HeldInv'
  BY <1>1 DEF UpDownInv, HeldInv
<1>3. PointsInv'
  BY <1>1 DEF UpDownInv, PointsInv
<1>4. order \in Seq(Names) /\ Len(order) \in Nat
  BY DEF Lists
<1>5. \A i \in 1 .. Len(order) : order[i] \in Names /\ Rank[order[i]] \in Nat
  <2>1. \A r \in Names : Rank[r] \in Nat
    BY DEF Names, Optional, Plugins, Rank
  <2> QED BY <1>4, <2>1
<1>6. \A i, j \in 1 .. Len(order) : i < j => order[i] # order[j]
  BY <1>5 DEF Lists
<1>7. ASSUME NEW i \in 1 .. Len(order), NEW j \in 1 .. Len(order),
             order[i] \in Held, order[j] \in live[order[i]]
      PROVE  i < j
  <2>1. Rank[order[i]] < Rank[order[j]]
    BY <1>7 DEF UpDownInv, PointsInv
  <2>2. ~(j < i) /\ i # j
    BY <1>5, <2>1 DEF Lists
  <2> QED BY <1>4, <2>2
<1>8. \A r \in Held : \E i \in 1 .. Len(order) : order[i] = r
  BY DEF Lists
<1>9. \A i \in 1 .. Len(order) : order[i] \in Held \cup Optional
  BY DEF Lists
<1>10. DownInv'
  BY <1>1, <1>4, <1>6, <1>7, <1>8, <1>9 DEF DownInv
<1>11. ExitInv'
  BY <1>1 DEF UpDownInv, ExitInv, Stages
<1> QED BY <1>2, <1>3, <1>10, <1>11 DEF UpDownInv

\* A step to another stage that takes nothing.
LEMMA GoesOn ==
  ASSUME UpDownInv, stage \notin {"boot", "down", "gone"}, NEW next \in Stages \ {"down"},
         Skip(next), pc' \notin {"boot", "exit"},
         next \in {"auth", "host", "ph"} => stage \in {"auth", "host", "ph"}
  PROVE  Held' = Held /\ stage' = next /\ PointsInv' /\ DownInv' /\ ExitInv'
<1>1. Held' = Held /\ stage' = next /\ live' = live /\ todo' = todo
  BY DEF Skip, Held
<1>2. PointsInv'
  BY <1>1 DEF UpDownInv, PointsInv
<1>3. DownInv'
  BY <1>1 DEF UpDownInv, DownInv
<1>4. ExitInv'
  BY <1>1 DEF ExitInv
<1> QED BY <1>1, <1>2, <1>3, <1>4

\* A step that takes something, which points to what is there and of higher rank.
LEMMA Takes ==
  ASSUME UpDownInv, stage \notin {"boot", "down", "gone"}, NEW next \in Stages \ {"down"},
         NEW r, NEW to, Acquire(r, to, next), pc' \notin {"boot", "exit"}, r \notin Held,
         to \subseteq Held, \A x \in to : Rank[r] < Rank[x],
         next \in {"auth", "host", "ph"} => to = {} /\ stage \in {"auth", "host", "ph"}
  PROVE  Held' = Held \cup {r} /\ stage' = next /\ PointsInv' /\ DownInv' /\ ExitInv'
<1>1. /\ Held' = Held \cup {r} /\ stage' = next /\ todo' = todo
      /\ live'[r] = to /\ \A x \in Held : live'[x] = live[x]
  BY DEF Acquire, Held
<1>2. PointsInv'
  BY <1>1 DEF UpDownInv, PointsInv
<1>3. DownInv'
  BY <1>1 DEF UpDownInv, DownInv
<1>4. ExitInv'
  BY <1>1 DEF ExitInv
<1> QED BY <1>1, <1>2, <1>3, <1>4

-------------------------------------------------------------------------------
(* The steps of main *)

\* Nothing is held at first.
LEMMA UpDownInit == StartInit => UpDownInv
<1> SUFFICES ASSUME StartInit PROVE UpDownInv
  OBVIOUS
<1>1. Held = {} /\ stage = "boot" /\ todo = <<>>
  BY DEF StartInit, Held
<1>2. HeldInv
  BY <1>1 DEF HeldInv, Running
<1>3. PointsInv /\ DownInv
  BY <1>1 DEF PointsInv, DownInv
<1>4. ExitInv
  BY <1>1 DEF ExitInv, Stages
<1> QED BY <1>2, <1>3, <1>4 DEF UpDownInv

\* The core is the first thing; without it there is nothing to give back.
LEMMA UpDownBoot ==
  ASSUME UpDownInv, BootCore
  PROVE  UpDownInv'
<1>0. stage = "boot" /\ pc = "boot" /\ pc' \in {"startup", "exit"}
  BY DEF UpDownInv, ExitInv, BootCore, Boot
<1>1. CASE pc' = "startup"
  <2>1. /\ stage' = "auth" /\ todo' = todo /\ Held' = {"core"}
        /\ \A r \in Held' : live'[r] = {}
    BY <1>1 DEF BootCore, Held
  <2>2. HeldInv'
    BY <2>1 DEF HeldInv, Running, Names
  <2>3. PointsInv'
    BY <2>1 DEF PointsInv
  <2>4. DownInv'
    BY <1>0, <2>1 DEF UpDownInv, DownInv
  <2>5. ExitInv'
    BY <1>1, <2>1 DEF ExitInv, Stages
  <2> QED BY <2>2, <2>3, <2>4, <2>5 DEF UpDownInv
<1>2. CASE pc' # "startup"
  <2>1. live' = live /\ stage' = stage /\ todo' = todo /\ Held' = Held
    BY <1>2 DEF BootCore, Held
  <2>2. HeldInv' /\ PointsInv' /\ DownInv'
    BY <2>1 DEF UpDownInv, HeldInv, PointsInv, DownInv
  <2>3. ExitInv'
    BY <1>0, <1>2, <2>1 DEF ExitInv, Stages
  <2> QED BY <2>2, <2>3 DEF UpDownInv
<1> QED BY <1>1, <1>2

\* A stage on the way is neither before the start nor after the end.
LEMMA OnTheWay ==
  ASSUME UpDownInv, stage \notin {"boot", "gone"}
  PROVE  pc \notin {"boot", "exit"}
BY DEF UpDownInv, ExitInv

\* Without its secrets a mode does not start; only the core is there by then.
LEMMA UpDownAuth ==
  ASSUME UpDownInv, NEW usable, edge_auth_ctx_from_config(usable)
  PROVE  UpDownInv'
<1>1. stage = "auth" /\ live' = live /\ pc' = pc
  BY DEF edge_auth_ctx_from_config, vars
<1>2. CASE stage' = "host" /\ todo' = todo
  <2>1. Held' = Held
    BY <1>1 DEF Held
  <2>2. HeldInv'
    BY <1>1, <1>2, <2>1 DEF UpDownInv, HeldInv, Running
  <2>3. PointsInv' /\ DownInv'
    BY <1>1, <1>2, <2>1 DEF UpDownInv, PointsInv, DownInv
  <2>4. ExitInv'
    BY <1>1, <1>2, OnTheWay DEF ExitInv, Stages
  <2> QED BY <2>2, <2>3, <2>4 DEF UpDownInv
<1>3. CASE GiveBack(<<"core">>)
  <2>1. Lists(<<"core">>, {"core"})
    BY DEF Lists, Rank, Names
  <2>2. Held = {"core"}
    BY <1>1 DEF UpDownInv, HeldInv, Names, Optional, Plugins, Running
  <2> QED BY <1>1, <1>3, <2>1, <2>2, GoesDown
<1> QED BY <1>2, <1>3 DEF edge_auth_ctx_from_config

\* The store, if anyone wants one and there is memory for it.
LEMMA UpDownStore ==
  ASSUME UpDownInv, CreateStore
  PROVE  UpDownInv'
<1>1. stage = "host" /\ pc' = pc /\ pc' \notin {"boot", "exit"}
  BY OnTheWay DEF CreateStore, vars
<1>2. ASSUME NEW next \in {"drain", "ph"}, Skip(next) PROVE UpDownInv'
  <2>1. Held' = Held /\ stage' = next /\ PointsInv' /\ DownInv' /\ ExitInv'
    BY <1>1, <1>2, GoesOn DEF Stages
  <2>2. HeldInv'
    BY <1>1, <2>1 DEF UpDownInv, HeldInv, Running
  <2> QED BY <2>1, <2>2 DEF UpDownInv
<1>3. CASE Acquire("store", {}, "ph")
  <2>0. "store" \notin Held
    BY <1>1 DEF UpDownInv, HeldInv
  <2>1. Held' = Held \cup {"store"} /\ stage' = "ph" /\ PointsInv' /\ DownInv' /\ ExitInv'
    BY <1>1, <1>3, <2>0, Takes DEF Stages
  <2>2. HeldInv'
    BY <1>1, <2>1 DEF UpDownInv, HeldInv, Running, Names, Optional
  <2> QED BY <2>1, <2>2 DEF UpDownInv
<1> QED BY <1>2, <1>3 DEF CreateStore

\* The plugin host; its failure gives back in another order, which is safe because
\* neither of the two points to the other.
LEMMA UpDownHost ==
  ASSUME UpDownInv, edge_plugin_host_create
  PROVE  UpDownInv'
<1>1. stage = "ph" /\ pc' = pc /\ pc' \notin {"boot", "exit"}
  BY OnTheWay DEF edge_plugin_host_create, vars
<1>2. "core" \in Held /\ Held \subseteq {"core", "store"} /\ \A r \in Held : live[r] = {}
  BY <1>1 DEF UpDownInv, HeldInv, PointsInv, Names, Optional, Plugins, Running
<1>3. CASE Acquire("ph", {"store"} \cap Held, "openai")
  <2>1. \A x \in {"store"} \cap Held : Rank["ph"] < Rank[x]
    BY DEF Rank
  <2>2. Held' = Held \cup {"ph"} /\ stage' = "openai" /\ PointsInv' /\ DownInv' /\ ExitInv'
    BY <1>1, <1>2, <1>3, <2>1, Takes DEF Stages
  <2>3. HeldInv'
    BY <1>1, <1>2, <2>2 DEF UpDownInv, HeldInv, Running, Names, Optional
  <2> QED BY <2>2, <2>3 DEF UpDownInv
<1>4. CASE Fail(<<"core", "store">>)
  <2> DEFINE order == <<"core", "store">>
  <2>1. /\ order \in Seq(Names) /\ Len(order) = 2 /\ order[1] = "core" /\ order[2] = "store"
    BY DEF Names, Optional
  <2>2. stage' = "down" /\ todo' = order /\ live' = live /\ Held' = Held
    BY <1>4 DEF Fail, GiveBack, Held
  <2> HIDE DEF order
  <2>3. HeldInv' /\ PointsInv'
    BY <2>2 DEF UpDownInv, HeldInv, PointsInv
  <2>4. DownInv'
    <3>1. /\ \A i \in 1 .. Len(order) : i = 1 \/ i = 2
          /\ 1 \in 1 .. Len(order) /\ 2 \in 1 .. Len(order)
      BY <2>1
    <3>2. \A r \in Held : \E i \in 1 .. Len(order) : order[i] = r
      <4>1. \A r \in Held : r = order[1] \/ r = order[2]
        BY <1>2, <2>1
      <4> QED BY <3>1, <4>1
    <3>3. \A i \in 1 .. Len(order) : order[i] \in Held \cup Optional
      BY <1>2, <2>1, <3>1 DEF Optional
    <3>4. \A i, j \in 1 .. Len(order) : i < j => order[i] # order[j]
      BY <2>1, <3>1
    <3>5. \A i, j \in 1 .. Len(order) : order[i] \in Held /\ order[j] \in live[order[i]] => i < j
      BY <1>2
    <3> QED BY <2>1, <2>2, <3>2, <3>3, <3>4, <3>5 DEF DownInv
  <2>5. ExitInv'
    BY <1>1, <2>2 DEF ExitInv, Stages
  <2> QED BY <2>3, <2>4, <2>5 DEF UpDownInv
<1> QED BY <1>3, <1>4 DEF edge_plugin_host_create

\* A plugin points to the plugin host.
LEMMA UpDownRegister ==
  ASSUME UpDownInv, NEW p, NEW next,
         \/ p = "openai" /\ next = "slack"
         \/ p = "slack" /\ next = "teams"
         \/ p = "teams" /\ next = "drain",
         Register(p, next)
  PROVE  UpDownInv'
<1>1. stage = p /\ pc' = pc /\ pc' \notin {"boot", "exit"}
  BY OnTheWay DEF Register, vars
<1>2. /\ p \notin Held /\ "ph" \in Held /\ "core" \in Held /\ Held \subseteq MainThings
      /\ next \in Stages
  BY <1>1 DEF UpDownInv, HeldInv, Names, Optional, Plugins, Running, MainThings, Stages
<1>3. CASE Skip(next)
  <2>1. Held' = Held /\ stage' = next /\ PointsInv' /\ DownInv' /\ ExitInv'
    BY <1>1, <1>2, <1>3, GoesOn
  <2>2. HeldInv'
    BY <1>1, <2>1 DEF UpDownInv, HeldInv, Running
  <2> QED BY <2>1, <2>2 DEF UpDownInv
<1>4. CASE Acquire(p, {"ph"}, next)
  <2>1. Rank[p] < Rank["ph"]
    BY DEF Rank
  <2>2. Held' = Held \cup {p} /\ stage' = next /\ PointsInv' /\ DownInv' /\ ExitInv'
    BY <1>1, <1>2, <1>4, <2>1, Takes
  <2>3. HeldInv'
    BY <1>1, <1>2, <2>2 DEF UpDownInv, HeldInv, Running, Names, Optional, Plugins
  <2> QED BY <2>2, <2>3 DEF UpDownInv
<1>5. CASE Fail(MainEnd)
  <2>1. MainThings \subseteq Held \cup Optional
    BY <1>2 DEF MainThings, Optional, Plugins
  <2> QED BY <1>1, <1>2, <1>5, <2>1, MainEndLists, GoesDown DEF Fail
<1> QED BY <1>3, <1>4, <1>5 DEF Register

-------------------------------------------------------------------------------
(* The steps of edge_iouring_run *)

\* A step that takes nothing, on the way to the loop and in it.
LEMMA UpDownSkip ==
  ASSUME UpDownInv, NEW next, Skip(next), pc' \notin {"boot", "exit"},
         \/ stage = "drain" /\ next = "own_store"
         \/ stage = "own_store" /\ next = "tls"
         \/ stage = "tls" /\ next = "hub"
         \/ stage = "accept" /\ next = "serving"
         \/ stage \in Running /\ next \in Running
  PROVE  UpDownInv'
<1>1. next \in Stages /\ stage \notin {"boot", "down", "gone"}
      /\ next \notin {"down", "auth", "host", "ph"}
  BY DEF Stages, Running
<1>2. Held' = Held /\ stage' = next /\ PointsInv' /\ DownInv' /\ ExitInv'
  BY <1>1, GoesOn
<1>3. HeldInv'
  BY <1>2 DEF UpDownInv, HeldInv, Running
<1> QED BY <1>2, <1>3 DEF UpDownInv

\* Its own store.
LEMMA UpDownOwnStore ==
  ASSUME UpDownInv, OwnStore
  PROVE  UpDownInv'
<1>1. stage = "own_store" /\ pc' \notin {"boot", "exit"}
  BY OnTheWay DEF OwnStore, vars
<1>2. CASE Skip("tls")
  BY <1>1, <1>2, UpDownSkip
<1>3. CASE Acquire("own_store", {}, "tls")
  <2>1. "own_store" \notin Held
    BY <1>1 DEF UpDownInv, HeldInv, Running
  <2>2. Held' = Held \cup {"own_store"} /\ stage' = "tls" /\ PointsInv' /\ DownInv' /\ ExitInv'
    BY <1>1, <1>3, <2>1, Takes DEF Stages
  <2>3. HeldInv'
    BY <1>1, <2>2 DEF UpDownInv, HeldInv, Running, Names, Optional
  <2> QED BY <2>2, <2>3 DEF UpDownInv
<1> QED BY <1>2, <1>3 DEF OwnStore

\* What is held when edge_iouring_run fails is what its cleanup and main name.
LEMMA UpDownFail ==
  ASSUME UpDownInv, NEW f \in Failing, stage = f, Fail(Cleanup(f) \o MainEnd), pc' = pc
  PROVE  UpDownInv'
<1>1. Held \subseteq LoopThings(f) \cup MainThings
  BY DEF UpDownInv, HeldInv, Names, Optional, Plugins, Running, LoopThings, MainThings, Failing
<1>2. LoopThings(f) \cup MainThings \subseteq Held \cup Optional
  BY DEF UpDownInv, HeldInv, Optional, Plugins, Running, LoopThings, MainThings, Failing
<1>3. stage \notin {"boot", "down", "gone"}
  BY DEF Failing
<1> QED BY <1>1, <1>2, <1>3, CleanupLists, GoesDown DEF Fail

\* The five things it sets up.
LEMMA UpDownSetUp ==
  ASSUME UpDownInv, NEW r, NEW to, NEW next,
         \/ r = "tls" /\ to = {} /\ next = "hub"
         \/ r = "hub" /\ to = {} /\ next = "conns"
         \/ r = "conns" /\ to = Held /\ next = "listen"
         \/ r = "listen" /\ to = {} /\ next = "ring"
         \/ r = "ring" /\ to = {"conns", "listen"} /\ next = "accept",
         SetUp(r, to, next)
  PROVE  UpDownInv'
<1>1. stage = r /\ pc' = pc /\ pc' \notin {"boot", "exit"} /\ r \in Failing
  BY OnTheWay DEF SetUp, vars, Failing
<1>2. CASE Acquire(r, to, next)
  <2>1. r \notin Held /\ to \subseteq Held /\ r \in Names
    BY <1>1 DEF UpDownInv, HeldInv, Running, Names, Optional
  <2>2. \A x \in to : Rank[r] < Rank[x]
    <3>1. CASE r = "conns"
      <4>1. Held \subseteq MainThings \cup {"own_store", "tls", "hub"}
        BY <1>1, <3>1 DEF UpDownInv, HeldInv, Names, Optional, Plugins, Running, MainThings
      <4>2. \A x \in MainThings \cup {"own_store", "tls", "hub"} : Rank["conns"] < Rank[x]
        BY DEF MainThings, Rank
      <4> QED BY <3>1, <4>1, <4>2
    <3>2. CASE r = "ring"
      BY <3>2 DEF Rank
    <3>3. CASE r \notin {"conns", "ring"}
      BY <3>3
    <3> QED BY <3>1, <3>2, <3>3
  <2>3. next \in Stages \ {"down"} /\ next \notin {"auth", "host", "ph"}
    BY DEF Stages
  <2>4. Held' = Held \cup {r} /\ stage' = next /\ PointsInv' /\ DownInv' /\ ExitInv'
    BY <1>1, <1>2, <2>1, <2>2, <2>3, Takes DEF Failing
  <2>5. HeldInv'
    BY <1>1, <2>1, <2>4 DEF UpDownInv, HeldInv, Running
  <2> QED BY <2>4, <2>5 DEF UpDownInv
<1>3. CASE Fail(Cleanup(r) \o MainEnd)
  BY <1>1, <1>3, UpDownFail
<1> QED BY <1>2, <1>3 DEF SetUp

\* All of them, and the first accept.
LEMMA UpDownSetUpLoop ==
  ASSUME UpDownInv, SetUpLoop
  PROVE  UpDownInv'
<1>1. CASE OwnStore
  BY <1>1, UpDownOwnStore
<1>2. CASE edge_tls_ctx_create
  <2>1. CASE SetUp("tls", {}, "hub")
    BY <2>1, UpDownSetUp
  <2>2. CASE stage = "tls" /\ Skip("hub") /\ UNCHANGED vars
    <3>1. pc' \notin {"boot", "exit"}
      BY <2>2, OnTheWay DEF vars
    <3> QED BY <2>2, <3>1, UpDownSkip
  <2> QED BY <1>2, <2>1, <2>2 DEF edge_tls_ctx_create
<1>3. CASE edge_ws_hub_create
  BY <1>3, UpDownSetUp DEF edge_ws_hub_create
<1>4. CASE SetUp("conns", Held, "listen")
  BY <1>4, UpDownSetUp
<1>5. CASE create_listen_socket
  BY <1>5, UpDownSetUp DEF create_listen_socket
<1>6. CASE SetUp("ring", {"conns", "listen"}, "accept")
  BY <1>6, UpDownSetUp
<1>7. CASE stage = "accept" /\ UNCHANGED vars /\ Skip("serving")
  <2>1. pc' \notin {"boot", "exit"}
    BY <1>7, OnTheWay DEF vars
  <2> QED BY <1>7, <2>1, UpDownSkip
<1>8. CASE stage = "accept" /\ UNCHANGED vars /\ Fail(Cleanup("accept") \o MainEnd)
  BY <1>8, UpDownFail DEF Failing, vars
<1> QED BY <1>1, <1>2, <1>3, <1>4, <1>5, <1>6, <1>7, <1>8 DEF SetUpLoop

\* The loop, which holds everything, and its end.
LEMMA UpDownLoop ==
  ASSUME UpDownInv, should_stop \/ Wake \/ CallUpstream \/ UpstreamReturns \/ LoopEnds
  PROVE  UpDownInv'
<1>1. stage \in Running /\ pc' = pc /\ pc' \notin {"boot", "exit"}
  BY OnTheWay DEF should_stop, Wake, CallUpstream, UpstreamReturns, LoopEnds, vars, Running
<1>2. ASSUME NEW next \in Running, Skip(next) PROVE UpDownInv'
  BY <1>1, <1>2, UpDownSkip
<1>3. CASE Fail(LoopEnd \o MainEnd)
  <2>1. Cleanup("accept") = LoopEnd
    BY DEF Cleanup
  <2>2. Lists(LoopEnd \o MainEnd, LoopThings("accept") \cup MainThings)
    BY <2>1, CleanupLists DEF Failing
  <2>3. Held \subseteq LoopThings("accept") \cup MainThings
    BY DEF UpDownInv, HeldInv, Names, Optional, Plugins, LoopThings, MainThings
  <2>4. LoopThings("accept") \cup MainThings \subseteq Held \cup Optional
    BY <1>1 DEF UpDownInv, HeldInv, Optional, Plugins, Running, LoopThings, MainThings
  <2> QED BY <1>1, <1>3, <2>2, <2>3, <2>4, GoesDown DEF Fail, Running
<1> QED BY <1>2, <1>3 DEF should_stop, Wake, CallUpstream, UpstreamReturns, LoopEnds, Running

\* One of the calls of a return: what it frees is pointed to by nothing that is left.
LEMMA UpDownRelease ==
  ASSUME UpDownInv, Release
  PROVE  UpDownInv'
<1> DEFINE h == Head(todo)
<1>1. /\ stage = "down" /\ stage' = "down" /\ pc' = pc /\ todo # <<>> /\ todo \in Seq(Names)
      /\ todo' = Tail(todo) /\ Held' = Held \ {h} /\ \A r \in Held' : live'[r] = live[r]
  BY DEF UpDownInv, DownInv, Release, Held, vars
<1>2. /\ Len(todo) \in Nat /\ Len(todo) > 0 /\ h = todo[1] /\ h \in Names
      /\ todo' \in Seq(Names) /\ Len(todo') = Len(todo) - 1
      /\ \A i \in 1 .. Len(todo) - 1 : todo'[i] = todo[i + 1]
  BY <1>1
<1> HIDE DEF h
<1>3. \A i \in 1 .. Len(todo') : i + 1 \in 1 .. Len(todo) /\ todo'[i] = todo[i + 1] /\ i + 1 > 1
  BY <1>2
<1>4. 1 \in 1 .. Len(todo)
  BY <1>2
<1>5. \A r \in Held' : \E i \in 1 .. Len(todo') : todo'[i] = r
  <2> SUFFICES ASSUME NEW r \in Held' PROVE \E i \in 1 .. Len(todo') : todo'[i] = r
    OBVIOUS
  <2>1. r \in Held /\ r # h
    BY <1>1
  <2>2. PICK k \in 1 .. Len(todo) : todo[k] = r
    BY <1>1, <2>1 DEF UpDownInv, DownInv
  <2>3. k # 1
    BY <1>2, <2>1, <2>2
  <2>4. k - 1 \in 1 .. Len(todo') /\ (k - 1) + 1 = k
    BY <1>2, <2>2, <2>3
  <2> QED BY <1>2, <2>2, <2>4
<1>6. \A i \in 1 .. Len(todo') : todo'[i] \in Held' \cup Optional
  <2> SUFFICES ASSUME NEW i \in 1 .. Len(todo') PROVE todo'[i] \in Held' \cup Optional
    OBVIOUS
  <2>1. todo[i + 1] \in Held \cup Optional /\ todo[i + 1] # todo[1]
    BY <1>1, <1>3, <1>4 DEF UpDownInv, DownInv
  <2> QED BY <1>1, <1>2, <1>3, <2>1
<1>7. \A i, j \in 1 .. Len(todo') : i < j => todo'[i] # todo'[j]
  <2> SUFFICES ASSUME NEW i \in 1 .. Len(todo'), NEW j \in 1 .. Len(todo'), i < j
               PROVE  todo'[i] # todo'[j]
    OBVIOUS
  <2>1. i + 1 < j + 1
    BY <1>2
  <2> QED BY <1>1, <1>3, <2>1 DEF UpDownInv, DownInv
<1>8. ASSUME NEW i \in 1 .. Len(todo'), NEW j \in 1 .. Len(todo'),
             todo'[i] \in Held', todo'[j] \in live'[todo'[i]]
      PROVE  i < j
  <2>1. todo[i + 1] \in Held /\ todo[j + 1] \in live[todo[i + 1]]
    BY <1>1, <1>3, <1>8
  <2>2. i + 1 < j + 1
    BY <1>1, <1>3, <2>1 DEF UpDownInv, DownInv
  <2> QED BY <1>2, <2>2
<1>9. DownInv'
  BY <1>1, <1>2, <1>5, <1>6, <1>7, <1>8 DEF DownInv
<1>10. HeldInv'
  BY <1>1 DEF UpDownInv, HeldInv
<1>11. ASSUME NEW r \in Held', NEW x \in live'[r] PROVE x \in Held' /\ Rank[r] < Rank[x]
  <2>1. r \in Held /\ r # h /\ x \in live[r]
    BY <1>1, <1>11
  <2>2. x \in Held /\ Rank[r] < Rank[x]
    BY <2>1 DEF UpDownInv, PointsInv
  <2>3. x # h
    <3>1. PICK k \in 1 .. Len(todo) : todo[k] = r
      BY <1>1, <2>1 DEF UpDownInv, DownInv
    <3>2. ASSUME x = h PROVE k < 1
      BY <1>1, <1>2, <1>4, <2>1, <3>1, <3>2 DEF UpDownInv, DownInv
    <3> QED BY <1>2, <3>1, <3>2
  <2> QED BY <1>1, <2>2, <2>3
<1>12. PointsInv'
  BY <1>1, <1>11 DEF PointsInv
<1>13. ExitInv'
  BY <1>1 DEF UpDownInv, ExitInv
<1> QED BY <1>9, <1>10, <1>12, <1>13 DEF UpDownInv

\* main returns when no call is left, and then nothing is.
LEMMA UpDownReturn ==
  ASSUME UpDownInv, Return
  PROVE  UpDownInv'
<1>1. stage = "down" /\ todo = <<>> /\ stage' = "gone" /\ live' = live /\ todo' = todo /\ pc' = "exit"
  BY DEF Return, Leave
<1>2. Held = {} /\ Held' = {}
  BY <1>1 DEF UpDownInv, DownInv, Held
<1>3. HeldInv'
  BY <1>1, <1>2 DEF HeldInv, Running
<1>4. PointsInv' /\ DownInv'
  BY <1>1, <1>2 DEF PointsInv, DownInv
<1>5. ExitInv'
  BY <1>1 DEF ExitInv, Stages
<1> QED BY <1>3, <1>4, <1>5 DEF UpDownInv

\* Steps that neither take nor free: the reload, the signals, the edits.
LEMMA UpDownElsewhere ==
  ASSUME UpDownInv, UNCHANGED <<stage, live, todo>>,
         pc' = pc \/ (stage = "waiting" /\ pc' \notin {"boot", "exit"})
  PROVE  UpDownInv'
<1>1. Held' = Held
  BY DEF Held
<1>2. HeldInv'
  BY <1>1 DEF UpDownInv, HeldInv
<1>3. PointsInv' /\ DownInv'
  BY <1>1 DEF UpDownInv, PointsInv, DownInv
<1>4. ExitInv'
  BY DEF UpDownInv, ExitInv
<1> QED BY <1>2, <1>3, <1>4 DEF UpDownInv

\* Every step of the process and of the world around it.
LEMMA UpDownNext ==
  ASSUME UpDownInv, [StartNext]_allVars
  PROVE  UpDownInv'
<1>1. CASE BootCore
  BY <1>1, UpDownBoot
<1>2. ASSUME NEW usable, edge_auth_ctx_from_config(usable) PROVE UpDownInv'
  BY <1>2, UpDownAuth
<1>3. CASE CreateStore \/ edge_plugin_host_create
  BY <1>3, UpDownStore, UpDownHost
<1>4. CASE edge_openai_proxy_init_plugin \/ edge_slack_init_plugin \/ edge_teams_init_plugin
  BY <1>4, UpDownRegister
  DEF edge_openai_proxy_init_plugin, edge_slack_init_plugin, edge_teams_init_plugin
<1>5. CASE DrainHup
  <2>1. stage = "drain" /\ Skip("own_store") /\ pc' \notin {"boot", "exit"}
    BY <1>5 DEF DrainHup, Drain
  <2> QED BY <2>1, UpDownSkip
<1>6. CASE SetUpLoop
  BY <1>6, UpDownSetUpLoop
<1>7. CASE Reload
  BY <1>7, UpDownElsewhere DEF Reload, TestFlag, ClearFlag, Load, Apply, proc
<1>8. CASE should_stop \/ Wake \/ CallUpstream \/ UpstreamReturns \/ LoopEnds
  BY <1>8, UpDownLoop
<1>9. CASE Release
  BY <1>9, UpDownRelease
<1>10. CASE Return
  BY <1>10, UpDownReturn
<1>11. CASE on_stop
  BY <1>11, UpDownElsewhere DEF on_stop, vars
<1>12. CASE Outside
  BY <1>12, UpDownElsewhere DEF Outside, EditFile, edgehost_on_hup, proc
<1>13. CASE UNCHANGED allVars
  BY <1>13, UpDownElsewhere DEF allVars, vars, proc
<1> QED
  BY <1>1, <1>2, <1>3, <1>4, <1>5, <1>6, <1>7, <1>8, <1>9, <1>10, <1>11, <1>12, <1>13
  DEF StartNext, Process

\* Whatever fails in main or edge_iouring_run, and whenever SIGTERM comes, the
\* cleanups free everything once, users before what they use.
THEOREM ExitIsClean == StartSpec => []CleanExit
<1>1. UpDownInv /\ [StartNext]_allVars => UpDownInv'
  BY UpDownNext
<1>2. UpDownInv => CleanExit
  <2> SUFFICES ASSUME UpDownInv PROVE CleanExit
    OBVIOUS
  <2>1. \A r \in Held : live[r] \subseteq Held
    BY DEF UpDownInv, PointsInv
  <2>2. todo \in Seq(Names) /\ DOMAIN todo = 1 .. Len(todo) /\ Len(todo) \in Nat
    BY DEF UpDownInv, DownInv
  <2>3. ASSUME NEW i \in DOMAIN todo
        PROVE  /\ todo[i] \in Held \cup Optional
               /\ \A j \in DOMAIN todo : todo[i] = todo[j] => i = j
    <3>1. stage = "down"
      <4>1. todo # <<>>
        BY <2>2, <2>3
      <4> QED BY <4>1 DEF UpDownInv, DownInv
    <3>2. todo[i] \in Held \cup Optional
      BY <2>2, <2>3, <3>1 DEF UpDownInv, DownInv
    <3>3. ASSUME NEW j \in DOMAIN todo, todo[i] = todo[j] PROVE i = j
      <4>1. ~(i < j) /\ ~(j < i)
        BY <2>2, <2>3, <3>1, <3>3 DEF UpDownInv, DownInv
      <4> QED BY <2>2, <2>3, <3>3, <4>1
    <3> QED BY <3>2, <3>3
  <2>4. pc = "exit" => Held = {}
    BY DEF UpDownInv, ExitInv, HeldInv, Names, Optional, Plugins, Running
  <2> QED BY <2>1, <2>3, <2>4 DEF CleanExit
<1> QED BY UpDownInit, <1>1, <1>2, PTL DEF StartSpec

-------------------------------------------------------------------------------
(* The loader *)

\* Induction on the naturals, stated with a set.
LEMMA SetInduction ==
  ASSUME NEW S, 0 \in S, \A n \in Nat : n \in S => n + 1 \in S
  PROVE  \A n \in Nat : n \in S
<1> SUFFICES ASSUME NEW m \in Nat, m \notin S PROVE FALSE
  OBVIOUS
<1> DEFINE T == Nat \ S
<1>1. T \subseteq Nat /\ T # {}
  OBVIOUS
<1>2. PICK x \in T : \A y \in T : ~(<<y, x>> \in OpToRel(<, Nat))
  <2> HIDE DEF T
  <2> QED BY <1>1, NatLessThanWellFounded, WFMin
<1>3. x \in Nat /\ x # 0 /\ x \notin S
  BY <1>2
<1>4. x - 1 \in Nat /\ (x - 1) + 1 = x /\ x - 1 < x
  BY <1>3
<1>5. x - 1 \notin S
  BY <1>3, <1>4
<1>6. <<x - 1, x>> \in OpToRel(<, Nat)
  BY <1>3, <1>4 DEF OpToRel
<1> QED
  BY <1>2, <1>4, <1>5, <1>6

Kinds == {"str", "bool", "port", "size", "u32", "u32z"}

\* The table: every row names a field and a kind
LEMMA TableRows ==
  /\ Len(g_paths) = 65
  /\ \A i \in 1 .. Len(g_paths) : g_paths[i][2] \in Fields /\ g_paths[i][3] \in Kinds
<1>1. Len(g_paths) = 65
  BY DEF g_paths
<1>2. ASSUME NEW i \in 1 .. 65 PROVE g_paths[i][2] \in Fields /\ g_paths[i][3] \in Kinds
  BY DEF g_paths, Fields, Kinds, edge_config_defaults, HostDefaults
<1> QED BY <1>1, <1>2

\* The fields the validator looks at, and what the table lets them take.
LEMMA TableKinds ==
  \A i \in 1 .. Len(g_paths) :
    /\ g_paths[i][2] \in {"listen_host", "auth_mode"} => g_paths[i][3] = "str"
    /\ g_paths[i][2] = "listen_port" => g_paths[i][3] = "port"
    /\ g_paths[i][2] \in {"http_max_body_bytes", "http_max_pending_outbound",
                          "http_max_upstream_body_bytes"} => g_paths[i][3] = "size"
    /\ g_paths[i][2] \in {"auth_session_ttl_s", "auth_proxy_max_skew_s"} => g_paths[i][3] = "u32"
<1>1. Len(g_paths) = 65
  BY DEF g_paths
<1>2. ASSUME NEW i \in 1 .. 65
      PROVE  /\ g_paths[i][2] \in {"listen_host", "auth_mode"} => g_paths[i][3] = "str"
             /\ g_paths[i][2] = "listen_port" => g_paths[i][3] = "port"
             /\ g_paths[i][2] \in {"http_max_body_bytes", "http_max_pending_outbound",
                                   "http_max_upstream_body_bytes"} => g_paths[i][3] = "size"
             /\ g_paths[i][2] \in {"auth_session_ttl_s", "auth_proxy_max_skew_s"} =>
                  g_paths[i][3] = "u32"
  BY DEF g_paths
<1> QED BY <1>1, <1>2

\* The first n steps of the loop.
Steps(c, doc, n) ==
  c = [i \in 0 .. n |-> IF i = 0 THEN Defaults ELSE apply_row(c[i - 1], doc, g_paths[i])]

\* The recursion has a solution: every prefix of it has one.
LEMMA StepsExist ==
  ASSUME NEW doc
  PROVE  \A n \in Nat : \E c : Steps(c, doc, n)
<1> DEFINE S == {n \in Nat : \E c : Steps(c, doc, n)}
<1>1. 0 \in S
  <2> DEFINE c == [i \in 0 .. 0 |-> Defaults]
  <2>1. c = [i \in 0 .. 0 |-> IF i = 0 THEN Defaults ELSE apply_row(c[i - 1], doc, g_paths[i])]
    OBVIOUS
  <2>2. Steps(c, doc, 0)
    BY <2>1 DEF Steps
  <2> QED BY <2>2
<1>2. ASSUME NEW n \in Nat, n \in S PROVE n + 1 \in S
  <2>1. PICK b : Steps(b, doc, n)
    BY <1>2
  <2> DEFINE c == [i \in 0 .. n + 1 |->
                     IF i = n + 1 THEN apply_row(b[n], doc, g_paths[n + 1]) ELSE b[i]]
  <2>2. \A i \in 0 .. n : b[i] = IF i = 0 THEN Defaults ELSE apply_row(b[i - 1], doc, g_paths[i])
    BY <2>1 DEF Steps
  <2>3. \A i \in 0 .. n : c[i] = b[i]
    OBVIOUS
  <2>4. c[n + 1] = apply_row(c[n], doc, g_paths[n + 1])
    BY <2>3
  <2>5. \A i \in 0 .. n + 1 :
          c[i] = IF i = 0 THEN Defaults ELSE apply_row(c[i - 1], doc, g_paths[i])
    <3> TAKE i \in 0 .. n + 1
    <3>1. CASE i = n + 1
      <4>1. i # 0 /\ i - 1 = n
        BY <3>1
      <4> QED BY <2>4, <3>1, <4>1
    <3>2. CASE i # n + 1
      <4>1. i \in 0 .. n /\ (i # 0 => i - 1 \in 0 .. n)
        BY <3>2
      <4> QED BY <2>2, <2>3, <4>1
    <3> QED BY <3>1, <3>2
  <2>6. c = [i \in 0 .. n + 1 |-> c[i]]
    OBVIOUS
  <2> HIDE DEF c
  <2>7. c = [i \in 0 .. n + 1 |-> IF i = 0 THEN Defaults ELSE apply_row(c[i - 1], doc, g_paths[i])]
    BY <2>5, <2>6
  <2>8. Steps(c, doc, n + 1)
    BY <2>7 DEF Steps
  <2> QED BY <2>8
<1> HIDE DEF S
<1>3. \A n \in Nat : n \in S
  BY <1>1, <1>2, SetInduction
<1> QED BY <1>3 DEF S

\* The loop is what its code says: the defaults, then one row after the other.
LEMMA LoopEquation ==
  ASSUME NEW doc
  PROVE  /\ LoadLoop(doc)[0] = Defaults
         /\ \A i \in 1 .. Len(g_paths) :
              LoadLoop(doc)[i] = apply_row(LoadLoop(doc)[i - 1], doc, g_paths[i])
<1> DEFINE N == Len(g_paths)
           L == LoadLoop(doc)
<1>1. N \in Nat
  BY TableRows
<1>2. L = CHOOSE c : Steps(c, doc, N)
  BY Zenon DEF LoadLoop, Steps
<1>3. \E c : Steps(c, doc, N)
  BY <1>1, StepsExist
<1> HIDE DEF N, L
<1>4. Steps(L, doc, N)
  BY <1>2, <1>3
<1>5. \A i \in 0 .. N : L[i] = IF i = 0 THEN Defaults ELSE apply_row(L[i - 1], doc, g_paths[i])
  BY <1>4 DEF Steps
<1>6. L[0] = Defaults /\ \A i \in 1 .. N : L[i] = apply_row(L[i - 1], doc, g_paths[i])
  BY <1>1, <1>5
<1> QED BY <1>6 DEF N, L

\* A value that its field cannot take.
BadRow(d, i) == Says(d, g_paths[i][1]) /\ ~Accepts(g_paths[i][3], d[g_paths[i][1]])

\* Of the first n rows, row i is the last of its field that says something.
DecidesTo(d, i, n) ==
  /\ Says(d, g_paths[i][1])
  /\ \A j \in i + 1 .. n : g_paths[j][2] = g_paths[i][2] => ~Says(d, g_paths[j][1])

ValueOf(d, i) == Stored(g_paths[i][3], d[g_paths[i][1]])

\* What the loop has after n rows: nothing, once a row was bad; otherwise what the
\* last row of every field says.
MeansTo(d, n) ==
  LET c == LoadLoop(d)[n] IN
  IF \E i \in 1 .. n : BadRow(d, i)
  THEN c = NotLoaded
  ELSE /\ c # NotLoaded /\ c = [f \in Fields |-> c[f]]
       /\ \A f \in Fields :
            IF \E i \in 1 .. n : g_paths[i][2] = f /\ DecidesTo(d, i, n)
            THEN \A i \in 1 .. n : g_paths[i][2] = f /\ DecidesTo(d, i, n) => c[f] = ValueOf(d, i)
            ELSE c[f] = Defaults[f]

LEMMA NotLoadedIsNone == \A c : c = [f \in Fields |-> c[f]] => c # NotLoaded
<1> SUFFICES ASSUME NEW c, c = [f \in Fields |-> c[f]], c = NotLoaded PROVE FALSE
  OBVIOUS
<1>1. "listen_host" \in DOMAIN c
  BY DEF Fields, edge_config_defaults
<1>2. "listen_host" \notin DOMAIN NotLoaded
  BY DEF NotLoaded
<1> QED BY <1>1, <1>2

LEMMA MeansBase == ASSUME NEW d PROVE MeansTo(d, 0)
<1>1. LoadLoop(d)[0] = Defaults
  BY LoopEquation
<1>2. Defaults = [f \in Fields |-> Defaults[f]]
  BY DEF Defaults
<1>3. Defaults # NotLoaded
  BY <1>2, NotLoadedIsNone
<1>4. 1 .. 0 = {}
  OBVIOUS
<1> QED BY <1>1, <1>2, <1>3, <1>4 DEF MeansTo

LEMMA MeansStep ==
  ASSUME NEW d, NEW n \in Nat, n + 1 <= Len(g_paths), MeansTo(d, n)
  PROVE  MeansTo(d, n + 1)
<1> DEFINE b == LoadLoop(d)[n]
           c == LoadLoop(d)[n + 1]
           r == g_paths[n + 1]
           k == n + 1
<1>1. n + 1 \in 1 .. Len(g_paths) /\ (n + 1) - 1 = n
  BY TableRows
<1>2. c = apply_row(b, d, r)
  BY <1>1, LoopEquation
<1>3. \A i \in 1 .. n + 1 : i \in 1 .. n \/ i = n + 1
  OBVIOUS
<1>4. 1 .. n \subseteq 1 .. n + 1 /\ n + 1 \in 1 .. n + 1
  OBVIOUS
<1>5. r[2] \in Fields
  BY <1>1, TableRows
<1>b. b = LoadLoop(d)[n] /\ c = LoadLoop(d)[n + 1] /\ r = g_paths[n + 1]
  OBVIOUS
<1> HIDE DEF b, c, r
<1>6. CASE \E i \in 1 .. n : BadRow(d, i)
  <2>1. b = NotLoaded
    BY <1>6, <1>b DEF MeansTo
  <2>2. c = NotLoaded
    BY <1>2, <2>1 DEF apply_row
  <2>3. \E i \in 1 .. n + 1 : BadRow(d, i)
    BY <1>4, <1>6
  <2> QED BY <1>b, <2>2, <2>3 DEF MeansTo
<1>7. CASE ~(\E i \in 1 .. n : BadRow(d, i))
  <2>1. /\ b # NotLoaded /\ b = [f \in Fields |-> b[f]]
        /\ \A f \in Fields :
             IF \E i \in 1 .. n : g_paths[i][2] = f /\ DecidesTo(d, i, n)
             THEN \A i \in 1 .. n : g_paths[i][2] = f /\ DecidesTo(d, i, n) => b[f] = ValueOf(d, i)
             ELSE b[f] = Defaults[f]
    BY <1>7, <1>b DEF MeansTo
  <2>2. CASE BadRow(d, n + 1)
    <3>1. c = NotLoaded
      BY <1>2, <1>b, <2>1, <2>2 DEF apply_row, apply_scalar, BadRow
    <3>2. \E i \in 1 .. n + 1 : BadRow(d, i)
      BY <1>4, <2>2
    <3> QED BY <1>b, <3>1, <3>2 DEF MeansTo
  <2>3. CASE ~BadRow(d, n + 1)
    <3>0. ~(\E i \in 1 .. n + 1 : BadRow(d, i))
      BY <1>3, <1>7, <2>3
    \* A row that says nothing, or nothing to a field, leaves what decides it.
    <3>1. ASSUME NEW f \in Fields, r[2] = f => ~Says(d, r[1]), c[f] = b[f]
          PROVE  IF \E i \in 1 .. n + 1 : g_paths[i][2] = f /\ DecidesTo(d, i, n + 1)
                 THEN \A i \in 1 .. n + 1 :
                        g_paths[i][2] = f /\ DecidesTo(d, i, n + 1) => c[f] = ValueOf(d, i)
                 ELSE c[f] = Defaults[f]
      <4>1. ASSUME NEW i \in 1 .. n + 1, g_paths[i][2] = f, DecidesTo(d, i, n + 1)
            PROVE  i \in 1 .. n /\ DecidesTo(d, i, n)
        <5>1. i # n + 1
          BY <1>b, <3>1, <4>1 DEF DecidesTo
        <5>2. i \in 1 .. n /\ i + 1 .. n \subseteq i + 1 .. n + 1
          BY <5>1
        <5> QED BY <4>1, <5>2 DEF DecidesTo
      <4>2. ASSUME NEW i \in 1 .. n, g_paths[i][2] = f, DecidesTo(d, i, n)
            PROVE  DecidesTo(d, i, n + 1)
        <5>1. \A j \in i + 1 .. n + 1 : j \in i + 1 .. n \/ j = n + 1
          OBVIOUS
        <5> QED BY <1>b, <3>1, <4>2, <5>1 DEF DecidesTo
      <4>3. CASE \E i \in 1 .. n : g_paths[i][2] = f /\ DecidesTo(d, i, n)
        <5>1. \A i \in 1 .. n : g_paths[i][2] = f /\ DecidesTo(d, i, n) => b[f] = ValueOf(d, i)
          BY <2>1, <4>3
        <5>2. \E i \in 1 .. n + 1 : g_paths[i][2] = f /\ DecidesTo(d, i, n + 1)
          BY <1>4, <4>2, <4>3
        <5> QED BY <3>1, <4>1, <5>1, <5>2
      <4>4. CASE ~(\E i \in 1 .. n : g_paths[i][2] = f /\ DecidesTo(d, i, n))
        <5>1. b[f] = Defaults[f]
          BY <2>1, <4>4
        <5>2. ~(\E i \in 1 .. n + 1 : g_paths[i][2] = f /\ DecidesTo(d, i, n + 1))
          BY <4>1, <4>4
        <5> QED BY <3>1, <5>1, <5>2
      <4> QED BY <4>3, <4>4
    <3>2. CASE ~Says(d, r[1])
      <4>1. c = b
        BY <1>2, <3>2 DEF apply_row
      <4>2. \A f \in Fields :
              IF \E i \in 1 .. n + 1 : g_paths[i][2] = f /\ DecidesTo(d, i, n + 1)
              THEN \A i \in 1 .. n + 1 :
                     g_paths[i][2] = f /\ DecidesTo(d, i, n + 1) => c[f] = ValueOf(d, i)
              ELSE c[f] = Defaults[f]
        BY <3>1, <3>2, <4>1
      <4> QED BY <1>b, <2>1, <3>0, <4>1, <4>2 DEF MeansTo
    <3>3. CASE Says(d, r[1])
      <4>1. c = [b EXCEPT ![r[2]] = ValueOf(d, n + 1)]
        BY <1>2, <1>b, <2>1, <2>3, <3>3 DEF apply_row, apply_scalar, BadRow, ValueOf
      <4>2. /\ c = [f \in Fields |-> c[f]] /\ c[r[2]] = ValueOf(d, n + 1)
            /\ \A f \in Fields : f # r[2] => c[f] = b[f]
        BY <1>5, <2>1, <4>1
      <4>3. c # NotLoaded
        BY <4>2, NotLoadedIsNone
      <4>4. ASSUME NEW f \in Fields
            PROVE IF \E i \in 1 .. n + 1 : g_paths[i][2] = f /\ DecidesTo(d, i, n + 1)
              THEN \A i \in 1 .. n + 1 :
                     g_paths[i][2] = f /\ DecidesTo(d, i, n + 1) => c[f] = ValueOf(d, i)
              ELSE c[f] = Defaults[f]
        <5>1. CASE f # r[2]
          BY <3>1, <4>2, <5>1
        <5>2. CASE f = r[2]
          <6>1. (n + 1) + 1 .. n + 1 = {}
            OBVIOUS
          <6>2. g_paths[n + 1][2] = f /\ DecidesTo(d, n + 1, n + 1)
            BY <1>b, <3>3, <5>2, <6>1 DEF DecidesTo
          <6>3. ASSUME NEW i \in 1 .. n, g_paths[i][2] = f, DecidesTo(d, i, n + 1) PROVE FALSE
            <7>1. n + 1 \in i + 1 .. n + 1
              OBVIOUS
            <7> QED BY <1>b, <3>3, <5>2, <6>3, <7>1 DEF DecidesTo
          <6>4. \A i \in 1 .. n + 1 :
                  g_paths[i][2] = f /\ DecidesTo(d, i, n + 1) => c[f] = ValueOf(d, i)
            BY <1>3, <4>2, <5>2, <6>3
          <6> QED BY <1>4, <6>2, <6>4
        <5> QED BY <5>1, <5>2
      <4> QED BY <1>b, <3>0, <4>2, <4>3, <4>4 DEF MeansTo
    <3> QED BY <3>2, <3>3
  <2> QED BY <2>2, <2>3
<1> QED BY <1>6, <1>7

LEMMA MeansAll ==
  ASSUME NEW d
  PROVE  MeansTo(d, Len(g_paths))
<1> DEFINE N == Len(g_paths)
           S == {n \in Nat : n <= N => MeansTo(d, n)}
<1>0. N \in Nat
  BY TableRows
<1>1. 0 \in S
  BY MeansBase
<1>2. ASSUME NEW n \in Nat, n \in S PROVE n + 1 \in S
  <2>1. n + 1 <= N => n <= N
    BY <1>0
  <2> QED BY <1>2, <2>1, MeansStep
<1> HIDE DEF S
<1>3. \A n \in Nat : n \in S
  BY <1>1, <1>2, SetInduction
<1>4. N \in S
  BY <1>0, <1>3
<1> QED BY <1>0, <1>4 DEF S

\* Every field of a loaded document has the value of one of its rows, which accepts it,
\* or its default.
LEMMA LoadedField ==
  ASSUME NEW d, load_from_ctx(d) # NotLoaded, NEW f \in Fields
  PROVE  \/ load_from_ctx(d)[f] = Defaults[f]
         \/ \E i \in 1 .. Len(g_paths) :
              /\ g_paths[i][2] = f /\ load_from_ctx(d)[f] = ValueOf(d, i)
              /\ Says(d, g_paths[i][1]) /\ ~BadRow(d, i)
<1> DEFINE c == load_from_ctx(d)
           N == Len(g_paths)
<1>1. c = LoadLoop(d)[N]
  BY DEF load_from_ctx
<1>2. MeansTo(d, N)
  BY MeansAll
<1> HIDE DEF c, N
<1>3. c # NotLoaded
  BY DEF c
<1>4. ~(\E i \in 1 .. N : BadRow(d, i))
  BY <1>1, <1>2, <1>3 DEF MeansTo
<1>5. IF \E i \in 1 .. N : g_paths[i][2] = f /\ DecidesTo(d, i, N)
      THEN \A i \in 1 .. N : g_paths[i][2] = f /\ DecidesTo(d, i, N) => c[f] = ValueOf(d, i)
      ELSE c[f] = Defaults[f]
  BY <1>1, <1>2, <1>4 DEF MeansTo
<1>6. CASE \E i \in 1 .. N : g_paths[i][2] = f /\ DecidesTo(d, i, N)
  <2>1. PICK i \in 1 .. N : g_paths[i][2] = f /\ DecidesTo(d, i, N)
    BY <1>6
  <2>2. c[f] = ValueOf(d, i) /\ Says(d, g_paths[i][1]) /\ ~BadRow(d, i)
    BY <1>4, <1>5, <2>1 DEF DecidesTo
  <2> QED BY <2>1, <2>2 DEF c, N
<1>7. CASE ~(\E i \in 1 .. N : g_paths[i][2] = f /\ DecidesTo(d, i, N))
  BY <1>5, <1>7 DEF c
<1> QED BY <1>6, <1>7

\* What a kind of value stores is never what the validator refuses.
LEMMA StoredIsValid ==
  ASSUME NEW d, NEW i \in 1 .. Len(g_paths), Says(d, g_paths[i][1]), ~BadRow(d, i)
  PROVE  /\ g_paths[i][3] = "str" => ValueOf(d, i) # ""
         /\ g_paths[i][3] \in {"port", "size", "u32"} => ValueOf(d, i) # 0
<1> DEFINE k == g_paths[i][3]
           v == d[g_paths[i][1]]
<1>1. Accepts(k, v) /\ v # "" /\ ValueOf(d, i) = Stored(k, v)
  BY DEF BadRow, Says, ValueOf
<1>k. k = g_paths[i][3]
  OBVIOUS
<1> HIDE DEF k, v
<1>2. CASE k = "str"
  BY <1>1, <1>k, <1>2 DEF Stored
<1>3. CASE k = "port"
  <2>1. v \in DOMAIN Num /\ Num[v] \in 1 .. U16Max /\ Stored(k, v) = parse_size(Num[v])
    BY <1>1, <1>3 DEF Stored, Accepts
  <2> DEFINE n == Num[v]
  <2>2. n \in 1 .. U16Max /\ Stored(k, v) = parse_size(n)
    BY <2>1
  <2> HIDE DEF n
  <2>3. U16Max \in Nat /\ SizeMod \in Nat /\ U32Max \in Nat /\ U16Max < U32Max /\ U32Max < SizeMod
    BY YamlAssumption
  <2>4. n \in Nat /\ n # 0 /\ n < SizeMod
    BY <2>2, <2>3
  <2>5. n % SizeMod = n
    BY <2>3, <2>4
  <2>6. parse_size(n) = n
    BY <2>3, <2>4, <2>5 DEF parse_size
  <2> QED BY <1>1, <1>3, <1>k, <2>2, <2>4, <2>6
<1>4. CASE k = "size"
  BY <1>1, <1>k, <1>4 DEF Stored, Accepts
<1>5. CASE k = "u32"
  <2>1. parse_size(Num[v]) \in 1 .. U32Max /\ Stored(k, v) = parse_size(Num[v])
    BY <1>1, <1>5 DEF Stored, Accepts
  <2>2. parse_size(Num[v]) # 0
    BY <2>1, YamlAssumption
  <2> QED BY <1>1, <1>5, <1>k, <2>1, <2>2
<1> QED BY <1>2, <1>3, <1>4, <1>5, <1>k

\* The defaults the validator reads.
LEMMA DefaultsAt ==
  /\ \A f \in DOMAIN edge_config_defaults : f \in Fields /\ Defaults[f] = edge_config_defaults[f]
  /\ {"listen_host", "auth_mode", "listen_port", "http_max_body_bytes", "http_max_pending_outbound",
      "http_max_upstream_body_bytes", "auth_session_ttl_s", "auth_proxy_max_skew_s"}
       = DOMAIN edge_config_defaults
  /\ edge_config_defaults["listen_host"] # "" /\ edge_config_defaults["auth_mode"] # ""
  /\ \A f \in {"listen_port", "http_max_body_bytes", "http_max_pending_outbound",
               "http_max_upstream_body_bytes", "auth_session_ttl_s",
               "auth_proxy_max_skew_s"} : edge_config_defaults[f] # 0
<1>1. \A f \in DOMAIN edge_config_defaults : f \in Fields /\ Defaults[f] = edge_config_defaults[f]
  BY DEF Fields, Defaults
<1> QED BY <1>1 DEF edge_config_defaults

\* A field whose default is not x, and whose rows never store x, is never x.
LEMMA LoadedFieldIsNot ==
  ASSUME NEW d, load_from_ctx(d) # NotLoaded, NEW f \in Fields, NEW x, Defaults[f] # x,
         \A i \in 1 .. Len(g_paths) :
           g_paths[i][2] = f /\ Says(d, g_paths[i][1]) /\ ~BadRow(d, i) => ValueOf(d, i) # x
  PROVE  load_from_ctx(d)[f] # x
BY LoadedField

\* A document that loads never has an empty mode.
LEMMA LoadedHasMode ==
  ASSUME NEW d, load_from_ctx(d) # NotLoaded
  PROVE  load_from_ctx(d).auth_mode # ""
<1>1. "auth_mode" \in Fields /\ Defaults["auth_mode"] # ""
  BY DefaultsAt
<1>2. \A i \in 1 .. Len(g_paths) :
        g_paths[i][2] = "auth_mode" /\ Says(d, g_paths[i][1]) /\ ~BadRow(d, i) => ValueOf(d, i) # ""
  BY TableKinds, StoredIsValid
<1>3. load_from_ctx(d)["auth_mode"] # ""
  BY <1>1, <1>2, LoadedFieldIsNot
<1> QED BY <1>3

\* All the validator can refuse in a document that loads is its mode.
LEMMA LoadedIsValid ==
  ASSUME NEW d, load_from_ctx(d) # NotLoaded, load_from_ctx(d).auth_mode \in AuthModes
  PROVE  edge_config_validate(load_from_ctx(d))
<1> DEFINE c == load_from_ctx(d)
<1>1. c["listen_host"] # ""
  <2>1. "listen_host" \in Fields /\ Defaults["listen_host"] # ""
    BY DefaultsAt
  <2>2. \A i \in 1 .. Len(g_paths) :
          g_paths[i][2] = "listen_host" /\ Says(d, g_paths[i][1]) /\ ~BadRow(d, i) =>
            ValueOf(d, i) # ""
    BY TableKinds, StoredIsValid
  <2> QED BY <2>1, <2>2, LoadedFieldIsNot
<1>2. ASSUME NEW f \in {"listen_port", "http_max_body_bytes", "http_max_pending_outbound",
                        "http_max_upstream_body_bytes", "auth_session_ttl_s",
                        "auth_proxy_max_skew_s"}
      PROVE  c[f] # 0
  <2>1. f \in Fields /\ Defaults[f] # 0
    BY DefaultsAt
  <2>2. \A i \in 1 .. Len(g_paths) :
          g_paths[i][2] = f => g_paths[i][3] \in {"port", "size", "u32"}
    BY TableKinds
  <2>3. \A i \in 1 .. Len(g_paths) :
          g_paths[i][2] = f /\ Says(d, g_paths[i][1]) /\ ~BadRow(d, i) => ValueOf(d, i) # 0
    BY <2>2, StoredIsValid
  <2> QED BY <2>1, <2>3, LoadedFieldIsNot
<1>3. c.auth_mode \in AuthModes
  OBVIOUS
<1> HIDE DEF c
<1>4. edge_config_validate(c)
  BY <1>1, <1>2, <1>3 DEF edge_config_validate
<1> QED BY <1>4 DEF c

\* What LoaderMeaning says of some documents is true of every document.
LEMMA LoaderIsRight == LoaderMeaning
<1> SUFFICES ASSUME NEW d
    PROVE  LET c == load_from_ctx(d)
               rows == DOMAIN g_paths IN
      IF \E i \in rows : Says(d, g_paths[i][1]) /\ ~Accepts(g_paths[i][3], d[g_paths[i][1]])
      THEN c = NotLoaded
      ELSE /\ \A f \in Fields :
                IF \E i \in rows : g_paths[i][2] = f /\ Decides(d, i)
                THEN \A i \in rows : g_paths[i][2] = f /\ Decides(d, i) =>
                       c[f] = Stored(g_paths[i][3], d[g_paths[i][1]])
                ELSE c[f] = Defaults[f]
           /\ c.auth_mode \in AuthModes => edge_config_validate(c)
  BY DEF LoaderMeaning
<1> DEFINE c == load_from_ctx(d)
           N == Len(g_paths)
<1>1. DOMAIN g_paths = 1 .. N
  BY DEF g_paths
<1>2. MeansTo(d, N) /\ c = LoadLoop(d)[N]
  BY MeansAll DEF load_from_ctx
<1>3. \A i : Decides(d, i) <=> DecidesTo(d, i, N)
  BY DEF Decides, DecidesTo
<1>4. c # NotLoaded /\ c.auth_mode \in AuthModes => edge_config_validate(c)
  BY LoadedIsValid
<1> HIDE DEF c, N
<1>5. CASE \E i \in 1 .. N : BadRow(d, i)
  <2>1. c = NotLoaded
    BY <1>2, <1>5 DEF MeansTo
  <2> QED BY <1>1, <1>5, <2>1 DEF BadRow, c
<1>6. CASE ~(\E i \in 1 .. N : BadRow(d, i))
  <2>1. /\ c # NotLoaded
        /\ \A f \in Fields :
             IF \E i \in 1 .. N : g_paths[i][2] = f /\ DecidesTo(d, i, N)
             THEN \A i \in 1 .. N : g_paths[i][2] = f /\ DecidesTo(d, i, N) => c[f] = ValueOf(d, i)
             ELSE c[f] = Defaults[f]
    BY <1>2, <1>6 DEF MeansTo
  <2>2. \A f \in Fields :
             IF \E i \in DOMAIN g_paths : g_paths[i][2] = f /\ Decides(d, i)
             THEN \A i \in DOMAIN g_paths : g_paths[i][2] = f /\ Decides(d, i) =>
                     c[f] = Stored(g_paths[i][3], d[g_paths[i][1]])
             ELSE c[f] = Defaults[f]
    BY <1>1, <1>3, <2>1 DEF ValueOf
  <2>3. ~(\E i \in DOMAIN g_paths : Says(d, g_paths[i][1]) /\ ~Accepts(g_paths[i][3], d[g_paths[i][1]]))
    BY <1>1, <1>6 DEF BadRow
  <2> QED BY <1>4, <2>1, <2>2, <2>3 DEF c
<1> QED BY <1>5, <1>6

\* The table of load_from_ctx and its loop: a document is refused exactly if one of its
\* known paths has a value its field cannot take; otherwise the last path of a field
\* decides it, and the validator can object to auth.mode only.
THEOREM LoaderMeans == StartSpec => []LoaderMeaning
BY LoaderIsRight, PTL

-------------------------------------------------------------------------------
(* Authentication *)

\* A version that loads and validates has a mode, and the mode is not empty.
LEMMA GoodHasMode ==
  ASSUME NEW v \in Good
  PROVE  Config[v].auth_mode # ""
<1>1. Config[v] # NotLoaded /\ Config[v] = edge_config_load_yaml_path(Contents[v])
  BY StartupAssumption DEF Good, Config
<1>2. Config[v] = load_from_ctx(Contents[v].doc)
  BY <1>1 DEF edge_config_load_yaml_path
<1> QED BY <1>1, <1>2, LoadedHasMode

\* The context that edge_auth_ctx_from_config leaves, if main goes on.
LEMMA AuthMade ==
  ASSUME UpDownInv, AuthInv, NEW usable, edge_auth_ctx_from_config(usable)
  PROVE  AuthInv'
<1>1. stage = "auth" /\ live' = live /\ boot' = boot /\ stage' \in {"host", "down"}
  BY DEF edge_auth_ctx_from_config, GiveBack
<1>2. "ring" \notin Held'
  BY <1>1 DEF UpDownInv, HeldInv, Running, Held
<1>3. CASE stage' = "host"
  <2>1. cfg.auth_mode # "" /\ cfg' = cfg
    BY <1>1, GoodHasMode DEF AuthInv, cfg
  <2>2. Secrets(cfg.auth_mode) \subseteq usable
    BY <1>3 DEF edge_auth_ctx_from_config, GiveBack
  <2>3. /\ auth'.mode = cfg.auth_mode
        /\ auth'.keys = Secrets(cfg.auth_mode) \cap usable
    BY <2>1 DEF edge_auth_ctx_from_config
  <2>4. AuthOK'
    BY <2>1, <2>2, <2>3 DEF AuthOK
  <2> QED BY <1>3, <2>4 DEF AuthInv
<1>4. CASE stage' = "down"
  BY <1>2, <1>4 DEF AuthInv
<1> QED BY <1>1, <1>3, <1>4

\* After it nothing changes the context or the configuration the process started
\* with; a reload changes the active one only.
LEMMA AuthKept ==
  ASSUME AuthInv, auth' = auth, boot' = boot, stage' # "auth" \/ stage = "auth",
         stage' \notin {"boot", "auth", "down", "gone"} \/ "ring" \in Held' =>
           stage \notin {"boot", "auth", "down", "gone"} \/ "ring" \in Held
  PROVE  AuthInv'
<1>1. cfg' = cfg
  BY DEF cfg
<1> QED BY <1>1 DEF AuthInv, AuthOK

\* Every step keeps it.
LEMMA AuthNext ==
  ASSUME UpDownInv, AuthInv, [StartNext]_allVars
  PROVE  AuthInv'
<1>1. CASE BootCore
  <2>0. stage = "boot"
    BY <1>1 DEF UpDownInv, ExitInv, BootCore, Boot
  <2>1. CASE pc' = "startup"
    <3>1. stage' = "auth" /\ Held' = {"core"} /\ boot' \in Good
      BY <1>1, <2>1 DEF BootCore, Boot, Held
    <3> QED BY <3>1 DEF AuthInv
  <2>2. CASE pc' # "startup"
    BY <1>1, <2>0, <2>2, AuthKept DEF BootCore, Held
  <2> QED BY <2>1, <2>2
<1>2. ASSUME NEW usable, edge_auth_ctx_from_config(usable) PROVE AuthInv'
  BY <1>2, AuthMade
<1>3. CASE /\ stage \in Stages \ {"boot", "auth", "gone", "down"}
           /\ UNCHANGED <<auth, boot>> /\ stage' # "auth"
  BY <1>3, AuthKept
<1>4. ASSUME UNCHANGED <<auth, boot, stage>>, Held' \subseteq Held PROVE AuthInv'
  BY <1>4, AuthKept
<1>5. CASE CreateStore \/ edge_plugin_host_create
  BY <1>3, <1>5 DEF CreateStore, edge_plugin_host_create, Skip, Acquire, Fail, GiveBack, Stages
<1>6. CASE edge_openai_proxy_init_plugin \/ edge_slack_init_plugin \/ edge_teams_init_plugin
  BY <1>3, <1>6
  DEF edge_openai_proxy_init_plugin, edge_slack_init_plugin, edge_teams_init_plugin,
      Register, Skip, Acquire, Fail, GiveBack, Stages
<1>7. CASE DrainHup
  BY <1>3, <1>7 DEF DrainHup, Skip, Stages
<1>8. CASE SetUpLoop
  BY <1>3, <1>8
  DEF SetUpLoop, OwnStore, edge_tls_ctx_create, edge_ws_hub_create, create_listen_socket,
      SetUp, Skip, Acquire, Fail, GiveBack, Stages
<1>9. CASE should_stop \/ Wake \/ CallUpstream \/ UpstreamReturns \/ LoopEnds
  BY <1>3, <1>9
  DEF should_stop, Wake, CallUpstream, UpstreamReturns, LoopEnds, Skip, Fail, GiveBack, Stages, Running
<1>10. CASE Reload \/ Outside \/ on_stop \/ UNCHANGED allVars
  BY <1>4, <1>10 DEF Reload, Outside, on_stop, allVars, proc, Held
<1>11. CASE Release
  BY <1>4, <1>11 DEF Release, Held
<1>12. CASE Return
  <2>1. "ring" \notin Held'
    BY <1>12 DEF UpDownInv, DownInv, Return, Held
  <2> QED BY <1>12, <2>1 DEF Return, AuthInv
<1> QED
  BY <1>1, <1>2, <1>5, <1>6, <1>7, <1>8, <1>9, <1>10, <1>11, <1>12 DEF StartNext, Process

\* No connection is accepted while authentication is not what the file the process
\* started with asks for, or lacks one of the mode's secrets.
THEOREM AuthIsReady == StartSpec => []AuthReady
<1>1. StartInit => UpDownInv /\ AuthInv
  <2>1. StartInit => AuthInv
    BY DEF StartInit, AuthInv, Held
  <2> QED BY <2>1, UpDownInit
<1>2. UpDownInv /\ AuthInv /\ [StartNext]_allVars => (UpDownInv /\ AuthInv)'
  BY UpDownNext, AuthNext
<1>3. AuthInv => AuthReady
  BY DEF AuthInv, AuthReady, AuthOK
<1> QED BY <1>1, <1>2, <1>3, PTL DEF StartSpec

-------------------------------------------------------------------------------
(* The process as a whole does what ConfigReload says of it *)

\* Every step of the process is one of ConfigReload or leaves its state alone.
THEOREM StartupImplementsReload == StartSpec => Spec
<1>1. StartInit => Init
  BY DEF StartInit
<1>2. [StartNext]_allVars => [Next]_vars
  <2> SUFFICES ASSUME [StartNext]_allVars PROVE [Next]_vars
    OBVIOUS
  <2>1. CASE BootCore \/ DrainHup \/ Reload \/ Return
    BY <2>1 DEF BootCore, DrainHup, Reload, Return, Next, Host
  <2>2. CASE Outside
    BY <2>2 DEF Outside, Next
  <2>3. CASE SetUpLoop
    BY <2>3 DEF SetUpLoop, OwnStore, edge_tls_ctx_create, edge_ws_hub_create,
                create_listen_socket, SetUp
  <2>4. ASSUME NEW usable, edge_auth_ctx_from_config(usable) PROVE [Next]_vars
    BY <2>4 DEF edge_auth_ctx_from_config
  <2>5. CASE CreateStore \/ edge_plugin_host_create
    BY <2>5 DEF CreateStore, edge_plugin_host_create
  <2>6. CASE edge_openai_proxy_init_plugin \/ edge_slack_init_plugin \/ edge_teams_init_plugin
    BY <2>6 DEF edge_openai_proxy_init_plugin, edge_slack_init_plugin, edge_teams_init_plugin, Register
  <2>7. CASE should_stop \/ Wake \/ CallUpstream \/ UpstreamReturns \/ LoopEnds
    BY <2>7 DEF should_stop, Wake, CallUpstream, UpstreamReturns, LoopEnds
  <2>8. CASE Release \/ on_stop \/ UNCHANGED allVars
    BY <2>8 DEF Release, on_stop, allVars
  <2> QED BY <2>1, <2>2, <2>3, <2>4, <2>5, <2>6, <2>7, <2>8 DEF StartNext, Process
<1> QED BY <1>1, <1>2, PTL DEF StartSpec, Spec

\* So a configuration that does not load or validate is never in force and no SIGHUP
\* is lost in the whole process either, while it starts, serves and goes down.
THEOREM ReloadIsSafeInProcess == StartSpec => [](ActiveIsGood /\ NoLostSignal)
BY StartupImplementsReload, ShadowProtects, NoSignalIsLost, PTL

\* In terms of the files themselves: once main has got as far as the core, and until it
\* returns, the configuration in force comes from a file that the loader reads to its
\* end and the validator has nothing against.
THEOREM ConfigInForceIsValid ==
  StartSpec => [](pc \notin {"boot", "exit"} =>
                    /\ Config[active] # NotLoaded
                    /\ edge_config_validate(Config[active]))
<1>1. ActiveIsGood /\ pc \notin {"boot", "exit"} => active \in Good
  BY DEF ActiveIsGood
<1>2. ASSUME NEW v \in Good PROVE Config[v] # NotLoaded /\ edge_config_validate(Config[v])
  BY StartupAssumption DEF Good
<1>3. ActiveIsGood => (pc \notin {"boot", "exit"} =>
                         Config[active] # NotLoaded /\ edge_config_validate(Config[active]))
  BY <1>1, <1>2
<1> QED BY <1>3, ReloadIsSafeInProcess, PTL

-------------------------------------------------------------------------------
(* SIGTERM *)

\* The order in which a process that was told to stop goes through its stages.  serving
\* comes after waiting and upstream: should_stop does not let it back.
Turn ==
  [boot |-> 0, auth |-> 1, host |-> 2, ph |-> 3, openai |-> 4, slack |-> 5, teams |-> 6,
   drain |-> 7, own_store |-> 8, tls |-> 9, hub |-> 10, conns |-> 11, listen |-> 12,
   ring |-> 13, accept |-> 14, waiting |-> 15, upstream |-> 16, serving |-> 17, down |-> 18,
   gone |-> 19]

\* A step that is neither a stage forward nor one call less on the way down leaves the
\* process where it is: a reload, a signal, an edit.
Onward ==
  \/ UNCHANGED <<stage, todo>>
  \/ Turn[stage'] > Turn[stage]
  \/ stage = "down" /\ stage' = "down" /\ todo # <<>> /\ todo' = Tail(todo)

LEMMA Turns ==
  /\ Turn["boot"] < Turn["auth"] /\ Turn["auth"] < Turn["host"] /\ Turn["host"] < Turn["ph"]
  /\ Turn["host"] < Turn["drain"] /\ Turn["ph"] < Turn["openai"]
  /\ Turn["openai"] < Turn["slack"] /\ Turn["slack"] < Turn["teams"]
  /\ Turn["teams"] < Turn["drain"] /\ Turn["drain"] < Turn["own_store"]
  /\ Turn["own_store"] < Turn["tls"] /\ Turn["tls"] < Turn["hub"] /\ Turn["hub"] < Turn["conns"]
  /\ Turn["conns"] < Turn["listen"] /\ Turn["listen"] < Turn["ring"]
  /\ Turn["ring"] < Turn["accept"] /\ Turn["accept"] < Turn["serving"]
  /\ Turn["waiting"] < Turn["upstream"] /\ Turn["waiting"] < Turn["serving"]
  /\ Turn["upstream"] < Turn["serving"] /\ Turn["down"] < Turn["gone"]
  /\ \A s \in Stages \ {"down", "gone"} : Turn[s] < Turn["down"]
BY DEF Turn, Stages, Running

\* The two ways to another stage.
LEMMA OnwardSkip ==
  ASSUME NEW s, NEW next, stage = s, Turn[s] < Turn[next], g_stop,
         Skip(next) \/ (\E r, to : Acquire(r, to, next))
  PROVE  g_stop' /\ Onward
BY DEF Skip, Acquire, Onward

LEMMA OnwardDown ==
  ASSUME stage \in Stages \ {"down", "gone"}, g_stop, NEW order, GiveBack(order),
         g_stop' = g_stop
  PROVE  g_stop' /\ Onward
BY Turns DEF GiveBack, Onward

\* A step of a process that was told to stop goes on, in every stage it can be in.
LEMMA StoppedGoesOn ==
  ASSUME UpDownInv, g_stop, [StartNext]_allVars
  PROVE  g_stop' /\ Onward
<1>1. CASE BootCore
  BY <1>1, Turns DEF UpDownInv, ExitInv, BootCore, Boot, Onward
<1>2. ASSUME NEW usable, edge_auth_ctx_from_config(usable) PROVE g_stop' /\ Onward
  BY <1>2, Turns, OnwardDown DEF edge_auth_ctx_from_config, Onward, Stages
<1>3. CASE CreateStore
  BY <1>3, Turns, OnwardSkip DEF CreateStore
<1>4. CASE edge_plugin_host_create
  BY <1>4, Turns, OnwardSkip, OnwardDown DEF edge_plugin_host_create, Fail, Stages
<1>5. ASSUME NEW p \in {"openai", "slack", "teams"}, NEW next, Turn[p] < Turn[next],
             Register(p, next)
      PROVE  g_stop' /\ Onward
  <2>1. stage = p
    BY <1>5 DEF Register
  <2>2. CASE Fail(MainEnd)
    BY <2>1, <2>2, OnwardDown DEF Fail, Stages
  <2> QED BY <1>5, <2>1, <2>2, OnwardSkip DEF Register
<1>6. CASE edge_openai_proxy_init_plugin \/ edge_slack_init_plugin \/ edge_teams_init_plugin
  BY <1>5, <1>6, Turns DEF edge_openai_proxy_init_plugin, edge_slack_init_plugin, edge_teams_init_plugin
<1>7. CASE DrainHup
  BY <1>7, Turns, OnwardSkip DEF DrainHup
<1>8. CASE OwnStore
  BY <1>8, Turns, OnwardSkip DEF OwnStore
<1>9. ASSUME NEW r \in {"tls", "hub", "conns", "listen", "ring"}, NEW to, NEW next,
             Turn[r] < Turn[next], SetUp(r, to, next)
      PROVE  g_stop' /\ Onward
  <2>1. stage = r
    BY <1>9 DEF SetUp
  <2>2. CASE Fail(Cleanup(r) \o MainEnd)
    BY <2>1, <2>2, OnwardDown DEF Fail, Stages
  <2> QED BY <1>9, <2>1, <2>2, OnwardSkip DEF SetUp
<1>10. CASE edge_tls_ctx_create
  BY <1>9, <1>10, Turns, OnwardSkip DEF edge_tls_ctx_create
<1>11. CASE edge_ws_hub_create \/ SetUp("conns", Held, "listen") \/ create_listen_socket
            \/ SetUp("ring", {"conns", "listen"}, "accept")
  BY <1>9, <1>11, Turns DEF edge_ws_hub_create, create_listen_socket
<1>12. CASE stage = "accept" /\ (Skip("serving") \/ Fail(Cleanup("accept") \o MainEnd))
  BY <1>12, Turns, OnwardSkip, OnwardDown DEF Fail, Stages
<1>13. CASE should_stop
  BY <1>13, OnwardDown DEF should_stop, Fail, Stages, Running
<1>14. CASE Wake \/ CallUpstream \/ UpstreamReturns
  BY <1>14, Turns, OnwardSkip DEF Wake, CallUpstream, UpstreamReturns
<1>15. CASE LoopEnds
  BY <1>15, OnwardDown DEF LoopEnds, Fail, Stages, Running
<1>16. CASE Reload \/ Outside \/ on_stop \/ UNCHANGED allVars
  BY <1>16 DEF Reload, Outside, on_stop, allVars, proc, Onward
<1>17. CASE Release
  BY <1>17 DEF Release, Onward
<1>18. CASE Return
  BY <1>18, Turns DEF Return, Onward
<1> QED
  BY <1>1, <1>2, <1>3, <1>4, <1>6, <1>7, <1>8, <1>10, <1>11, <1>12, <1>13, <1>14, <1>15, <1>16,
     <1>17, <1>18
  DEF StartNext, Process, SetUpLoop

\* After SIGTERM there is no way back: whatever main or the loop was in the middle of, it
\* goes through each stage at most once, so that it waits for completions and for an
\* upstream at most once more, and the list of what is still to be freed only gets
\* shorter.  (That it does go on is StopObeyed.)
THEOREM StopIsFinal == StartSpec => [][g_stop => g_stop' /\ Onward]_allVars
<1>1. UpDownInv /\ [StartNext]_allVars => UpDownInv'
  BY UpDownNext
<1>2. UpDownInv /\ [StartNext]_allVars => [g_stop => g_stop' /\ Onward]_allVars
  BY StoppedGoesOn
<1> QED BY UpDownInit, <1>1, <1>2, PTL DEF StartSpec
===============================================================================
