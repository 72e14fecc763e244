------------------------------- MODULE Startup --------------------------------
(***************************************************************************)
(* The life of the process (src/src/host/main.c): what main and             *)
(* edge_iouring_run acquire on the way to the loop, what each failure and    *)
(* the end of the loop give back and in which order, while SIGTERM, SIGHUP   *)
(* and edits of the file come at any moment.  Composes ConfigReload with the *)
(* YAML loader, edge_auth_ctx_from_config and the registration of plugins.   *)
(***************************************************************************)
EXTENDS ConfigReload, ConfigYaml

CONSTANTS
  Contents,    \* what each version of the file holds
  Docs         \* documents the loader is checked on

Config == [v \in Versions |-> edge_config_load_yaml_path(Contents[v])]

ASSUME StartupAssumption ==
  /\ Unparsable = {v \in Versions : Config[v] = NotLoaded}
  /\ Invalid = {v \in Versions \ Unparsable : ~edge_config_validate(Config[v])}

VARIABLES
  stage,      \* what main, or edge_iouring_run, does next
  live,       \* what is allocated, each with what it points to
  todo,       \* what is still to be given back, in order
  auth,       \* edge_auth_ctx_t
  boot,       \* the version the process started with
  g_stop      \* set by on_stop

proc == <<stage, live, todo, auth, boot, g_stop>>
allVars == <<vars, proc>>

\* openai, slack and teams are the plugins' data; conns stands for server_t too.
Plugins == {"openai", "slack", "teams"}

\* What may be NULL when it is given back.
Optional == {"store", "ph", "tls", "own_store"} \cup Plugins

Held == DOMAIN live
cfg == Config[boot]
Enabled(p) ==
  1 = [openai |-> cfg.openai_enabled, slack |-> cfg.slack_enabled,
       teams |-> cfg.teams_enabled, pqproxy |-> cfg.pqproxy_enabled][p]
edge_tls_config_enabled == cfg.tls_cert # "" /\ cfg.tls_key # ""

StartInit ==
  /\ Init
  /\ stage = "boot" /\ live = [r \in {} |-> {}] /\ todo = <<>> /\ boot = 0
  /\ auth = [mode |-> "none", keys |-> {}] /\ g_stop = FALSE

-------------------------------------------------------------------------------
(* Acquiring and giving back *)

Acquire(r, to, next) ==
  /\ live' = [x \in Held \cup {r} |-> IF x = r THEN to ELSE live[x]]
  /\ stage' = next
  /\ UNCHANGED <<todo, auth, boot, g_stop>>

\* A return, with the calls it makes before it.
GiveBack(order) == stage' = "down" /\ todo' = order

Fail(order) == GiveBack(order) /\ UNCHANGED <<live, auth, boot, g_stop>>

Skip(next) == stage' = next /\ UNCHANGED <<live, todo, auth, boot, g_stop>>

\* edge_plugin_host_destroy shuts the registered plugins down first.
edge_plugin_host_destroy == <<"openai", "slack", "teams", "ph">>
MainEnd == edge_plugin_host_destroy \o <<"store", "core">>
LoopEnd == <<"ring", "listen", "conns", "hub", "tls", "own_store">>

\* Mutant: a listener that fails leaves the connection table behind.
Cleanup_forgets(failed) ==
  CASE failed = "tls"    -> <<"own_store">>
    [] failed = "hub"    -> <<"tls", "own_store">>
    [] failed = "conns"  -> <<"hub", "tls", "own_store">>
    [] failed = "listen" -> <<"hub", "tls", "own_store">>
    [] failed = "ring"   -> <<"listen", "conns", "hub", "tls", "own_store">>
    [] failed = "accept" -> LoopEnd

\* The early returns of edge_iouring_run.
Cleanup(failed) ==
  CASE failed = "tls"    -> <<"own_store">>
    [] failed = "hub"    -> <<"tls", "own_store">>
    [] failed = "conns"  -> <<"hub", "tls", "own_store">>
    [] failed = "listen" -> <<"conns", "hub", "tls", "own_store">>
    [] failed = "ring"   -> <<"listen", "conns", "hub", "tls", "own_store">>
    [] failed = "accept" -> LoopEnd

-------------------------------------------------------------------------------
(* main, up to edge_iouring_run *)

\* Configuration and core; the signal handlers are installed next.
BootCore ==
  /\ Boot
  /\ IF pc' = "startup"
     THEN live' = [r \in {"core"} |-> {}] /\ stage' = "auth" /\ boot' = file
     ELSE UNCHANGED <<live, stage, boot>>
  /\ UNCHANGED <<todo, auth, g_stop>>

\* The secrets a mode needs from the environment.
Secrets(mode) ==
  CASE mode = "lab_password"  -> {"lab_password", "session_hmac"}
    [] mode = "proxy_headers" -> {"proxy_hmac"}
    [] OTHER                  -> {}

\* Mutant: the session key may be missing.
edge_auth_ctx_from_config_lenient(usable) ==
  /\ stage = "auth"
  /\ auth' = [mode |-> IF cfg.auth_mode = "" THEN "open" ELSE cfg.auth_mode,
              keys |-> Secrets(cfg.auth_mode) \cap usable]
  /\ \/ Secrets(cfg.auth_mode) \subseteq usable \cup {"session_hmac"}
        /\ stage' = "host" /\ UNCHANGED todo
     \/ ~(Secrets(cfg.auth_mode) \subseteq usable) /\ GiveBack(<<"core">>)
  /\ UNCHANGED <<vars, live, boot, g_stop>>

\* usable are the secrets that are set, not empty and not too long.
edge_auth_ctx_from_config(usable) ==
  /\ stage = "auth"
  /\ auth' = [mode |-> IF cfg.auth_mode = "" THEN "open" ELSE cfg.auth_mode,
              keys |-> Secrets(cfg.auth_mode) \cap usable]
  /\ \/ Secrets(cfg.auth_mode) \subseteq usable /\ stage' = "host" /\ UNCHANGED todo
     \/ ~(Secrets(cfg.auth_mode) \subseteq usable) /\ GiveBack(<<"core">>)
  /\ UNCHANGED <<vars, live, boot, g_stop>>

\* A store, unless memory is short, and the plugin host, if a plugin wants one.
CreateStore ==
  /\ stage = "host"
  /\ \/ (\A p \in Plugins : ~Enabled(p)) /\ Skip("drain")
     \/ (\E p \in Plugins : Enabled(p)) /\ (Acquire("store", {}, "ph") \/ Skip("ph"))
  /\ UNCHANGED vars

edge_plugin_host_create ==
  /\ stage = "ph"
  /\ Acquire("ph", {"store"} \cap Held, "openai") \/ Fail(<<"core", "store">>)
  /\ UNCHANGED vars

\* edge_*_init_plugin fails without memory, or without openai's API key;
\* edge_plugin_host_register and add_route have room for three plugins.
Register(p, next) ==
  /\ stage = p
  /\ \/ ~Enabled(p) /\ Skip(next)
     \/ Enabled(p) /\ (Acquire(p, {"ph"}, next) \/ Fail(MainEnd))
  /\ UNCHANGED vars

edge_openai_proxy_init_plugin == Register("openai", "slack")
edge_slack_init_plugin == Register("slack", "teams")
edge_teams_init_plugin == Register("teams", "drain")

DrainHup ==
  /\ stage = "drain" /\ Drain /\ Skip("own_store")

-------------------------------------------------------------------------------
(* edge_iouring_run *)

\* Its own store if main has none; without memory it does without.
OwnStore ==
  /\ stage = "own_store"
  /\ \/ "store" \in Held /\ Skip("tls")
     \/ "store" \notin Held /\ (Acquire("own_store", {}, "tls") \/ Skip("tls"))
  /\ UNCHANGED vars

\* One of the things it sets up, or the early return.
SetUp(r, to, next) ==
  /\ stage = r
  /\ Acquire(r, to, next) \/ Fail(Cleanup(r) \o MainEnd)
  /\ UNCHANGED vars

\* A server context with certificate, key and client CA, if TLS is configured.
edge_tls_ctx_create ==
  \/ edge_tls_config_enabled /\ SetUp("tls", {}, "hub")
  \/ stage = "tls" /\ ~edge_tls_config_enabled /\ Skip("hub") /\ UNCHANGED vars

edge_ws_hub_create == SetUp("hub", {}, "conns")

\* socket, bind and listen; each may fail.
create_listen_socket == SetUp("listen", {}, "ring")

SetUpLoop ==
  \/ OwnStore \/ edge_tls_ctx_create \/ edge_ws_hub_create
  \/ SetUp("conns", Held, "listen")
  \/ create_listen_socket
  \/ SetUp("ring", {"conns", "listen"}, "accept")
  \/ stage = "accept" /\ (Skip("serving") \/ Fail(Cleanup("accept") \o MainEnd)) /\ UNCHANGED vars

\* The reload of ADR-005, in a round of the loop.
Reload ==
  /\ stage = "waiting"
  /\ TestFlag \/ ClearFlag \/ Load \/ Apply
  /\ UNCHANGED proc

\* should_stop, in every round.
should_stop ==
  /\ stage = "serving"
  /\ \/ g_stop /\ Fail(LoopEnd \o MainEnd)
     \/ ~g_stop /\ Skip("waiting")
  /\ UNCHANGED vars

\* Mutant: an interrupted wait is resumed.
Wake_resumes == stage = "waiting" /\ pc = "loop" /\ Skip("waiting") /\ UNCHANGED vars

\* A completion that is handled at once, a signal, or 200 ms without either.
Wake == stage = "waiting" /\ pc = "loop" /\ Skip("serving") /\ UNCHANGED vars

\* A handler or a scrape enters the outbound client; the loop waits for it.
CallUpstream ==
  /\ stage = "waiting" /\ pc = "loop" /\ ("openai" \in Held \/ Enabled("pqproxy"))
  /\ Skip("upstream")
  /\ UNCHANGED vars

UpstreamReturns == stage = "upstream" /\ Skip("serving") /\ UNCHANGED vars

\* io_uring_wait_cqe_timeout fails, or --once has served its connection.
LoopEnds ==
  /\ stage \in {"waiting", "serving"} /\ pc = "loop"
  /\ Fail(LoopEnd \o MainEnd)
  /\ UNCHANGED vars

-------------------------------------------------------------------------------
(* The end *)

\* The next of the calls; for what may be NULL and is, it is guarded or harmless.
Release ==
  /\ stage = "down" /\ todo # <<>>
  /\ live' = [r \in Held \ {Head(todo)} |-> live[r]]
  /\ todo' = Tail(todo)
  /\ UNCHANGED <<vars, stage, auth, boot, g_stop>>

Return ==
  /\ stage = "down" /\ todo = <<>>
  /\ Leave /\ stage' = "gone"
  /\ UNCHANGED <<live, todo, auth, boot, g_stop>>

on_stop ==
  /\ pc \notin {"boot", "exit"} /\ ~g_stop
  /\ g_stop' = TRUE
  /\ UNCHANGED <<vars, stage, live, todo, auth, boot>>

Outside == (EditFile \/ edgehost_on_hup) /\ UNCHANGED proc

Process ==
  \/ BootCore
  \/ \E usable \in SUBSET {"lab_password", "session_hmac", "proxy_hmac"} :
       edge_auth_ctx_from_config(usable)
  \/ CreateStore \/ edge_plugin_host_create
  \/ edge_openai_proxy_init_plugin \/ edge_slack_init_plugin \/ edge_teams_init_plugin
  \/ DrainHup \/ SetUpLoop \/ Reload \/ should_stop \/ Wake \/ Release \/ Return

StartNext ==
  \/ Process \/ Outside \/ on_stop
  \/ CallUpstream \/ UpstreamReturns \/ LoopEnds

StartSpec == StartInit /\ [][StartNext]_allVars

\* The process runs on; no upstream is obliged to answer, and nobody to signal or to
\* edit.
StartFairSpec == StartSpec /\ WF_allVars(Process)

-------------------------------------------------------------------------------
(* Properties *)

\* Whatever fails on the way up, and however the process ends: nothing is freed
\* twice, before it exists or before what points to it, and nothing is left when main
\* returns.
CleanExit ==
  /\ \A r \in Held : live[r] \subseteq Held
  /\ \A i \in DOMAIN todo :
       /\ todo[i] \in Held \cup Optional
       /\ \A j \in DOMAIN todo : todo[i] = todo[j] => i = j
  /\ pc = "exit" => Held = {}

\* No connection is accepted before authentication is what the configuration
\* started with asks for, with every secret the mode verifies against.
AuthReady ==
  "ring" \in Held =>
    /\ auth.mode = cfg.auth_mode
    /\ auth.keys = Secrets(cfg.auth_mode)

\* SIGTERM ends the process from wherever it is, unless a handler never comes back
\* from its upstream.
StopObeyed == []<>(stage # "upstream") => (g_stop ~> pc = "exit")

\* The last of a field's paths, in the order of g_paths, that says something decides.
Decides(d, i) ==
  /\ Says(d, g_paths[i][1])
  /\ \A j \in i + 1 .. Len(g_paths) : g_paths[j][2] = g_paths[i][2] => ~Says(d, g_paths[j][1])

\* What the loader computes: a document is refused if and only if one of the known
\* paths in it has a value its field cannot take; otherwise every field has what the
\* last of its paths says, or its default, and the validator can object to auth.mode
\* only.
LoaderMeaning ==
  pc = "boot" /\ file = 0 =>
    \A d \in Docs :
      LET c == load_from_ctx(d)
          rows == DOMAIN g_paths IN
      IF \E i \in rows : Says(d, g_paths[i][1]) /\ ~Accepts(g_paths[i][3], d[g_paths[i][1]])
      THEN c = NotLoaded
      ELSE /\ \A f \in Fields :
                IF \E i \in rows : g_paths[i][2] = f /\ Decides(d, i)
                THEN \A i \in rows : g_paths[i][2] = f /\ Decides(d, i) =>
                       c[f] = Stored(g_paths[i][3], d[g_paths[i][1]])
                ELSE c[f] = Defaults[f]
           /\ c.auth_mode \in AuthModes => edge_config_validate(c)
===============================================================================
