------------------------------ MODULE ConfigYaml ------------------------------
(***************************************************************************)
(* The YAML loader (src/src/host/config_yaml.c).  libyaml is external: a    *)
(* document is the function from its paths to their scalars.                *)
(*                                                                         *)
(* A scalar is told apart by what the parsers make of it: the number it     *)
(* spells, the truth value it spells, whether a field has room for it.      *)
(* Widths are constants: 2^16, 2^32 and 2^64 are beyond TLC.                *)
(***************************************************************************)
EXTENDS EdgeConfig, Integers, Sequences

CONSTANTS
  Num,        \* scalars that are numbers to the last character, with their values
  Truth,      \* scalars parse_bool knows, with their values
  TooLong,    \* scalars no field has room for
  U16Max,     \* 65535
  U32Max,     \* 0xffffffff
  SizeMod     \* 2^64

ASSUME YamlAssumption ==
  /\ {U16Max, U32Max, SizeMod} \subseteq Nat \ {0}
  /\ U16Max < U32Max /\ U32Max < SizeMod
  /\ Num \in [DOMAIN Num -> Int] /\ Truth \in [DOMAIN Truth -> {0, 1}]

\* The settings that only the host reads.
HostDefaults ==
  [spa_root |-> "./spa", packages_root |-> "./packages", static_max_file_bytes |-> 65536,
   state_net_core_enabled |-> 1, state_map_dynamic_enabled |-> 1, state_net_pon_enabled |-> 0,
   state_net_home_enabled |-> 0, state_electric_enabled |-> 0, state_inventory_enabled |-> 0,
   auth_lab_password_env |-> "EDGEHOST_LAB_PASSWORD",
   auth_session_hmac_key_env |-> "EDGEHOST_SESSION_HMAC",
   auth_proxy_hmac_key_env |-> "EDGEHOST_PROXY_HMAC",
   dns_allow_blocking |-> 0, openai_enabled |-> 0, openai_upstream |-> "https://api.openai.com",
   openai_upstream_addr |-> "", openai_upstream_host |-> "",
   openai_api_key_env |-> "OPENAI_API_KEY",
   openai_service_key_env |-> "EDGEHOST_OPENAI_SERVICE_KEY", openai_timeout_ms |-> 60000,
   openai_rate_limit_rpm |-> 60, openai_max_concurrent |-> 4, slack_enabled |-> 0,
   teams_enabled |-> 0, tls_cert |-> "", tls_key |-> "", tls_client_ca |-> "",
   pqproxy_enabled |-> 0, pqproxy_metrics_url |-> "http://127.0.0.1:9108/metrics",
   pqproxy_scrape_interval_ms |-> 5000, postgres_notify_enabled |-> 0,
   postgres_listen_channel |-> "map_overlay"]

Fields == DOMAIN edge_config_defaults \cup DOMAIN HostDefaults

Defaults ==
  [f \in Fields |->
     IF f \in DOMAIN edge_config_defaults THEN edge_config_defaults[f] ELSE HostDefaults[f]]

\* The paths in the order of g_paths, each with the field and the kind of value that
\* apply_scalar gives it.
g_paths == <<
  <<"listen.host", "listen_host", "str">>, <<"listen.port", "listen_port", "port">>,
  <<"spa.root", "spa_root", "str">>, <<"spa_root", "spa_root", "str">>,
  <<"packages.root", "packages_root", "str">>, <<"packages_root", "packages_root", "str">>,
  <<"spa.packages", "packages_root", "str">>,
  <<"spa.max_file_bytes", "static_max_file_bytes", "size">>,
  <<"static.max_file_bytes", "static_max_file_bytes", "size">>,
  <<"http.max_body_bytes", "http_max_body_bytes", "size">>,
  <<"http.max_pending_outbound", "http_max_pending_outbound", "size">>,
  <<"http.max_upstream_body_bytes", "http_max_upstream_body_bytes", "size">>,
  <<"state.namespaces.net_core.enabled", "state_net_core_enabled", "bool">>,
  <<"state.namespaces.map_dynamic.enabled", "state_map_dynamic_enabled", "bool">>,
  <<"state.namespaces.net_pon.enabled", "state_net_pon_enabled", "bool">>,
  <<"state.namespaces.net_home.enabled", "state_net_home_enabled", "bool">>,
  <<"state.namespaces.electric.enabled", "state_electric_enabled", "bool">>,
  <<"state.namespaces.inventory.enabled", "state_inventory_enabled", "bool">>,
  <<"state.net_core.enabled", "state_net_core_enabled", "bool">>,
  <<"state.map_dynamic.enabled", "state_map_dynamic_enabled", "bool">>,
  <<"state.net_pon.enabled", "state_net_pon_enabled", "bool">>,
  <<"state.net_home.enabled", "state_net_home_enabled", "bool">>,
  <<"state.electric.enabled", "state_electric_enabled", "bool">>,
  <<"state.inventory.enabled", "state_inventory_enabled", "bool">>,
  <<"state.enable_net_core", "state_net_core_enabled", "bool">>,
  <<"state.enable_map_dynamic", "state_map_dynamic_enabled", "bool">>,
  <<"auth.mode", "auth_mode", "str">>,
  <<"auth.lab_password_env", "auth_lab_password_env", "str">>,
  <<"auth.session_hmac_key_env", "auth_session_hmac_key_env", "str">>,
  <<"auth.session_ttl_s", "auth_session_ttl_s", "u32">>,
  <<"auth.proxy_hmac_key_env", "auth_proxy_hmac_key_env", "str">>,
  <<"auth.proxy_max_skew_s", "auth_proxy_max_skew_s", "u32">>,
  <<"dns.allow_blocking", "dns_allow_blocking", "bool">>,
  <<"plugins.openai_proxy.enabled", "openai_enabled", "bool">>,
  <<"openai_proxy.enabled", "openai_enabled", "bool">>,
  <<"plugins.openai_proxy.upstream", "openai_upstream", "str">>,
  <<"openai_proxy.upstream", "openai_upstream", "str">>,
  <<"plugins.openai_proxy.upstream_addr", "openai_upstream_addr", "str">>,
  <<"openai_proxy.upstream_addr", "openai_upstream_addr", "str">>,
  <<"plugins.openai_proxy.upstream_host", "openai_upstream_host", "str">>,
  <<"openai_proxy.upstream_host", "openai_upstream_host", "str">>,
  <<"plugins.openai_proxy.api_key_env", "openai_api_key_env", "str">>,
  <<"plugins.openai_proxy.service_api_key_env", "openai_service_key_env", "str">>,
  <<"plugins.openai_proxy.timeout_ms", "openai_timeout_ms", "u32">>,
  <<"plugins.openai_proxy.rate_limit_rpm", "openai_rate_limit_rpm", "u32z">>,
  <<"plugins.openai_proxy.max_concurrent_per_principal", "openai_max_concurrent", "u32">>,
  <<"plugins.slack.enabled", "slack_enabled", "bool">>,
  <<"slack.enabled", "slack_enabled", "bool">>,
  <<"plugins.teams.enabled", "teams_enabled", "bool">>,
  <<"teams.enabled", "teams_enabled", "bool">>, <<"tls.cert", "tls_cert", "str">>,
  <<"tls.cert_file", "tls_cert", "str">>, <<"tls.key", "tls_key", "str">>,
  <<"tls.key_file", "tls_key", "str">>, <<"tls.client_ca", "tls_client_ca", "str">>,
  <<"tls.client_ca_file", "tls_client_ca", "str">>,
  <<"plugins.pqproxy.enabled", "pqproxy_enabled", "bool">>,
  <<"pqproxy.enabled", "pqproxy_enabled", "bool">>,
  <<"plugins.pqproxy.metrics_url", "pqproxy_metrics_url", "str">>,
  <<"pqproxy.metrics_url", "pqproxy_metrics_url", "str">>,
  <<"plugins.pqproxy.scrape_interval_ms", "pqproxy_scrape_interval_ms", "u32">>,
  <<"postgres.notify_enabled", "postgres_notify_enabled", "bool">>,
  <<"postgres.enabled", "postgres_notify_enabled", "bool">>,
  <<"postgres.listen_channels", "postgres_listen_channel", "str">>,
  <<"postgres.listen_channel", "postgres_listen_channel", "str">> >>

Paths == {g_paths[i][1] : i \in DOMAIN g_paths}

\* parse_size: strtoull negates below 0 and stops at the largest value.
parse_size(n) == IF n >= SizeMod \/ n <= -SizeMod THEN SizeMod - 1 ELSE n % SizeMod

\* Mutant: a size of 0 is accepted.
Accepts_any_size(kind, v) ==
  CASE kind = "str"  -> v \notin TooLong
    [] kind = "bool" -> v \in DOMAIN Truth
    [] kind = "port" -> v \in DOMAIN Num /\ Num[v] \in 1 .. U16Max
    [] kind = "size" -> v \in DOMAIN Num
    [] kind = "u32"  -> v \in DOMAIN Num /\ parse_size(Num[v]) \in 1 .. U32Max
    [] kind = "u32z" -> v \in DOMAIN Num /\ parse_size(Num[v]) \in 0 .. U32Max

\* The check a kind of value has to pass: copy_str, parse_bool, parse_u16, parse_size.
Accepts(kind, v) ==
  CASE kind = "str"  -> v \notin TooLong
    [] kind = "bool" -> v \in DOMAIN Truth
    [] kind = "port" -> v \in DOMAIN Num /\ Num[v] \in 1 .. U16Max
    [] kind = "size" -> v \in DOMAIN Num /\ parse_size(Num[v]) # 0
    [] kind = "u32"  -> v \in DOMAIN Num /\ parse_size(Num[v]) \in 1 .. U32Max
    [] kind = "u32z" -> v \in DOMAIN Num /\ parse_size(Num[v]) \in 0 .. U32Max

\* What is stored for it.
Stored(kind, v) ==
  CASE kind = "str"  -> v
    [] kind = "bool" -> Truth[v]
    [] OTHER         -> parse_size(Num[v])

NotLoaded == [loaded |-> FALSE]

apply_scalar(c, row, v) ==
  IF Accepts(row[3], v) THEN [c EXCEPT ![row[2]] = Stored(row[3], v)] ELSE NotLoaded

\* lookup: a path that is absent or empty says nothing.
Says(doc, path) == path \in DOMAIN doc /\ doc[path] # ""

apply_row(c, doc, row) ==
  IF c = NotLoaded \/ ~Says(doc, row[1]) THEN c ELSE apply_scalar(c, row, doc[row[1]])

\* The loop of load_from_ctx: what it has after each of the paths.
LoadLoop(doc) ==
  LET c[i \in 0 .. Len(g_paths)] ==
        IF i = 0 THEN Defaults ELSE apply_row(c[i - 1], doc, g_paths[i])
  IN c

\* load_from_ctx: the first bad value ends it.
load_from_ctx(doc) == LoadLoop(doc)[Len(g_paths)]

\* edge_config_load_yaml_path: f.whole is FALSE for a file that cannot be opened or
\* does not parse; an empty document gives the defaults.
edge_config_load_yaml_path(f) ==
  IF f.whole THEN load_from_ctx(f.doc) ELSE NotLoaded
===============================================================================
