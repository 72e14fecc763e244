------------------------------ MODULE MCStartup -------------------------------
(* A file with five versions: the defaults, a TLS server with every plugin, a  *)
(* broken file, an unknown mode, proxy headers with one plugin.  16, 32 and    *)
(* 64 bits are scaled to 2, 3 and 4.                                           *)
EXTENDS Startup, TLC

Scalars == {"", "open", "basic", "long", "yes", "off", "1", "0", "-1", "-14", "-20", "3", "4", "7", "8", "20"}

MCNum ==
  [s \in {"1", "0", "-1", "-14", "-20", "3", "4", "7", "8", "20"} |->
     CASE s = "1" -> 1 [] s = "0" -> 0 [] s = "-1" -> -1 [] s = "-14" -> -14 [] s = "-20" -> -20
       [] s = "3" -> 3 [] s = "4" -> 4 [] s = "7" -> 7 [] s = "8" -> 8 [] s = "20" -> 20]

MCTruth == [s \in {"yes", "1", "off", "0"} |-> IF s \in {"yes", "1"} THEN 1 ELSE 0]

Text(doc) == [whole |-> TRUE, doc |-> doc]

MCContents ==
  [v \in 0 .. 4 |->
     CASE v = 0 -> Text([p \in {} |-> ""])
       [] v = 1 -> Text("auth.mode" :> "lab_password" @@ "openai_proxy.enabled" :> "yes"
                        @@ "slack.enabled" :> "1" @@ "teams.enabled" :> "yes"
                        @@ "tls.cert" :> "cert" @@ "tls.key_file" :> "key")
       [] v = 2 -> [whole |-> FALSE, doc |-> [p \in {} |-> ""]]
       [] v = 3 -> Text("auth.mode" :> "basic")
       [] v = 4 -> Text("auth.mode" :> "proxy_headers" @@ "slack.enabled" :> "yes"
                        @@ "plugins.pqproxy.enabled" :> "yes" @@ "tls.cert" :> "cert")]

Aliases == {x \in (DOMAIN g_paths) \X (DOMAIN g_paths) :
              x[1] < x[2] /\ g_paths[x[1]][2] = g_paths[x[2]][2]}

\* Every path with every scalar, and every two paths of one field.
MCDocs ==
  {p :> s : p \in Paths \cup {"no.such.path"}, s \in Scalars}
  \cup {g_paths[x[1]][1] :> s @@ g_paths[x[2]][1] :> t :
          x \in Aliases, s \in {"", "1", "off", "long"}, t \in {"", "1", "off", "long"}}
===============================================================================
