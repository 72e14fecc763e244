---------------------------- MODULE ConfigReload -----------------------------
(***************************************************************************)
(* SIGHUP and the configuration file (src/src/host/config_hup.c), and what *)
(* main (src/src/host/main.c) does with them.  The operator edits the file *)
(* and sends SIGHUP at any moment; the handler only sets a flag, which the *)
(* host tests, clears and answers with a reload, each a step of its own    *)
(* that a signal or an edit may come between.                              *)
(*                                                                         *)
(* PollsHup = FALSE is the program as it is: main drains the flag once     *)
(* before it enters the io_uring loop, and the loop never looks at it.     *)
(* PollsHup = TRUE is the host of ADR-005, whose loop calls                *)
(* edgehost_hup_take and edgehost_reload_config.                           *)
(***************************************************************************)
EXTENDS Naturals

CONSTANTS
  PollsHup,      \* which of the two hosts
  Unparsable,    \* versions of the file that do not load (half written, say)
  Invalid,       \* versions edge_config_validate rejects
  MaxFile,       \* bound: edits of the file
  MaxHup         \* bound: signals sent

ASSUME ReloadAssumption ==
  /\ PollsHup \in BOOLEAN
  /\ {MaxFile, MaxHup} \subseteq Nat
  /\ Unparsable \cup Invalid \subseteq 1 .. MaxFile

VARIABLES
  file,               \* version of the file on disk
  g_edgehost_hup,     \* the flag
  pc,                 \* where the host is
  shadow, active,     \* version loaded, version in force
  read, asked, sent,  \* history: newest version loaded, version on disk at the
                      \* last SIGHUP, signals sent
  discarded           \* history: the last SIGHUP was drained at startup

vars == <<file, g_edgehost_hup, pc, shadow, active, read, asked, sent, discarded>>

Versions == 0 .. MaxFile
Good == Versions \ (Unparsable \cup Invalid)

Init ==
  /\ file = 0 /\ g_edgehost_hup = FALSE /\ pc = "boot"
  /\ shadow = 0 /\ active = 0 /\ read = 0 /\ asked = 0 /\ sent = 0
  /\ discarded = FALSE

\* The operator replaces the file.
EditFile ==
  /\ file < MaxFile
  /\ file' = file + 1
  /\ UNCHANGED <<g_edgehost_hup, pc, shadow, active, read, asked, sent, discarded>>

\* edgehost_on_hup, once the handler is installed.
edgehost_on_hup ==
  /\ pc \notin {"boot", "exit"} /\ sent < MaxHup
  /\ g_edgehost_hup' = TRUE
  /\ asked' = file /\ sent' = sent + 1 /\ discarded' = FALSE
  /\ UNCHANGED <<file, pc, shadow, active, read>>

\* main: load and apply the file, or exit because it is not good or memory is
\* short; then edgehost_hup_install.
Boot ==
  /\ pc = "boot"
  /\ \/ /\ file \in Good
        /\ pc' = "startup" /\ shadow' = file /\ active' = file /\ read' = file
     \/ pc' = "exit" /\ UNCHANGED <<shadow, active, read>>
  /\ UNCHANGED <<file, g_edgehost_hup, asked, sent, discarded>>

\* main's edgehost_hup_take, result ignored, before edge_iouring_run.
Drain ==
  /\ pc = "startup"
  /\ pc' = "loop"
  /\ g_edgehost_hup' = FALSE
  /\ discarded' = g_edgehost_hup
  /\ UNCHANGED <<file, shadow, active, read, asked, sent>>

\* edgehost_hup_take in the loop, first half: the flag is seen set.
TestFlag ==
  /\ PollsHup /\ pc = "loop" /\ g_edgehost_hup
  /\ pc' = "seen"
  /\ UNCHANGED <<file, g_edgehost_hup, shadow, active, read, asked, sent, discarded>>

\* edgehost_hup_take, second half: the flag is cleared.
ClearFlag ==
  /\ pc = "seen"
  /\ g_edgehost_hup' = FALSE
  /\ pc' = "taken"
  /\ UNCHANGED <<file, shadow, active, read, asked, sent, discarded>>

\* Mutant: the shadow is the active configuration.
Load_in_place ==
  /\ pc = "taken"
  /\ shadow' = file /\ read' = file
  /\ active' = file
  /\ pc' = IF file \in Unparsable THEN "loop" ELSE "loaded"
  /\ UNCHANGED <<file, g_edgehost_hup, asked, sent, discarded>>

\* edgehost_reload_config, load into the shadow; a file that does not load ends
\* the reload with edgecore_notify_config_rejected.
Load ==
  /\ pc = "taken"
  /\ read' = file
  /\ shadow' = file
  /\ pc' = IF file \in Unparsable THEN "loop" ELSE "loaded"
  /\ UNCHANGED <<file, g_edgehost_hup, active, asked, sent, discarded>>

\* Mutant: the flag is cleared once more when the reload is done.
Apply_clears ==
  /\ pc = "loaded"
  /\ active' = IF shadow \in Invalid THEN active ELSE shadow
  /\ pc' = "loop"
  /\ g_edgehost_hup' = FALSE
  /\ UNCHANGED <<file, shadow, read, asked, sent, discarded>>

\* edgehost_reload_config, edgecore_apply_config of the shadow.
Apply ==
  /\ pc = "loaded"
  /\ active' = IF shadow \in Invalid THEN active ELSE shadow
  /\ pc' = "loop"
  /\ UNCHANGED <<file, g_edgehost_hup, shadow, read, asked, sent, discarded>>

\* main returns: something failed on the way to the loop, or the loop has ended.
Leave ==
  /\ pc \in {"startup", "loop"}
  /\ pc' = "exit"
  /\ UNCHANGED <<file, g_edgehost_hup, shadow, active, read, asked, sent, discarded>>

Host == Boot \/ Drain \/ TestFlag \/ ClearFlag \/ Load \/ Apply

Next == EditFile \/ edgehost_on_hup \/ Host \/ Leave

Spec == Init /\ [][Next]_vars

\* The host goes on, unless it leaves; nobody is obliged to edit or to signal.
FairSpec == Spec /\ WF_vars(Host)

-------------------------------------------------------------------------------
(* Properties *)

\* The shadow protects the running system: whatever is on disk and whenever it
\* changes, the configuration in force is one that loads and validates, and is
\* the newest such version a finished reload has read.
ActiveIsGood ==
  pc \notin {"boot", "exit"} =>
    /\ active \in Good
    /\ pc = "loop" /\ read \in Good => active = read

\* A polling loop loses no SIGHUP: the flag is cleared before the file is read,
\* so when the host is back in its loop with the flag clear it has read the file
\* at least as new as it was when the last signal came, unless main drained that
\* signal before the loop began.
NoLostSignal ==
  PollsHup /\ pc = "loop" /\ ~g_edgehost_hup /\ ~discarded => read >= asked

\* deploy/README.md: SIGHUP "reloads YAML through the shadow validate -> apply
\* path": the version on disk at the signal, or a newer one, is eventually read.
HupReloads == \A v \in Versions : asked = v ~> read >= v \/ pc = "exit"
===============================================================================
