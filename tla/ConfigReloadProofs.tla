-------------------------- MODULE ConfigReloadProofs --------------------------
(***************************************************************************)
(* Theorems about ConfigReload for any number of edits and signals and any *)
(* set of broken versions.                                                 *)
(***************************************************************************)
EXTENDS ConfigReload, TLAPS

\* The versions the host holds are versions of the file, none newer than the
\* file itself.
VersionsInv ==
  /\ {file, shadow, active, read, asked} \subseteq Versions
  /\ read <= file /\ asked <= file

\* Between the clearing of the flag and the reading of the file a signal may come
\* and go, but the file is read afterwards: only in the places before the read
\* may the flag be clear while a request is unanswered.
SignalInv ==
  /\ pc = "boot" => asked = 0
  /\ pc \in {"boot", "startup"} => ~discarded
  /\ pc \in {"startup", "loop", "loaded"} /\ ~g_edgehost_hup /\ ~discarded => read >= asked

FlagsInv == g_edgehost_hup \in BOOLEAN /\ discarded \in BOOLEAN

IInv == FlagsInv /\ VersionsInv /\ SignalInv

LEMMA InitInv == Init => IInv
<1>1. Init => FlagsInv
  BY DEF Init, FlagsInv
<1>2. Init => VersionsInv /\ SignalInv
  BY ReloadAssumption DEF Init, VersionsInv, SignalInv, Versions
<1> QED
  BY <1>1, <1>2 DEF IInv

LEMMA NextInv == IInv /\ [Next]_vars => IInv'
<1> SUFFICES ASSUME IInv, [Next]_vars PROVE IInv'
  OBVIOUS
<1>0. FlagsInv /\ FlagsInv'
  BY DEF IInv, FlagsInv, Next, Host, vars, EditFile, edgehost_on_hup, Boot, Drain,
     TestFlag, ClearFlag, Load, Apply, Leave
<1> SUFFICES VersionsInv' /\ SignalInv'
  BY <1>0 DEF IInv
<1> USE ReloadAssumption DEF IInv, VersionsInv, SignalInv, Versions
<1>1. CASE EditFile
  BY <1>1 DEF EditFile
<1>2. CASE edgehost_on_hup
  BY <1>2 DEF edgehost_on_hup
<1>3. CASE Boot
  BY <1>3 DEF Boot
<1>4. CASE Drain
  BY <1>0, <1>4 DEF Drain, FlagsInv
<1>5. CASE TestFlag
  BY <1>5 DEF TestFlag
<1>6. CASE ClearFlag
  BY <1>6 DEF ClearFlag
<1>7. CASE Load
  BY <1>7 DEF Load
<1>8. CASE Apply
  BY <1>8 DEF Apply
<1>9. CASE Leave
  BY <1>9 DEF Leave
<1>10. CASE UNCHANGED vars
  BY <1>10 DEF vars
<1> QED
  BY <1>1, <1>2, <1>3, <1>4, <1>5, <1>6, <1>7, <1>8, <1>9, <1>10 DEF Next, Host

\* A loop that polls the flag loses no SIGHUP, however signals and edits fall
\* between the test of the flag, its clearing, the reading of the file and the
\* applying of what was read.
THEOREM NoSignalIsLost == Spec => []NoLostSignal
<1>1. IInv => NoLostSignal
  BY DEF IInv, SignalInv, NoLostSignal
<1> QED
  BY <1>1, InitInv, NextInv, PTL DEF Spec

\* What makes ActiveIsGood inductive.
ShadowInv ==
  /\ pc \notin {"boot", "exit"} => active \in Good
  /\ pc = "loaded" => shadow = read /\ shadow \notin Unparsable
  /\ pc \in {"startup", "loop", "seen", "taken"} /\ read \in Good => active = read

LEMMA NextShadow == IInv /\ ShadowInv /\ [Next]_vars => ShadowInv'
<1> SUFFICES ASSUME IInv, ShadowInv, [Next]_vars PROVE ShadowInv'
  OBVIOUS
<1> USE DEF ShadowInv, Good
<1>1. CASE EditFile \/ edgehost_on_hup \/ Drain \/ TestFlag \/ ClearFlag \/ Leave
            \/ UNCHANGED vars
  BY <1>1 DEF EditFile, edgehost_on_hup, Drain, TestFlag, ClearFlag, Leave, vars
<1>2. CASE Boot
  BY <1>2 DEF Boot
<1>3. CASE Load
  BY <1>3 DEF Load
<1>4. CASE Apply
  BY <1>4 DEF Apply, IInv, VersionsInv
<1> QED
  BY <1>1, <1>2, <1>3, <1>4 DEF Next, Host

\* The shadow protects the running system: the configuration in force loads and
\* validates, and after a reload of a good file it is that file's.
THEOREM ShadowProtects == Spec => []ActiveIsGood
<1>1. Init => ShadowInv
  BY DEF Init, ShadowInv
<1>2. ShadowInv => ActiveIsGood
  BY DEF ShadowInv, ActiveIsGood
<1> QED
  BY <1>1, <1>2, InitInv, NextInv, NextShadow, PTL DEF Spec

\* The program as it is, whose loop never looks at the flag: what main loaded before
\* it entered the loop stays in force, whatever is edited and signalled.  (What the
\* documentation promises instead, HupReloads, is refuted by a run.)
THEOREM ShippedNeverReloads ==
  ASSUME ~PollsHup
  PROVE  Spec => [][pc # "boot" => UNCHANGED <<shadow, active, read>>]_vars
<1> DEFINE NoReload == pc \in {"boot", "startup", "loop", "exit"}
<1>1. Init => NoReload
  BY DEF Init
<1>2. NoReload /\ [Next]_vars => NoReload'
  BY DEF Next, Host, EditFile, edgehost_on_hup, Boot, Drain, TestFlag, ClearFlag, Load, Apply,
     Leave, vars
<1>3. NoReload /\ [Next]_vars => [pc # "boot" => UNCHANGED <<shadow, active, read>>]_vars
  BY DEF Next, Host, EditFile, edgehost_on_hup, Boot, Drain, TestFlag, ClearFlag, Load, Apply,
     Leave, vars
<1> QED
  BY <1>1, <1>2, <1>3, PTL DEF Spec
===============================================================================
