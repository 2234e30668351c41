------------------------------ MODULE ClaudeHost -------------------------------
(***************************************************************************)
(* A host: the commands that set it up, and the hook that fires while they *)
(* run.  The hook fires if the settings can be read and name it, and reads *)
(* the configuration once, when its process is up.                         *)
(***************************************************************************)
EXTENDS HostSetup, PrimeHook

vars == <<hostVars, primeVars>>

Init == HostInit /\ PrimeInit

SessionStart(p) ==
  /\ settings.valid /\ <<"SessionStart", "vexic">> \in settings.hooks
  /\ Fire(p) /\ UNCHANGED hostVars

\* A session that is resumed is not primed; else _apply_ingest_config reads
\* the configuration.
ReadConfig(p) ==
  /\ \/ Skip(p)
     \/ Whole(file[Recorder]) /\ Configured(p)
     \/ ~Whole(file[Recorder]) /\ Unconfigured(p)
  /\ UNCHANGED hostVars

Next ==
  \/ HostNext /\ UNCHANGED primeVars
  \/ \E p \in Primes :
       \/ SessionStart(p)
       \/ ReadConfig(p)
       \/ PrimeStep(p) /\ UNCHANGED hostVars

Spec == Init /\ [][Next]_vars
================================================================================
