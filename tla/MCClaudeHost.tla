----------------------------- MODULE MCClaudeHost ------------------------------
(***************************************************************************)
(* ClaudeHost for TLC.                                                     *)
(***************************************************************************)
EXTENDS ClaudeHost, TLC

CONSTANTS s1, s2, s3, s4, h1

KindOf == s1 :> "setup" @@ s2 :> "setup" @@ s3 :> "remove" @@ s4 :> "setup"
TargetOf == s1 :> "recorder" @@ s2 :> "recorder" @@ s3 :> "recorder" @@ s4 :> "codex"
OtherHooks == {<<"Stop", "other">>}
TwoLegs == <<"fresh_context", "search_long_term">>

SetupSymmetry == Permutations({s1, s2})

Begun == {c \in Commands : command[c].pc # "start"}

\* Three commands, two at a time.  A prime meets one of them while it starts; once
\* it has read its configuration it has no more to do with them, and goes on,
\* and time passes for it, only where none has begun.
Apart ==
  /\ Cardinality(Begun) <= 3 /\ Cardinality({c \in Commands : Running(c)}) <= 2
  /\ \A p \in Primes :
       \/ Is(p, "none")
       \/ Cardinality(Begun) <= 1 /\ prime[p].elapsed = 0
            /\ prime[p].pc \in {"boot", "input", "exited"}
       \/ Begun = {}
================================================================================
