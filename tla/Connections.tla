------------------------------ MODULE Connections ------------------------------
(***************************************************************************)
(* Threads that work on managed databases: a thread resolves its database  *)
(* to a target, which takes a token, and runs its operation on a remote    *)
(* connection made with that token.                                        *)
(***************************************************************************)
EXTENDS RemoteCalls, TokenCache

ASSUME ThreadsAssumption == Threads = Callers

vars == <<remoteVars, tokenVars>>

Init == RemoteInit /\ TokenInit

\* A thread that works on a database asks for nothing else.
Resolve(t, d) ==
  /\ op[t].step \in {"idle", "ended"}
  /\ Ask(t, d) /\ UNCHANGED remoteVars

\* The operation starts once the token is there.
Operate(t) ==
  /\ thread[t].pc = "served"
  /\ \E site \in SitesOf[t], sql \in Statements : Begin(t, site, sql)
  /\ UNCHANGED tokenVars

ThreadStep(t) ==
  \/ GetStep(t) /\ UNCHANGED remoteVars
  \/ Operate(t)
  \/ CallStep(t) /\ UNCHANGED tokenVars

Next ==
  \/ \E t \in Threads : ThreadStep(t) \/ \E d \in Databases : Resolve(t, d)
  \/ Remote /\ UNCHANGED tokenVars
  \/ (Tick \/ \E d \in Databases : Invalidate(d)) /\ UNCHANGED remoteVars

\* A thread runs and its timed waits end; the remote and the clock owe nothing.
Spec == Init /\ [][Next]_vars
FairSpec == Spec /\ \A t \in Threads : WF_vars(ThreadStep(t))

-----------------------------------------------------------------------------
Failed(t) == thread[t].pc = "failed"

\* A thread that needs a database gets its result or its error, though mints
\* fail and are invalidated, the remote may never answer any call, and
\* abandoned workers may hold every slot for ever.
CallersEnd ==
  \A t \in Threads :
    thread[t].pc # "idle" ~> Failed(t) \/ op[t].step = "ended" \/ SitesOf[t] = {}
================================================================================
