------------------------------- MODULE ControlPlane -------------------------------
(***************************************************************************)
(* The hosted control plane: containers and operators calling the key      *)
(* store and the tenant catalog, and one request of an agent whose key is  *)
(* looked up by several consumers that share the request's decision.       *)
(***************************************************************************)
EXTENDS AgentKeys, TenantCatalog

CONSTANTS
  Consumers,  \* tasks and threads that inherit the request's context
  MaxCalls    \* bound: calls to the control plane, the agent's request included

\* Homes are told apart.
ASSUME HomesAssumption ==
  /\ Bases \cap {"file", "own"} = {}
  /\ Nothing \notin Tenants \X Projects

VARIABLES
  calls,      \* calls so far
  request,    \* the request: its key, and the decision its consumers share
  consumers   \* where each consumer is; history: whether its key was gone

requestVars == <<request, consumers>>
vars == <<storeVars, keyVars, catalogVars, calls, requestVars>>

NoRequest == [key |-> Nothing, over |-> FALSE, live |-> FALSE, cached |-> FALSE,
              dead |-> FALSE]
Unasked == [pc |-> "idle", late |-> FALSE]

-----------------------------------------------------------------------------
(* Calls *)

Calling(pc, why) == [Rest EXCEPT !.pc = pc, !.why = why]

Call(w, call) ==
  /\ At(w, "idle") /\ calls < MaxCalls
  /\ calls' = calls + 1
  /\ Becomes(w, call)
  /\ UNCHANGED <<autocommit, rowVars, keyVars, catalogVars, requestVars>>

\* The console provisions the organisation's tenant before anything else.
ConsoleCall(w) ==
  \E why \in {"tenant", "key", "token", "put", "new"}, p \in Projects :
    Call(w, [Calling("account", why) EXCEPT !.project = p])

IssueKey(w) ==
  \E t \in Tenants, p \in Projects :
    Call(w, [Calling("tenant", "issue") EXCEPT !.tenant = t, !.project = p])

\* At start a container gives every active tenant without a database one.
HealTarget(w) ==
  \E t \in active : /\ Minting /\ target[t] = "file"
                    /\ Call(w, [Calling("tenant", "heal") EXCEPT !.tenant = t])

Exchange(w) == \E t \in issued : Call(w, [Calling("exchange", "setup") EXCEPT !.subject = t])

\* The console finds the tenant only while it is active.
ConsoleRevokesKey(w) ==
  \E k \in minted : /\ scope[k].tenant \in active
                    /\ Call(w, [Calling("find", "revoke") EXCEPT !.subject = k])

ConsoleRevokesToken(w) ==
  \E t \in issued : /\ scope[t].tenant \in active
                    /\ Call(w, [Calling("check", "revoke") EXCEPT !.subject = t])

OperatorDeletes(w) ==
  \E x \in minted \cup known \cup {p \in Projects : owner[p] # Nothing} :
    Call(w, [Calling("check", "delete") EXCEPT !.subject = x])

RestoreDrill(w) ==
  \E t \in known, p \in Projects :
    Call(w, [Calling("replace", "restore") EXCEPT !.tenant = t, !.project = p])

\* A database that a drill left behind is activated by hand.
ActivateByHand(w) ==
  \E t \in known, b \in drawn :
    /\ \A v \in Workers : work[v].base # b
    /\ Call(w, [Calling("activate", "activate") EXCEPT !.tenant = t, !.base = b])

Start(w) ==
  \/ ConsoleCall(w) \/ IssueKey(w) \/ HealTarget(w) \/ Exchange(w)
  \/ ConsoleRevokesKey(w) \/ ConsoleRevokesToken(w) \/ OperatorDeletes(w)
  \/ RestoreDrill(w) \/ ActivateByHand(w)

-----------------------------------------------------------------------------
(* One request of an agent *)

\* A key that was returned reaches the service, live or not.
Arrive(k) ==
  /\ request = NoRequest /\ k \in handed /\ calls < MaxCalls
  /\ calls' = calls + 1
  /\ request' = [key |-> k, over |-> FALSE, live |-> TRUE, cached |-> FALSE,
                 dead |-> k \in gone]
  /\ UNCHANGED <<storeVars, keyVars, catalogVars, consumers>>

\* While the shared state is live a consumer waits for its lock.
Ask(c) ==
  /\ request.key # Nothing /\ consumers[c].pc = "idle"
  /\ consumers' = [consumers EXCEPT ![c] =
       [pc |-> IF request.live THEN "waits" ELSE "alone",
        late |-> IF request.over THEN request.key \in gone ELSE request.dead]]
  /\ UNCHANGED <<storeVars, keyVars, catalogVars, calls, request>>

\* The lock is held from the look at the decision to its storage.
Authenticate(c) ==
  LET hit == consumers[c].pc = "waits" /\ request.cached
      passed == hit \/ request.key \notin gone IN
  /\ consumers[c].pc \in {"waits", "alone"}
  /\ consumers' = [consumers EXCEPT ![c].pc = IF passed THEN "passed" ELSE "refused"]
  /\ request' = [request EXCEPT !.cached =
       @ \/ (passed /\ consumers[c].pc = "waits" /\ request.live)]
  /\ UNCHANGED <<storeVars, keyVars, catalogVars, calls>>

\* The tenant and its projects are read for every operation.
Bind(c) ==
  LET s == scope[request.key] IN
  /\ consumers[c].pc = "passed"
  /\ consumers' = [consumers EXCEPT ![c].pc =
       IF s.tenant \in active /\ s.project \in Routed(s.tenant) THEN "bound" ELSE "refused"]
  /\ UNCHANGED <<storeVars, keyVars, catalogVars, calls, request>>

\* (Mutation: the context is left without a change to the shared state.)
LeftAsItIs == [request EXCEPT !.over = TRUE]

Left == [request EXCEPT !.over = TRUE, !.live = FALSE, !.cached = FALSE]

\* The response is sent; a task that inherited the context may live on.
EndRequest ==
  /\ request.key # Nothing /\ ~request.over
  /\ request' = Left
  /\ UNCHANGED <<storeVars, keyVars, catalogVars, calls, consumers>>

-----------------------------------------------------------------------------
\* Nothing yet.
Empty ==
  /\ active = {} /\ known = {} /\ ready = {} /\ member = {}
  /\ minted = {} /\ listed = {} /\ issued = {} /\ handed = {}
  /\ account = [o \in Orgs |-> Nothing]
  /\ owner = [p \in Projects |-> Nothing]
  /\ scope = [x \in Keys \cup Tokens |-> NoScope]
  /\ target = [t \in Tenants |-> "file"]

\* An organisation with a tenant, perhaps from before databases were made for
\* tenants, a project, and a key and a setup token for it.
Settled(o, t, home, p, k, token) ==
  /\ active = {t} /\ known = {t} /\ ready = {t} /\ member = {<<t, p>>}
  /\ minted = {k} /\ listed = {k} /\ issued = {token} /\ handed = {k}
  /\ account = [x \in Orgs |-> IF x = o THEN t ELSE Nothing]
  /\ owner = [x \in Projects |-> IF x = p THEN t ELSE Nothing]
  /\ scope = [x \in Keys \cup Tokens |->
       IF x \in {k, token} THEN [NoScope EXCEPT !.tenant = t, !.project = p, !.via = "key"]
                           ELSE NoScope]
  /\ target = [x \in Tenants |-> IF x = t THEN home ELSE "file"]

Init ==
  /\ autocommit \in BOOLEAN
  /\ work = [w \in Workers |-> Rest]
  /\ gone = {} /\ audits = [x \in Subjects |-> 0] /\ spent = {} /\ voided = {}
  /\ expired = {} /\ noted = [t \in Tokens |-> Nothing]
  /\ drawn = {} /\ dropped = {}
  /\ content = [b \in Bases |-> "empty"] /\ stamped = [b \in Bases |-> Nothing]
  /\ \/ Empty
     \/ \E o \in Orgs, t \in Tenants, home \in {"file", "own"}, p \in Projects :
          \E k \in Keys, token \in Tokens : Settled(o, t, home, p, k, token)
  /\ calls = 0 /\ request = NoRequest
  /\ consumers = [c \in Consumers |-> Unasked]

Steps(w) ==
  \/ (Break(w) \/ SoftDeletion(w)) /\ UNCHANGED <<keyVars, catalogVars>>
  \/ KeyStep(w) /\ UNCHANGED catalogVars
  \/ CatalogStep(w) /\ UNCHANGED keyVars

Next ==
  \/ \E w \in Workers : \/ Start(w)
                        \/ Steps(w) /\ UNCHANGED <<calls, requestVars>>
  \/ \E t \in Tokens : Expire(t) /\ UNCHANGED <<catalogVars, calls, requestVars>>
  \/ \E k \in Keys : Arrive(k)
  \/ \E c \in Consumers : Ask(c) \/ Authenticate(c) \/ Bind(c)
  \/ EndRequest

Spec == Init /\ [][Next]_vars

-----------------------------------------------------------------------------
\* A setup token is worth one key at most, none once it was revoked or had
\* run out unused, and every key it was worth is recorded as its use.
OneKeyPerToken ==
  \A t \in Tokens :
    LET worth == {k \in minted : scope[k].token = t} IN
    /\ \A k, l \in worth : k = l
    /\ worth # {} => t \in spent \ voided
    /\ noted[t] # Nothing => noted[t] \in worth

\* A key that the console or an exchange gave out is one that the console
\* lists, so that it can be found and revoked.
HandedListed == \A k \in handed : scope[k].via # "issue" => k \in listed

\* However exchanges, revocations and faults cross, a key is worth what its
\* token allowed and can be found again.
KeysAccounted == OneKeyPerToken /\ HandedListed

\* A consumer that reaches the memory holds a key that was not revoked yet
\* when its request arrived, or when it asked after the response.
Admission == \A c \in Consumers : consumers[c].pc = "bound" => ~consumers[c].late

\* Whatever an interrupted or repeated provisioning or restore left behind, an
\* active tenant's memory is a file with a schema, its own database, or a
\* whole, undestroyed import made for this tenant, which no other tenant uses.
HomeWhole ==
  \A t \in active :
    LET home == target[t] IN
    /\ home = "file" => t \in ready
    /\ home \in Bases => /\ home \notin dropped /\ content[home] = "whole"
                         /\ stamped[home] # Nothing /\ stamped[home][1] = t
                         /\ \A u \in active \ {t} : target[u] # home
================================================================================
