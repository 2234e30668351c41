------------------------------ MODULE ControlStore ------------------------------
(***************************************************************************)
(* The control-plane database and the processes that change it: serving    *)
(* containers and operator commands, each busy with one call at a time.    *)
(* A read is a step of its own.  On local SQLite the writes of a call up   *)
(* to its commit are one step; on managed libSQL each statement commits by *)
(* itself.                                                                 *)
(*                                                                         *)
(* Soft deletion is one protocol for keys, setup tokens, tenants and       *)
(* projects: look whether the row is deleted already, stamp it, audit it.  *)
(***************************************************************************)
EXTENDS Naturals, FiniteSets

CONSTANTS
  Workers,   \* processes
  Keys,      \* key ids that may be drawn
  Tokens,    \* setup token ids that may be drawn
  Tenants,   \* tenant ids
  Projects,  \* project ids
  Bases,     \* replacement databases
  Nothing

Subjects == Keys \cup Tokens \cup Tenants \cup Projects

ASSUME StoreAssumption ==
  /\ Nothing \notin Subjects \cup Bases
  /\ Keys \cap (Tokens \cup Tenants \cup Projects) = {}
  /\ Tokens \cap (Tenants \cup Projects) = {}
  /\ Tenants \cap Projects = {}

VARIABLES
  autocommit,  \* managed libSQL
  work,        \* the call each process is busy with
  gone,        \* revoked keys and setup tokens, retired tenants and projects
  active,      \* tenants with active = 1
  audits,      \* audit rows of each deletion
  spent,       \* setup tokens with a consumed_at
  voided       \* history: tokens revoked, or expired, before any use

rowVars == <<gone, active, audits, spent, voided>>
storeVars == <<autocommit, work, rowVars>>

\* A call: where it is, what for, what it works on, and what it has read.
Rest == [pc |-> "idle", why |-> "none", subject |-> Nothing, tenant |-> Nothing,
         project |-> Nothing, base |-> Nothing, fresh |-> FALSE, bare |-> FALSE]

At(w, pc) == work[w].pc = pc
Becomes(w, call) == work' = [work EXCEPT ![w] = call]
Goto(w, pc) == Becomes(w, [work[w] EXCEPT !.pc = pc])
Ends(w) == Becomes(w, Rest)

\* A statement raises, having taken effect or not, or the process dies.
Break(w) == ~At(w, "idle") /\ Ends(w) /\ UNCHANGED <<autocommit, rowVars>>

-----------------------------------------------------------------------------
(* Soft deletion *)

\* A retired tenant or project is refused, a revoked key or token is not.
Deletable(x) == x \in gone => x \in Keys \cup Tokens

Check(w) ==
  LET x == work[w].subject IN
  /\ At(w, "check")
  /\ IF Deletable(x)
       THEN Becomes(w, [work[w] EXCEPT !.pc = "delete", !.fresh = x \notin gone])
       ELSE Ends(w)
  /\ UNCHANGED <<autocommit, rowVars>>

\* Whether the audit row is another transaction.
AuditedApart(w) == autocommit /\ work[w].fresh

Delete(w) ==
  LET x == work[w].subject IN
  /\ At(w, "delete")
  /\ gone' = gone \cup {x}
  /\ active' = active \ {x}
  /\ voided' = voided \cup ({x} \cap (Tokens \ spent))
  /\ audits' = IF work[w].fresh /\ ~AuditedApart(w)
                 THEN [audits EXCEPT ![x] = @ + 1] ELSE audits
  /\ IF AuditedApart(w) THEN Goto(w, "audit") ELSE Ends(w)
  /\ UNCHANGED <<autocommit, spent>>

Audit(w) ==
  /\ At(w, "audit") /\ Ends(w)
  /\ audits' = [audits EXCEPT ![work[w].subject] = @ + 1]
  /\ UNCHANGED <<autocommit, gone, active, spent, voided>>

SoftDeletion(w) == Check(w) \/ Delete(w) \/ Audit(w)
===============================================================================
