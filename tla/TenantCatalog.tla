------------------------------ MODULE TenantCatalog ------------------------------
(***************************************************************************)
(* HostedTenantCatalog: which tenants there are, which organisation owns   *)
(* which, the database each one's memory lives in, and its projects.       *)
(* Provisioning is idempotent and runs before most console calls; a        *)
(* restore drill fills another database and repoints the tenant at it.     *)
(***************************************************************************)
EXTENDS ControlStore

CONSTANTS
  Orgs,     \* customer organisations
  Minting   \* whether the catalog has a customer_target_factory

ASSUME CatalogAssumption == Minting \in BOOLEAN

VARIABLES
  known,    \* rows of tenants
  account,  \* customer_account_mappings
  ready,    \* tenants whose local file has its schema
  target,   \* where a tenant's memory is: its file, its own database, a base
  owner,    \* rows of hosted_projects
  member,   \* rows of tenant_projects
  drawn,    \* replacement databases created
  dropped,  \* of these, the ones destroyed again
  content,  \* "empty", "rows" imported, or "whole": projections rebuilt too
  stamped   \* the import metadata of each: a tenant and a project

baseVars == <<drawn, dropped, content, stamped>>
catalogVars == <<known, account, ready, target, owner, member, baseVars>>

Homes == {"file", "own"} \cup Bases

-----------------------------------------------------------------------------
(* Provisioning *)

\* What provisioning was for goes on.
Onward(why) == CASE why \in {"key", "token"} -> "project"
                 [] why \in {"put", "new"} -> "seek"
                 [] why = "issue" -> "create"
                 [] OTHER -> "idle"
Proceed(w) == IF Onward(work[w].why) = "idle" THEN Ends(w) ELSE Goto(w, Onward(work[w].why))

\* One transaction on either backend; a new tenant's database is made in it.
MapAccount(w, org) ==
  /\ At(w, "account")
  /\ IF account[org] # Nothing
       THEN /\ Becomes(w, [work[w] EXCEPT !.pc = "tenant", !.tenant = account[org]])
            /\ UNCHANGED <<known, account, target>>
       ELSE \E t \in Tenants \ known :
              /\ known' = known \cup {t}
              /\ account' = [account EXCEPT ![org] = t]
              /\ target' = [target EXCEPT ![t] = IF Minting THEN "own" ELSE "file"]
              /\ Becomes(w, [work[w] EXCEPT !.pc = "tenant", !.tenant = t])
  /\ UNCHANGED <<autocommit, rowVars, ready, owner, member, baseVars>>

\* Whether the file needs its schema, and a database is to be made.
ReadTenant(w) ==
  LET t == work[w].tenant
      fresh == t \notin active IN
  /\ At(w, "tenant")
  /\ IF t \notin known THEN Goto(w, "insert")
     ELSE Becomes(w, [work[w] EXCEPT !.fresh = fresh,
            !.bare = Minting /\ target[t] = "file",
            !.pc = IF fresh THEN "init" ELSE "enable"])
  /\ UNCHANGED <<autocommit, rowVars, catalogVars>>

\* The loser of a race goes on with the row of the winner.
InsertTenant(w) ==
  LET t == work[w].tenant IN
  /\ At(w, "insert")
  /\ IF t \in known THEN Goto(w, "tenant")
     ELSE Becomes(w, [work[w] EXCEPT !.fresh = TRUE, !.bare = Minting, !.pc = "init"])
  /\ known' = known \cup {t}
  /\ UNCHANGED <<autocommit, rowVars, account, ready, target, owner, member, baseVars>>

InitFile(w) ==
  /\ At(w, "init") /\ Goto(w, "enable")
  /\ ready' = ready \cup {work[w].tenant}
  /\ UNCHANGED <<autocommit, rowVars, known, account, target, owner, member, baseVars>>

Owned(w) == IF work[w].bare THEN [target EXCEPT ![work[w].tenant] = "own"] ELSE target
Joined(w) == member \cup ({work[w].tenant} \X {work[w].project})

\* The tenant is active before its target and projects are set, if each
\* statement commits by itself.
Enable(w) ==
  LET t == work[w].tenant
      joins == work[w].why = "issue" IN
  /\ At(w, "enable")
  /\ active' = active \cup {t}
  /\ gone' = gone \ {t}
  /\ target' = IF autocommit THEN target ELSE Owned(w)
  /\ member' = IF joins /\ ~autocommit THEN Joined(w) ELSE member
  /\ IF autocommit /\ work[w].bare THEN Goto(w, "route")
     ELSE IF autocommit /\ joins THEN Goto(w, "join") ELSE Proceed(w)
  /\ UNCHANGED <<autocommit, audits, spent, voided>>
  /\ UNCHANGED <<known, account, ready, owner, baseVars>>

Route(w) ==
  /\ At(w, "route")
  /\ target' = Owned(w)
  /\ IF work[w].why = "issue" THEN Goto(w, "join") ELSE Proceed(w)
  /\ UNCHANGED <<autocommit, rowVars, known, account, ready, owner, member, baseVars>>

Join(w) ==
  /\ At(w, "join")
  /\ member' = Joined(w)
  /\ IF work[w].why = "issue" THEN Proceed(w) ELSE Ends(w)
  /\ UNCHANGED <<autocommit, rowVars, known, account, ready, target, owner, baseVars>>

-----------------------------------------------------------------------------
(* Projects *)

\* Keys and tokens are made for a listed project of an active tenant.
GetProject(w) ==
  LET call == work[w] IN
  /\ At(w, "project")
  /\ IF /\ owner[call.project] = call.tenant
        /\ call.project \notin gone /\ call.tenant \in active
       THEN Goto(w, IF call.why = "key" THEN "create" ELSE "token") ELSE Ends(w)
  /\ UNCHANGED <<autocommit, rowVars, catalogVars>>

\* "put" creates or renames a project under the caller's id, "new" draws one.
SeekProject(w) ==
  LET call == work[w]
      o == owner[call.project] IN
  /\ At(w, "seek")
  /\ IF IF call.why = "put" THEN o \in {call.tenant, Nothing}
                            ELSE o = Nothing /\ call.tenant \in active
       THEN Becomes(w, [call EXCEPT !.pc = "put", !.fresh = o = Nothing]) ELSE Ends(w)
  /\ UNCHANGED <<autocommit, rowVars, catalogVars>>

PutProject(w) ==
  LET call == work[w]
      taken == call.fresh /\ owner[call.project] # Nothing IN
  /\ At(w, "put")
  /\ owner' = IF taken THEN owner ELSE [owner EXCEPT ![call.project] = call.tenant]
  /\ member' = IF taken \/ autocommit THEN member ELSE Joined(w)
  /\ IF autocommit /\ ~taken THEN Goto(w, "join") ELSE Ends(w)
  /\ UNCHANGED <<autocommit, rowVars, known, account, ready, target, baseVars>>

\* What get_tenant reports: memberships without the retired projects.
Routed(t) == {p \in Projects : <<t, p>> \in member /\ ~(owner[p] = t /\ p \in gone)}

-----------------------------------------------------------------------------
(* Restore *)

Replace(w, b) ==
  /\ At(w, "replace") /\ b \notin drawn
  /\ drawn' = drawn \cup {b}
  /\ Becomes(w, [work[w] EXCEPT !.pc = "import", !.base = b])
  /\ UNCHANGED <<autocommit, rowVars, known, account, ready, target, owner, member>>
  /\ UNCHANGED <<dropped, content, stamped>>

\* All tables in one transaction, then the projections, then the metadata.
Import(w) ==
  /\ At(w, "import") /\ Goto(w, "repair")
  /\ content' = [content EXCEPT ![work[w].base] = "rows"]
  /\ UNCHANGED <<autocommit, rowVars, known, account, ready, target, owner, member>>
  /\ UNCHANGED <<drawn, dropped, stamped>>

Repair(w) ==
  /\ At(w, "repair") /\ Goto(w, "stamp")
  /\ content' = [content EXCEPT ![work[w].base] = "whole"]
  /\ UNCHANGED <<autocommit, rowVars, known, account, ready, target, owner, member>>
  /\ UNCHANGED <<drawn, dropped, stamped>>

Stamp(w) ==
  /\ At(w, "stamp") /\ Goto(w, "verify")
  /\ stamped' = [stamped EXCEPT ![work[w].base] = <<work[w].tenant, work[w].project>>]
  /\ UNCHANGED <<autocommit, rowVars, known, account, ready, target, owner, member>>
  /\ UNCHANGED <<drawn, dropped, content>>

Verify(w) ==
  /\ At(w, "verify") /\ Goto(w, "activate")
  /\ UNCHANGED <<autocommit, rowVars, catalogVars>>

\* (Mutation: a failing activation has the replacement destroyed as well.)
DestroysLate(w) ==
  work[w].pc \in {"import", "repair", "stamp", "verify", "activate", "repoint", "reload"}

Destroys(w) == work[w].pc \in {"import", "repair", "stamp", "verify"}

\* The import or the verification fails or finds a difference, and the
\* replacement is destroyed.
Discard(w) ==
  /\ work[w].why = "restore" /\ Destroys(w) /\ Ends(w)
  /\ dropped' = dropped \cup {work[w].base}
  /\ UNCHANGED <<autocommit, rowVars, known, account, ready, target, owner, member>>
  /\ UNCHANGED <<drawn, content, stamped>>

Imported(t, b) ==
  stamped[b] # Nothing /\ stamped[b][1] = t /\ <<t, stamped[b][2]>> \in member

ReadActive(w) ==
  LET t == work[w].tenant
      b == work[w].base IN
  /\ At(w, "activate")
  /\ IF t \in active /\ target[t] # b /\ b \notin dropped /\ Imported(t, b)
       THEN Goto(w, "repoint") ELSE Ends(w)
  /\ UNCHANGED <<autocommit, rowVars, catalogVars>>

Repoint(w) ==
  LET t == work[w].tenant IN
  /\ At(w, "repoint") /\ Goto(w, "reload")
  /\ target' = [target EXCEPT ![t] = work[w].base]
  /\ active' = active \cup {t}
  /\ UNCHANGED <<autocommit, gone, audits, spent, voided>>
  /\ UNCHANGED <<known, account, ready, owner, member, baseVars>>

\* The tenant is read again for the caller.
Reload(w) == At(w, "reload") /\ Ends(w) /\ UNCHANGED <<autocommit, rowVars, catalogVars>>

CatalogStep(w) ==
  \/ \E org \in Orgs : MapAccount(w, org)
  \/ ReadTenant(w) \/ InsertTenant(w) \/ InitFile(w) \/ Enable(w) \/ Route(w) \/ Join(w)
  \/ GetProject(w) \/ SeekProject(w) \/ PutProject(w)
  \/ \E b \in Bases : Replace(w, b)
  \/ Import(w) \/ Repair(w) \/ Stamp(w) \/ Verify(w) \/ Discard(w) \/ ReadActive(w) \/ Repoint(w)
  \/ Reload(w)
===============================================================================
