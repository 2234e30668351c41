--------------------------- MODULE ControlPlaneProofs ---------------------------
(***************************************************************************)
(* Proofs about ControlPlane, for any processes, keys, tokens, tenants,    *)
(* projects, databases and calls, on either backend.                       *)
(***************************************************************************)
EXTENDS ControlPlane, TLAPS

-------------------------------------------------------------------------------
\* Types.

Whys == {"none", "tenant", "key", "token", "put", "new", "issue", "heal", "setup",
         "revoke", "delete", "undo", "restore", "activate"}
Deleting == {"check", "delete", "audit"}
Keying == {"create", "load", "list", "note", "hand", "exchange", "spend", "token", "find"}
Provisioning == {"tenant", "insert", "init", "enable", "route", "join", "project",
                 "seek", "put"}
Importing == {"import", "repair", "stamp", "verify"}
Repointing == {"activate", "repoint", "reload"}
Places == {"idle", "account", "replace"} \cup Deleting \cup Keying \cup Provisioning
            \cup Importing \cup Repointing

CallType ==
  [pc : Places, why : Whys, subject : Subjects \cup {Nothing},
   tenant : Tenants \cup {Nothing}, project : Projects \cup {Nothing},
   base : Bases \cup {Nothing}, fresh : BOOLEAN, bare : BOOLEAN]

\* What a call has in hand where it is: place, purpose, subject, tenant,
\* project and base.
Shaped(pc, why, s, t, p, b) ==
  /\ pc \in Deleting \cup {"find"} => s \in Subjects
  /\ pc \in {"exchange", "spend"} => why = "setup" /\ s \in Tokens
  /\ pc = "create" => why \in {"key", "issue", "setup"} /\ (why = "setup" => s \in Tokens)
  /\ pc \in {"load", "list"} => why \in {"key", "setup"} /\ s \in Keys
  /\ pc = "note" => why = "setup" /\ s \in Keys
  /\ pc = "hand" => why \in {"key", "issue", "setup"} /\ s \in Keys
  /\ pc = "token" => why = "token"
  /\ pc \in {"account"} \cup Provisioning =>
       why \in {"tenant", "key", "token", "put", "new", "issue", "heal"}
  /\ pc \in Provisioning \cup {"replace"} \cup Importing \cup Repointing => t \in Tenants
  /\ pc \in Importing \cup Repointing => b \in Bases
  /\ pc = "project" => why \in {"key", "token"}
  /\ pc \in {"seek", "put"} => why \in {"put", "new"}
  /\ pc = "join" => why \in {"put", "new", "issue"}
  /\ why \in {"put", "new", "issue", "restore"} => p \in Projects
  /\ pc \in {"replace"} \cup Importing => why = "restore"

ScopeType == [tenant : Tenants \cup {Nothing}, project : Projects \cup {Nothing},
              token : Tokens \cup {Nothing}, via : Whys]

RowsTyped ==
  /\ autocommit \in BOOLEAN
  /\ gone \subseteq Subjects /\ active \subseteq Tenants
  /\ audits \in [Subjects -> Nat]
  /\ spent \subseteq Tokens /\ voided \subseteq Tokens

KeysTyped ==
  /\ minted \subseteq Keys /\ listed \subseteq Keys /\ handed \subseteq Keys
  /\ issued \subseteq Tokens /\ expired \subseteq Tokens
  /\ scope \in [Keys \cup Tokens -> ScopeType]
  /\ noted \in [Tokens -> Keys \cup {Nothing}]

CatalogTyped ==
  /\ known \subseteq Tenants /\ ready \subseteq Tenants
  /\ account \in [Orgs -> Tenants \cup {Nothing}]
  /\ target \in [Tenants -> Homes]
  /\ owner \in [Projects -> Tenants \cup {Nothing}]
  /\ member \subseteq Tenants \X Projects
  /\ drawn \subseteq Bases /\ dropped \subseteq Bases
  /\ content \in [Bases -> {"empty", "rows", "whole"}]
  /\ stamped \in [Bases -> (Tenants \X Projects) \cup {Nothing}]

RequestTyped ==
  /\ calls \in Nat
  /\ request \in [key : Keys \cup {Nothing}, over : BOOLEAN, live : BOOLEAN,
                  cached : BOOLEAN, dead : BOOLEAN]
  /\ consumers \in [Consumers -> [pc : {"idle", "waits", "alone", "passed", "refused",
                                        "bound"}, late : BOOLEAN]]

WorkTyped ==
  /\ work \in [Workers -> CallType]
  /\ \A w \in Workers :
       LET r == work[w] IN Shaped(r.pc, r.why, r.subject, r.tenant, r.project, r.base)

TypeInv == WorkTyped /\ RowsTyped /\ KeysTyped /\ CatalogTyped /\ RequestTyped

-------------------------------------------------------------------------------
\* Keys and tokens.

\* Where a call that mints has got to.
Minter(w) ==
  LET r == work[w] IN
  /\ r.pc = "create" /\ r.why = "setup" =>
       /\ r.subject \in spent \ voided
       /\ \A k \in minted : scope[k].token # r.subject
  /\ r.pc \in {"load", "list", "note", "hand"} =>
       r.subject \in minted /\ scope[r.subject].via = r.why
  /\ r.pc \in {"note", "hand"} => r.why = "issue" \/ r.subject \in listed

\* No two mint for one token.
OneMinter ==
  \A v, w \in Workers :
    At(v, "create") /\ work[v].why = "setup" /\
    At(w, "create") /\ work[w].why = "setup" /\ work[v].subject = work[w].subject => v = w

\* What is void can no longer be spent.
VoidForGood ==
  \A t \in voided \ gone : t \in expired /\ ~Exchanging(t)

WorthSpent ==
  /\ \A k \in minted : /\ scope[k].via = "setup" => scope[k].token \in Tokens
                       /\ scope[k].token \in Tokens => scope[k].token \in spent \ voided
  /\ \A k, l \in minted : scope[k].token \in Tokens /\ scope[k].token = scope[l].token => k = l
  /\ \A t \in Tokens : noted[t] # Nothing => noted[t] \in minted /\ scope[noted[t]].token = t

KeyInv ==
  /\ \A w \in Workers : Minter(w)
  /\ OneMinter /\ VoidForGood /\ WorthSpent
  /\ handed \subseteq minted /\ HandedListed

-------------------------------------------------------------------------------
\* Homes.

\* Whole, undestroyed and made for the tenant.
Made(b, t) ==
  /\ b \notin dropped /\ content[b] = "whole"
  /\ stamped[b] # Nothing /\ stamped[b][1] = t

Mover(w) ==
  LET r == work[w] IN
  /\ r.pc \in Provisioning \cup {"replace"} \cup Importing \cup Repointing =>
       r.pc \in {"tenant", "insert"} \/ r.tenant \in known
  /\ r.pc \in {"enable", "repoint"} => r.tenant \in ready
  /\ r.base \in Bases => r.base \in drawn
  /\ r.pc \in {"import", "repair", "stamp"} => stamped[r.base] = Nothing
  /\ r.pc = "stamp" => content[r.base] = "whole"
  /\ r.pc \in Importing => \A t \in Tenants : target[t] # r.base
  /\ r.pc = "repoint" => Made(r.base, r.tenant)

HomeInv ==
  /\ \A w \in Workers : Mover(w)
  /\ \A v, w \in Workers : work[v].base \in Bases /\ work[v].base = work[w].base => v = w
  /\ active \subseteq known /\ active \subseteq ready
  /\ \A b \in Bases : stamped[b] # Nothing => b \in drawn /\ content[b] = "whole"
  /\ \A t \in Tenants : target[t] \in Bases => target[t] \in drawn /\ Made(target[t], t)

-------------------------------------------------------------------------------
\* The request.

RequestInv ==
  /\ request.key = Nothing => \A c \in Consumers : consumers[c] = Unasked
  /\ request.live => ~request.over
  /\ request.cached => ~request.dead
  /\ request.dead => request.key \in gone
  /\ \A c \in Consumers :
       /\ consumers[c].late => request.key \in gone
       /\ consumers[c].pc = "waits" /\ consumers[c].late => request.dead
       /\ consumers[c].pc \in {"passed", "bound"} => ~consumers[c].late

-------------------------------------------------------------------------------
\* What a call becomes: its place, what it is for, its subject, tenant, project
\* and base, and whether what it found was fresh.

USE DEF Deleting, Keying, Provisioning, Importing, Repointing, Places

Now(w, pc, why, s, t, p, b, fresh) ==
  /\ work' \in [Workers -> CallType]
  /\ \A v \in Workers \ {w} : work'[v] = work[v]
  /\ work'[w].pc = pc /\ work'[w].why = why
  /\ work'[w].subject = s /\ work'[w].tenant = t /\ work'[w].project = p
  /\ work'[w].base = b /\ work'[w].fresh = fresh

Idle(w) == Now(w, "idle", "none", Nothing, Nothing, Nothing, Nothing, FALSE)

Going(w, pc) ==
  LET r == work[w] IN Now(w, pc, r.why, r.subject, r.tenant, r.project, r.base, r.fresh)

LEMMA CallTyped == ASSUME WorkTyped, NEW w \in Workers PROVE work[w] \in CallType
BY DEF WorkTyped

LEMMA BecomesTyped ==
  ASSUME WorkTyped, NEW w \in Workers, NEW r \in CallType, Becomes(w, r)
  PROVE  /\ work' \in [Workers -> CallType]
         /\ work'[w] = r /\ \A v \in Workers \ {w} : work'[v] = work[v]
BY DEF WorkTyped, Becomes

LEMMA EndsNow == ASSUME WorkTyped, NEW w \in Workers, Ends(w) PROVE Idle(w)
<1>1. Rest \in CallType
  BY DEF Rest, CallType, Whys
<1> QED
  BY <1>1, BecomesTyped DEF Ends, Idle, Now, Rest

LEMMA GotoNow ==
  ASSUME WorkTyped, NEW w \in Workers, NEW pc \in Places, Goto(w, pc) PROVE Going(w, pc)
<1> DEFINE q == [work[w] EXCEPT !.pc = pc]
<1>1. /\ q \in CallType /\ q.pc = pc /\ q.why = work[w].why /\ q.subject = work[w].subject
      /\ q.tenant = work[w].tenant /\ q.project = work[w].project
      /\ q.base = work[w].base /\ q.fresh = work[w].fresh
  BY CallTyped DEF CallType
<1>2. Becomes(w, q)
  BY DEF Goto
<1> HIDE DEF q
<1> QED
  BY <1>1, <1>2, BecomesTyped DEF Going, Now

\* The same from the record a call is given.
LEMMA SetNow ==
  ASSUME WorkTyped, NEW w \in Workers, NEW q, q \in CallType, Becomes(w, q)
  PROVE  Now(w, q.pc, q.why, q.subject, q.tenant, q.project, q.base, q.fresh)
BY BecomesTyped DEF Now

LEMMA DeletionNow ==
  ASSUME WorkTyped, NEW w \in Workers
  PROVE  LET r == work[w] IN
         /\ Check(w) => \/ Idle(w)
                        \/ Now(w, "delete", r.why, r.subject, r.tenant, r.project, r.base,
                               r.subject \notin gone)
         /\ Delete(w) => Idle(w) \/ Going(w, "audit")
         /\ Audit(w) \/ Break(w) => Idle(w)
<1> DEFINE r == work[w]
           q == [r EXCEPT !.pc = "delete", !.fresh = r.subject \notin gone]
<1>1. /\ q \in CallType /\ q.pc = "delete" /\ q.why = r.why /\ q.subject = r.subject
      /\ q.tenant = r.tenant /\ q.project = r.project /\ q.base = r.base
      /\ q.fresh = (r.subject \notin gone)
  <2>1. r \in CallType /\ "delete" \in Places
    BY CallTyped
  <2> HIDE DEF Places
  <2>2. q \in CallType
    BY <2>1 DEF CallType
  <2>3. /\ q.pc = "delete" /\ q.why = r.why /\ q.subject = r.subject
        /\ q.tenant = r.tenant /\ q.project = r.project /\ q.base = r.base
        /\ q.fresh = (r.subject \notin gone)
    BY <2>1 DEF CallType
  <2> QED
    BY <2>2, <2>3
<1>2. Check(w) => Ends(w) \/ Becomes(w, q)
  BY DEF Check
<1>3. Delete(w) => Ends(w) \/ Goto(w, "audit")
  BY DEF Delete
<1>4. Audit(w) \/ Break(w) => Ends(w)
  BY DEF Audit, Break
<1> HIDE DEF q
<1>5. Becomes(w, q) => Now(w, "delete", r.why, r.subject, r.tenant, r.project, r.base,
                           r.subject \notin gone)
  BY <1>1, SetNow
<1> QED
  BY <1>2, <1>3, <1>4, <1>5, EndsNow, GotoNow

LEMMA KeyingNow ==
  ASSUME WorkTyped, KeysTyped, NEW w \in Workers
  PROVE  LET r == work[w] IN
         /\ \A k \in Keys : CreateKey(w, k) =>
              Now(w, IF r.why = "issue" THEN "hand" ELSE "load", r.why, k, r.tenant,
                  r.project, r.base, r.fresh)
         /\ LoadKey(w) => Going(w, "list")
         /\ \A outcome : ListKey(w, outcome) =>
              \/ outcome = "done" /\ Going(w, IF r.why = "setup" THEN "note" ELSE "hand")
              \/ outcome # "done" /\ Now(w, "check", "undo", r.subject, r.tenant, r.project,
                                         r.base, r.fresh)
         /\ Hand(w) => Idle(w)
         /\ \A t \in Tokens : CreateToken(w, t) => Idle(w)
         /\ ReadToken(w) /\ r.subject \in Tokens =>
              Now(w, "spend", r.why, r.subject, scope[r.subject].tenant,
                  scope[r.subject].project, r.base, r.subject \notin expired)
         /\ SpendToken(w) => \/ Spendable(w) /\ Going(w, "create")
                             \/ ~Spendable(w) /\ Idle(w)
         /\ NoteKey(w) => Going(w, "hand")
         /\ FindKey(w) => Idle(w) \/ Going(w, "check")
<1> DEFINE r == work[w]
<1>1. ASSUME NEW k \in Keys, CreateKey(w, k)
      PROVE  Now(w, IF r.why = "issue" THEN "hand" ELSE "load", r.why, k, r.tenant,
                 r.project, r.base, r.fresh)
  <2> DEFINE pc == IF r.why = "issue" THEN "hand" ELSE "load"
             q == [r EXCEPT !.subject = k, !.pc = pc]
  <2>0. pc \in Places /\ k \in Subjects
    BY DEF Subjects
  <2> HIDE DEF pc
  <2>1. /\ q \in CallType /\ q.pc = pc /\ q.why = r.why /\ q.subject = k
        /\ q.tenant = r.tenant /\ q.project = r.project /\ q.base = r.base
        /\ q.fresh = r.fresh
    <3>1. r \in CallType
      BY CallTyped
    <3> HIDE DEF Places
    <3>2. q \in CallType
      BY <2>0, <3>1 DEF CallType
    <3>3. /\ q.pc = pc /\ q.why = r.why /\ q.subject = k
          /\ q.tenant = r.tenant /\ q.project = r.project /\ q.base = r.base
          /\ q.fresh = r.fresh
      BY <3>1 DEF CallType
    <3> QED
      BY <3>2, <3>3
  <2>2. Becomes(w, q)
    BY <1>1 DEF CreateKey, pc
  <2> HIDE DEF q
  <2>3. Now(w, pc, r.why, k, r.tenant, r.project, r.base, r.fresh)
    BY <2>1, <2>2, SetNow
  <2> QED
    BY <2>3 DEF pc
<1>2. ASSUME NEW outcome, ListKey(w, outcome)
      PROVE  \/ outcome = "done" /\ Going(w, IF r.why = "setup" THEN "note" ELSE "hand")
             \/ outcome # "done" /\ Now(w, "check", "undo", r.subject, r.tenant, r.project,
                                        r.base, r.fresh)
  <2> DEFINE q == [r EXCEPT !.pc = "check", !.why = "undo"]
  <2>1. /\ q \in CallType /\ q.pc = "check" /\ q.why = "undo" /\ q.subject = r.subject
        /\ q.tenant = r.tenant /\ q.project = r.project /\ q.base = r.base
        /\ q.fresh = r.fresh
    <3>1. r \in CallType /\ "check" \in Places /\ "undo" \in Whys
      BY CallTyped DEF Whys
    <3> HIDE DEF Places
    <3>2. q \in CallType
      BY <3>1 DEF CallType
    <3>3. /\ q.pc = "check" /\ q.why = "undo" /\ q.subject = r.subject
          /\ q.tenant = r.tenant /\ q.project = r.project /\ q.base = r.base
          /\ q.fresh = r.fresh
      BY <3>1 DEF CallType
    <3> QED
      BY <3>2, <3>3
  <2>2. CASE outcome = "done"
    <3>1. Goto(w, IF r.why = "setup" THEN "note" ELSE "hand")
      BY <1>2, <2>2 DEF ListKey, HandOrUndo
    <3>2. CASE r.why = "setup"
      BY <2>2, <3>1, <3>2, GotoNow
    <3>3. CASE r.why # "setup"
      BY <2>2, <3>1, <3>3, GotoNow
    <3> QED
      BY <3>2, <3>3
  <2>3. CASE outcome # "done"
    <3>1. Becomes(w, q)
      BY <1>2, <2>3 DEF ListKey, HandOrUndo
    <3> HIDE DEF q
    <3> QED
      BY <2>1, <2>3, <3>1, SetNow
  <2> QED
    BY <2>2, <2>3
<1>3. ASSUME ReadToken(w), r.subject \in Tokens
      PROVE  Now(w, "spend", r.why, r.subject, scope[r.subject].tenant,
                 scope[r.subject].project, r.base, r.subject \notin expired)
  <2> DEFINE t == scope[r.subject].tenant
             p == scope[r.subject].project
             f == r.subject \notin expired
             q == [r EXCEPT !.pc = "spend", !.fresh = f, !.tenant = t, !.project = p]
  <2>1. t \in Tenants \cup {Nothing} /\ p \in Projects \cup {Nothing} /\ f \in BOOLEAN
    BY <1>3 DEF KeysTyped, ScopeType
  <2>2. Becomes(w, q)
    BY <1>3 DEF ReadToken
  <2> HIDE DEF t, p, f
  <2>3. /\ q \in CallType /\ q.pc = "spend" /\ q.why = r.why /\ q.subject = r.subject
        /\ q.tenant = t /\ q.project = p /\ q.base = r.base /\ q.fresh = f
    <3>1. r \in CallType /\ "spend" \in Places
      BY CallTyped
    <3> HIDE DEF Places
    <3>2. q \in CallType
      BY <2>1, <3>1 DEF CallType
    <3>3. /\ q.pc = "spend" /\ q.why = r.why /\ q.subject = r.subject
          /\ q.tenant = t /\ q.project = p /\ q.base = r.base /\ q.fresh = f
      BY <3>1 DEF CallType
    <3> QED
      BY <3>2, <3>3
  <2> HIDE DEF q
  <2>4. Now(w, "spend", r.why, r.subject, t, p, r.base, f)
    BY <2>2, <2>3, SetNow
  <2> QED
    BY <2>4 DEF t, p, f
<1>4. /\ LoadKey(w) => Goto(w, "list")
      /\ Hand(w) => Ends(w)
      /\ \A t \in Tokens : CreateToken(w, t) => Ends(w)
      /\ SpendToken(w) => \/ Spendable(w) /\ Goto(w, "create")
                          \/ ~Spendable(w) /\ Ends(w)
      /\ NoteKey(w) => Goto(w, "hand")
      /\ FindKey(w) => Ends(w) \/ Goto(w, "check")
  BY DEF LoadKey, Hand, CreateToken, SpendToken, NoteKey, FindKey
<1> QED
  BY <1>1, <1>2, <1>3, <1>4, EndsNow, GotoNow

LEMMA ProceedNow ==
  ASSUME WorkTyped, NEW w \in Workers, Proceed(w)
  PROVE  LET r == work[w] IN
         \/ Idle(w)
         \/ r.why \in {"key", "token"} /\ Going(w, "project")
         \/ r.why \in {"put", "new"} /\ Going(w, "seek")
         \/ r.why = "issue" /\ Going(w, "create")
<1> DEFINE r == work[w]
<1>1. \/ Ends(w)
      \/ r.why \in {"key", "token"} /\ Goto(w, "project")
      \/ r.why \in {"put", "new"} /\ Goto(w, "seek")
      \/ r.why = "issue" /\ Goto(w, "create")
  <2>1. CASE r.why \in {"key", "token"}
    BY <2>1 DEF Proceed, Onward
  <2>2. CASE r.why \in {"put", "new"}
    BY <2>2 DEF Proceed, Onward
  <2>3. CASE r.why = "issue"
    BY <2>3 DEF Proceed, Onward
  <2>4. CASE r.why \notin {"key", "token", "put", "new", "issue"}
    BY <2>4 DEF Proceed, Onward
  <2> QED
    BY <2>1, <2>2, <2>3, <2>4
<1> QED
  BY <1>1, EndsNow, GotoNow

LEMMA ProvisioningNow ==
  ASSUME WorkTyped, CatalogTyped, NEW w \in Workers
  PROVE  LET r == work[w]
             Onwards == \/ Idle(w)
                        \/ r.why \in {"key", "token"} /\ Going(w, "project")
                        \/ r.why \in {"put", "new"} /\ Going(w, "seek")
                        \/ r.why = "issue" /\ Going(w, "create") IN
         /\ \A org \in Orgs : MapAccount(w, org) =>
              \E t \in Tenants :
                Now(w, "tenant", r.why, r.subject, t, r.project, r.base, r.fresh)
         /\ ReadTenant(w) =>
              \/ r.tenant \notin known /\ Going(w, "insert")
              \/ /\ r.tenant \in known \ active
                 /\ Now(w, "init", r.why, r.subject, r.tenant, r.project, r.base, TRUE)
              \/ /\ r.tenant \in known \cap active
                 /\ Now(w, "enable", r.why, r.subject, r.tenant, r.project, r.base, FALSE)
         /\ InsertTenant(w) =>
              \/ Going(w, "tenant")
              \/ Now(w, "init", r.why, r.subject, r.tenant, r.project, r.base, TRUE)
         /\ InitFile(w) => Going(w, "enable")
         /\ Enable(w) => Going(w, "route") \/ (r.why = "issue" /\ Going(w, "join")) \/ Onwards
         /\ Route(w) => (r.why = "issue" /\ Going(w, "join")) \/ Onwards
         /\ Join(w) => Onwards
<1> DEFINE r == work[w]
<1>1. ASSUME NEW org \in Orgs, MapAccount(w, org)
      PROVE  \E t \in Tenants :
               Now(w, "tenant", r.why, r.subject, t, r.project, r.base, r.fresh)
  <2>1. PICK t \in Tenants : Becomes(w, [r EXCEPT !.pc = "tenant", !.tenant = t])
    BY <1>1 DEF MapAccount, CatalogTyped
  <2> DEFINE q == [r EXCEPT !.pc = "tenant", !.tenant = t]
  <2>2. /\ q \in CallType /\ q.pc = "tenant" /\ q.why = r.why /\ q.subject = r.subject
        /\ q.tenant = t /\ q.project = r.project /\ q.base = r.base /\ q.fresh = r.fresh
    <3>1. r \in CallType /\ "tenant" \in Places
      BY CallTyped
    <3> HIDE DEF Places
    <3>2. q \in CallType
      BY <3>1 DEF CallType
    <3>3. /\ q.pc = "tenant" /\ q.why = r.why /\ q.subject = r.subject
          /\ q.tenant = t /\ q.project = r.project /\ q.base = r.base /\ q.fresh = r.fresh
      BY <3>1 DEF CallType
    <3> QED
      BY <3>2, <3>3
  <2>3. Becomes(w, q)
    BY <2>1
  <2> HIDE DEF q
  <2> QED
    BY <2>2, <2>3, SetNow
<1>2. ASSUME NEW fresh \in BOOLEAN, NEW bare \in BOOLEAN, NEW pc \in {"init", "enable"},
             Becomes(w, [r EXCEPT !.fresh = fresh, !.bare = bare, !.pc = pc])
      PROVE  Now(w, pc, r.why, r.subject, r.tenant, r.project, r.base, fresh)
  <2> DEFINE q == [r EXCEPT !.fresh = fresh, !.bare = bare, !.pc = pc]
  <2>1. /\ q \in CallType /\ q.pc = pc /\ q.why = r.why /\ q.subject = r.subject
        /\ q.tenant = r.tenant /\ q.project = r.project /\ q.base = r.base
        /\ q.fresh = fresh
    <3>1. r \in CallType /\ pc \in Places
      BY CallTyped
    <3> HIDE DEF Places
    <3>2. q \in CallType
      BY <3>1 DEF CallType
    <3>3. /\ q.pc = pc /\ q.why = r.why /\ q.subject = r.subject
          /\ q.tenant = r.tenant /\ q.project = r.project /\ q.base = r.base
          /\ q.fresh = fresh
      BY <3>1 DEF CallType
    <3> QED
      BY <3>2, <3>3
  <2>2. Becomes(w, q)
    BY <1>2
  <2> HIDE DEF q
  <2> QED
    BY <2>1, <2>2, SetNow
<1>3. ASSUME ReadTenant(w)
      PROVE  \/ r.tenant \notin known /\ Going(w, "insert")
             \/ /\ r.tenant \in known \ active
                /\ Now(w, "init", r.why, r.subject, r.tenant, r.project, r.base, TRUE)
             \/ /\ r.tenant \in known \cap active
                /\ Now(w, "enable", r.why, r.subject, r.tenant, r.project, r.base, FALSE)
  <2> DEFINE bare == Minting /\ target[r.tenant] = "file"
             fresh == r.tenant \notin active
  <2>0. bare \in BOOLEAN /\ fresh \in BOOLEAN
    OBVIOUS
  <2>1. CASE r.tenant \notin known
    BY <1>3, <2>1, GotoNow DEF ReadTenant
  <2>2. CASE r.tenant \in known /\ fresh
    <3>1. Becomes(w, [r EXCEPT !.fresh = TRUE, !.bare = bare, !.pc = "init"])
      BY <1>3, <2>2 DEF ReadTenant
    <3> HIDE DEF bare
    <3> QED
      BY <1>2, <2>0, <2>2, <3>1
  <2>3. CASE r.tenant \in known /\ ~fresh
    <3>1. Becomes(w, [r EXCEPT !.fresh = FALSE, !.bare = bare, !.pc = "enable"])
      BY <1>3, <2>3 DEF ReadTenant
    <3> HIDE DEF bare
    <3> QED
      BY <1>2, <2>0, <2>3, <3>1
  <2> QED
    BY <2>1, <2>2, <2>3
<1>4. ASSUME InsertTenant(w)
      PROVE  \/ Going(w, "tenant")
             \/ Now(w, "init", r.why, r.subject, r.tenant, r.project, r.base, TRUE)
  <2>1. CASE Goto(w, "tenant")
    BY <2>1, GotoNow
  <2>2. CASE Becomes(w, [r EXCEPT !.fresh = TRUE, !.bare = Minting, !.pc = "init"])
    BY <1>2, <2>2, CatalogAssumption
  <2> QED
    BY <1>4, <2>1, <2>2 DEF InsertTenant
<1>5. /\ InitFile(w) => Goto(w, "enable")
      /\ Enable(w) => Goto(w, "route") \/ (r.why = "issue" /\ Goto(w, "join")) \/ Proceed(w)
      /\ Route(w) => (r.why = "issue" /\ Goto(w, "join")) \/ Proceed(w)
      /\ Join(w) => Proceed(w) \/ Ends(w)
  BY DEF InitFile, Enable, Route, Join
<1> QED
  BY <1>1, <1>3, <1>4, <1>5, EndsNow, GotoNow, ProceedNow

LEMMA ProjectNow ==
  ASSUME WorkTyped, NEW w \in Workers
  PROVE  LET r == work[w] IN
         /\ GetProject(w) => \/ Idle(w)
                             \/ r.why = "key" /\ Going(w, "create")
                             \/ r.why # "key" /\ Going(w, "token")
         /\ SeekProject(w) =>
              \/ Idle(w)
              \/ \E fresh : Now(w, "put", r.why, r.subject, r.tenant, r.project, r.base, fresh)
         /\ PutProject(w) => Idle(w) \/ Going(w, "join")
<1> DEFINE r == work[w]
           fresh == owner[r.project] = Nothing
           q == [r EXCEPT !.pc = "put", !.fresh = fresh]
<1>0. fresh \in BOOLEAN
  OBVIOUS
<1>1. SeekProject(w) => Ends(w) \/ Becomes(w, q)
  BY DEF SeekProject
<1> HIDE DEF fresh
<1>2. /\ q \in CallType /\ q.pc = "put" /\ q.why = r.why /\ q.subject = r.subject
      /\ q.tenant = r.tenant /\ q.project = r.project /\ q.base = r.base /\ q.fresh = fresh
  <2>1. r \in CallType /\ "put" \in Places
    BY CallTyped
  <2> HIDE DEF Places
  <2>2. q \in CallType
    BY <1>0, <2>1 DEF CallType
  <2>3. /\ q.pc = "put" /\ q.why = r.why /\ q.subject = r.subject
        /\ q.tenant = r.tenant /\ q.project = r.project /\ q.base = r.base /\ q.fresh = fresh
    BY <2>1 DEF CallType
  <2> QED
    BY <2>2, <2>3
<1> HIDE DEF q
<1>3. Becomes(w, q) =>
        Now(w, "put", r.why, r.subject, r.tenant, r.project, r.base, fresh)
  BY <1>2, SetNow
<1>4. /\ GetProject(w) => \/ Ends(w)
                          \/ r.why = "key" /\ Goto(w, "create")
                          \/ r.why # "key" /\ Goto(w, "token")
      /\ PutProject(w) => Ends(w) \/ Goto(w, "join")
  BY DEF GetProject, PutProject
<1> QED
  BY <1>1, <1>3, <1>4, EndsNow, GotoNow

LEMMA RestoringNow ==
  ASSUME WorkTyped, NEW w \in Workers
  PROVE  LET r == work[w] IN
         /\ \A b \in Bases : Replace(w, b) =>
              Now(w, "import", r.why, r.subject, r.tenant, r.project, b, r.fresh)
         /\ Import(w) => Going(w, "repair")
         /\ Repair(w) => Going(w, "stamp")
         /\ Stamp(w) => Going(w, "verify")
         /\ Verify(w) => Going(w, "activate")
         /\ Discard(w) \/ Reload(w) => Idle(w)
         /\ ReadActive(w) => Idle(w) \/ Going(w, "repoint")
         /\ Repoint(w) => Going(w, "reload")
<1> DEFINE r == work[w]
<1>1. ASSUME NEW b \in Bases, Replace(w, b)
      PROVE  Now(w, "import", r.why, r.subject, r.tenant, r.project, b, r.fresh)
  <2> DEFINE q == [r EXCEPT !.pc = "import", !.base = b]
  <2>1. /\ q \in CallType /\ q.pc = "import" /\ q.why = r.why /\ q.subject = r.subject
        /\ q.tenant = r.tenant /\ q.project = r.project /\ q.base = b /\ q.fresh = r.fresh
    <3>1. r \in CallType /\ "import" \in Places
      BY CallTyped
    <3> HIDE DEF Places
    <3>2. q \in CallType
      BY <3>1 DEF CallType
    <3>3. /\ q.pc = "import" /\ q.why = r.why /\ q.subject = r.subject
          /\ q.tenant = r.tenant /\ q.project = r.project /\ q.base = b /\ q.fresh = r.fresh
      BY <3>1 DEF CallType
    <3> QED
      BY <3>2, <3>3
  <2>2. Becomes(w, q)
    BY <1>1 DEF Replace
  <2> HIDE DEF q
  <2> QED
    BY <2>1, <2>2, SetNow
<1>2. /\ Import(w) => Goto(w, "repair")
      /\ Repair(w) => Goto(w, "stamp")
      /\ Stamp(w) => Goto(w, "verify")
      /\ Verify(w) => Goto(w, "activate")
      /\ Discard(w) \/ Reload(w) => Ends(w)
      /\ ReadActive(w) => Ends(w) \/ Goto(w, "repoint")
      /\ Repoint(w) => Goto(w, "reload")
  BY DEF Import, Repair, Stamp, Verify, Discard, Reload, ReadActive, Repoint
<1> QED
  BY <1>1, <1>2, EndsNow, GotoNow

\* The calls there are, and what each starts with.
Begun(pc, why, s, t, p, b) ==
  \/ pc = "account" /\ why \in {"tenant", "key", "token", "put", "new"}
       /\ p \in Projects /\ s = Nothing /\ t = Nothing /\ b = Nothing
  \/ pc = "tenant" /\ why = "issue" /\ t \in Tenants /\ p \in Projects
       /\ s = Nothing /\ b = Nothing
  \/ pc = "tenant" /\ why = "heal" /\ t \in active /\ s = Nothing /\ p = Nothing /\ b = Nothing
  \/ pc = "exchange" /\ why = "setup" /\ s \in issued /\ t = Nothing /\ p = Nothing
       /\ b = Nothing
  \/ pc = "find" /\ why = "revoke" /\ s \in minted /\ t = Nothing /\ p = Nothing
       /\ b = Nothing
  \/ pc = "check" /\ why \in {"revoke", "delete"} /\ s \in Subjects
       /\ t = Nothing /\ p = Nothing /\ b = Nothing
  \/ pc = "replace" /\ why = "restore" /\ t \in known /\ p \in Projects
       /\ s = Nothing /\ b = Nothing
  \/ pc = "activate" /\ why = "activate" /\ t \in known /\ b \in drawn
       /\ (\A v \in Workers : work[v].base # b) /\ s = Nothing /\ p = Nothing

LEMMA StartNow ==
  ASSUME TypeInv, NEW w \in Workers, Start(w)
  PROVE  /\ At(w, "idle") /\ calls' = calls + 1
         /\ UNCHANGED <<autocommit, rowVars, keyVars, catalogVars, requestVars>>
         /\ \E pc, why, s, t, p, b : /\ Begun(pc, why, s, t, p, b)
                                     /\ Now(w, pc, why, s, t, p, b, FALSE)
<1> DEFINE Good(q) == /\ q \in CallType /\ q.fresh = FALSE
                      /\ Begun(q.pc, q.why, q.subject, q.tenant, q.project, q.base)
<1>1. ASSUME NEW q, Good(q), Call(w, q)
      PROVE  /\ At(w, "idle") /\ calls' = calls + 1
             /\ UNCHANGED <<autocommit, rowVars, keyVars, catalogVars, requestVars>>
             /\ \E pc, why, s, t, p, b : /\ Begun(pc, why, s, t, p, b)
                                         /\ Now(w, pc, why, s, t, p, b, FALSE)
  <2>1. Now(w, q.pc, q.why, q.subject, q.tenant, q.project, q.base, FALSE)
    BY <1>1, SetNow DEF Call, TypeInv
  <2> QED
    BY <1>1, <2>1 DEF Call
<1>2. CASE ConsoleCall(w)
  <2>1. PICK why \in {"tenant", "key", "token", "put", "new"}, p \in Projects :
          Call(w, [Calling("account", why) EXCEPT !.project = p])
    BY <1>2 DEF ConsoleCall
  <2> DEFINE c == Calling("account", why)
             q == [c EXCEPT !.project = p]
  <2>0. "account" \in Places /\ why \in Whys
    BY DEF Whys
  <2>2. /\ c \in CallType /\ c.pc = "account" /\ c.why = why /\ c.subject = Nothing
        /\ c.tenant = Nothing /\ c.base = Nothing /\ c.fresh = FALSE
    <3> HIDE DEF Places
    <3> QED
      BY <2>0 DEF Calling, Rest, CallType
  <2>3. Call(w, q)
    BY <2>1
  <2> HIDE DEF c
  <2>4. Good(q)
    BY <2>2 DEF CallType, Begun
  <2> HIDE DEF q
  <2> QED
    BY <1>1, <2>3, <2>4
<1>3. CASE IssueKey(w)
  <2>1. PICK t \in Tenants, p \in Projects :
          Call(w, [Calling("tenant", "issue") EXCEPT !.tenant = t, !.project = p])
    BY <1>3 DEF IssueKey
  <2> DEFINE c == Calling("tenant", "issue")
             q == [c EXCEPT !.tenant = t, !.project = p]
  <2>0. "tenant" \in Places /\ "issue" \in Whys
    BY DEF Whys
  <2>2. /\ c \in CallType /\ c.pc = "tenant" /\ c.why = "issue" /\ c.subject = Nothing
        /\ c.base = Nothing /\ c.fresh = FALSE
    <3> HIDE DEF Places
    <3> QED
      BY <2>0 DEF Calling, Rest, CallType
  <2>3. Call(w, q)
    BY <2>1
  <2> HIDE DEF c
  <2>4. /\ q \in CallType /\ q.pc = "tenant" /\ q.why = "issue" /\ q.subject = Nothing
        /\ q.tenant = t /\ q.project = p /\ q.base = Nothing /\ q.fresh = FALSE
    BY <2>2 DEF CallType
  <2> HIDE DEF q
  <2>5. Good(q)
    BY <2>4 DEF Begun
  <2> QED
    BY <1>1, <2>3, <2>5
<1>4. CASE HealTarget(w)
  <2>1. PICK t \in active : Call(w, [Calling("tenant", "heal") EXCEPT !.tenant = t])
    BY <1>4 DEF HealTarget
  <2> DEFINE c == Calling("tenant", "heal")
             q == [c EXCEPT !.tenant = t]
  <2>0. "tenant" \in Places /\ "heal" \in Whys
    BY DEF Whys
  <2>2. /\ c \in CallType /\ c.pc = "tenant" /\ c.why = "heal" /\ c.subject = Nothing
        /\ c.project = Nothing /\ c.base = Nothing /\ c.fresh = FALSE
    BY DEF Calling, Rest, CallType, Whys
  <2>3. Call(w, q) /\ t \in Tenants
    BY <2>1 DEF TypeInv, RowsTyped
  <2> HIDE DEF c
  <2>4. /\ q \in CallType /\ q.pc = "tenant" /\ q.why = "heal" /\ q.subject = Nothing
        /\ q.tenant = t /\ q.project = Nothing /\ q.base = Nothing /\ q.fresh = FALSE
    BY <2>2, <2>3 DEF CallType
  <2> HIDE DEF q
  <2>5. Good(q)
    BY <2>4 DEF Begun
  <2> QED
    BY <1>1, <2>3, <2>5
<1>5. ASSUME NEW pc \in {"exchange", "find", "check"}, NEW why \in Whys, NEW s \in Subjects,
             Begun(pc, why, s, Nothing, Nothing, Nothing),
             Call(w, [Calling(pc, why) EXCEPT !.subject = s])
      PROVE  \E q : Good(q) /\ Call(w, q)
  <2> DEFINE c == Calling(pc, why)
             q == [c EXCEPT !.subject = s]
  <2>2. /\ c \in CallType /\ c.pc = pc /\ c.why = why
        /\ c.tenant = Nothing /\ c.project = Nothing /\ c.base = Nothing /\ c.fresh = FALSE
    <3>1. pc \in Places
      OBVIOUS
    <3> HIDE DEF Places
    <3> QED
      BY <3>1 DEF Calling, Rest, CallType
  <2>3. Call(w, q)
    BY <1>5
  <2> HIDE DEF c
  <2>4. /\ q \in CallType /\ q.pc = pc /\ q.why = why /\ q.subject = s
        /\ q.tenant = Nothing /\ q.project = Nothing /\ q.base = Nothing /\ q.fresh = FALSE
    BY <2>2 DEF CallType
  <2> HIDE DEF q
  <2>5. Good(q)
    BY <1>5, <2>4
  <2> QED
    BY <2>3, <2>5
<1>6. CASE Exchange(w)
  <2>1. PICK s \in issued : Call(w, [Calling("exchange", "setup") EXCEPT !.subject = s])
    BY <1>6 DEF Exchange
  <2>2. s \in Subjects /\ Begun("exchange", "setup", s, Nothing, Nothing, Nothing)
    BY DEF TypeInv, KeysTyped, Subjects, Begun
  <2>3. \E q : Good(q) /\ Call(w, q)
    BY <1>5, <2>1, <2>2 DEF Whys
  <2> HIDE DEF Good
  <2> QED
    BY <1>1, <2>3
<1>7. CASE ConsoleRevokesKey(w)
  <2>1. PICK s \in minted : Call(w, [Calling("find", "revoke") EXCEPT !.subject = s])
    BY <1>7 DEF ConsoleRevokesKey
  <2>2. s \in Subjects /\ Begun("find", "revoke", s, Nothing, Nothing, Nothing)
    BY DEF TypeInv, KeysTyped, Subjects, Begun
  <2>3. \E q : Good(q) /\ Call(w, q)
    BY <1>5, <2>1, <2>2 DEF Whys
  <2> HIDE DEF Good
  <2> QED
    BY <1>1, <2>3
<1>8. CASE ConsoleRevokesToken(w)
  <2>1. PICK s \in issued : Call(w, [Calling("check", "revoke") EXCEPT !.subject = s])
    BY <1>8 DEF ConsoleRevokesToken
  <2>2. s \in Subjects /\ Begun("check", "revoke", s, Nothing, Nothing, Nothing)
    BY DEF TypeInv, KeysTyped, Subjects, Begun
  <2>3. \E q : Good(q) /\ Call(w, q)
    BY <1>5, <2>1, <2>2 DEF Whys
  <2> HIDE DEF Good
  <2> QED
    BY <1>1, <2>3
<1>9. CASE OperatorDeletes(w)
  <2>1. PICK s \in minted \cup known \cup {p \in Projects : owner[p] # Nothing} :
          Call(w, [Calling("check", "delete") EXCEPT !.subject = s])
    BY <1>9 DEF OperatorDeletes
  <2>2. s \in Subjects
    BY DEF TypeInv, KeysTyped, CatalogTyped, Subjects
  <2>3. Begun("check", "delete", s, Nothing, Nothing, Nothing)
    BY <2>2 DEF Begun
  <2>4. \E q : Good(q) /\ Call(w, q)
    BY <1>5, <2>1, <2>2, <2>3 DEF Whys
  <2> HIDE DEF Good
  <2> QED
    BY <1>1, <2>4
<1>10. CASE RestoreDrill(w)
  <2>1. PICK t \in known, p \in Projects :
          Call(w, [Calling("replace", "restore") EXCEPT !.tenant = t, !.project = p])
    BY <1>10 DEF RestoreDrill
  <2> DEFINE c == Calling("replace", "restore")
             q == [c EXCEPT !.tenant = t, !.project = p]
  <2>0. "replace" \in Places /\ "restore" \in Whys
    BY DEF Whys
  <2>2. /\ c \in CallType /\ c.pc = "replace" /\ c.why = "restore" /\ c.subject = Nothing
        /\ c.base = Nothing /\ c.fresh = FALSE
    <3> HIDE DEF Places
    <3> QED
      BY <2>0 DEF Calling, Rest, CallType
  <2>3. Call(w, q) /\ t \in Tenants
    BY <2>1 DEF TypeInv, CatalogTyped
  <2> HIDE DEF c
  <2>4. /\ q \in CallType /\ q.pc = "replace" /\ q.why = "restore" /\ q.subject = Nothing
        /\ q.tenant = t /\ q.project = p /\ q.base = Nothing /\ q.fresh = FALSE
    BY <2>2, <2>3 DEF CallType
  <2> HIDE DEF q
  <2>5. Good(q)
    BY <2>1, <2>4 DEF Begun
  <2> QED
    BY <1>1, <2>3, <2>5
<1>11. CASE ActivateByHand(w)
  <2>1. PICK t \in known, b \in drawn :
          /\ \A v \in Workers : work[v].base # b
          /\ Call(w, [Calling("activate", "activate") EXCEPT !.tenant = t, !.base = b])
    BY <1>11 DEF ActivateByHand
  <2> DEFINE c == Calling("activate", "activate")
             q == [c EXCEPT !.tenant = t, !.base = b]
  <2>0. "activate" \in Places /\ "activate" \in Whys
    BY DEF Whys
  <2>2. /\ c \in CallType /\ c.pc = "activate" /\ c.why = "activate" /\ c.subject = Nothing
        /\ c.project = Nothing /\ c.fresh = FALSE
    <3> HIDE DEF Places
    <3> QED
      BY <2>0 DEF Calling, Rest, CallType
  <2>3. Call(w, q) /\ t \in Tenants /\ b \in Bases
    BY <2>1 DEF TypeInv, CatalogTyped
  <2> HIDE DEF c
  <2>4. /\ q \in CallType /\ q.pc = "activate" /\ q.why = "activate" /\ q.subject = Nothing
        /\ q.tenant = t /\ q.project = Nothing /\ q.base = b /\ q.fresh = FALSE
    BY <2>2, <2>3 DEF CallType
  <2> HIDE DEF q
  <2>5. Good(q)
    BY <2>1, <2>4 DEF Begun
  <2> QED
    BY <1>1, <2>3, <2>5
<1> QED
  BY <1>2, <1>3, <1>4, <1>6, <1>7, <1>8, <1>9, <1>10, <1>11 DEF Start

-------------------------------------------------------------------------------
\* The types are kept.

LEMMA Reshaped ==
  ASSUME WorkTyped, NEW w \in Workers, NEW pc, NEW why, NEW s, NEW t, NEW p, NEW b, NEW fresh,
         Now(w, pc, why, s, t, p, b, fresh), Shaped(pc, why, s, t, p, b)
  PROVE  WorkTyped'
<1> SUFFICES ASSUME NEW v \in Workers
             PROVE  LET r == work'[v] IN
                    Shaped(r.pc, r.why, r.subject, r.tenant, r.project, r.base)
  BY DEF WorkTyped, Now
<1>1. CASE v = w
  BY <1>1 DEF Now
<1>2. CASE v # w
  BY <1>2 DEF Now, WorkTyped
<1> QED
  BY <1>1, <1>2

LEMMA IdleTyped == ASSUME WorkTyped, NEW w \in Workers, Idle(w) PROVE WorkTyped'
<1>1. Shaped("idle", "none", Nothing, Nothing, Nothing, Nothing)
  BY DEF Shaped
<1> QED
  BY <1>1, Reshaped DEF Idle

LEMMA GoingTyped ==
  ASSUME WorkTyped, NEW w \in Workers, NEW pc, Going(w, pc),
         LET r == work[w] IN Shaped(pc, r.why, r.subject, r.tenant, r.project, r.base)
  PROVE  WorkTyped'
BY Reshaped DEF Going

LEMMA DeletionTyped ==
  ASSUME WorkTyped, NEW w \in Workers, Break(w) \/ SoftDeletion(w)
  PROVE  WorkTyped'
<1> DEFINE r == work[w]
<1>0. Shaped(r.pc, r.why, r.subject, r.tenant, r.project, r.base)
  BY DEF WorkTyped
<1>1. CASE Check(w)
  <2>1. At(w, "check")
    BY <1>1 DEF Check
  <2>2. Shaped("delete", r.why, r.subject, r.tenant, r.project, r.base)
    BY <1>0, <2>1 DEF At, Shaped
  <2> QED
    BY <1>1, <2>2, DeletionNow, IdleTyped, Reshaped
<1>2. CASE Delete(w)
  <2>1. At(w, "delete")
    BY <1>2 DEF Delete
  <2>2. Shaped("audit", r.why, r.subject, r.tenant, r.project, r.base)
    BY <1>0, <2>1 DEF At, Shaped
  <2> QED
    BY <1>2, <2>2, DeletionNow, IdleTyped, GoingTyped
<1>3. CASE Audit(w) \/ Break(w)
  BY <1>3, DeletionNow, IdleTyped
<1> QED
  BY <1>1, <1>2, <1>3 DEF SoftDeletion

LEMMA KeyingTyped ==
  ASSUME WorkTyped, KeysTyped, NEW w \in Workers, KeyStep(w)
  PROVE  WorkTyped'
<1> DEFINE r == work[w]
<1>0. Shaped(r.pc, r.why, r.subject, r.tenant, r.project, r.base)
  BY DEF WorkTyped
<1>1. ASSUME NEW k \in Keys, CreateKey(w, k) PROVE WorkTyped'
  <2>1. At(w, "create") /\ k \in Subjects
    BY <1>1 DEF CreateKey, Subjects
  <2>2. CASE r.why = "issue"
    <3>1. Shaped("hand", r.why, k, r.tenant, r.project, r.base)
      BY <1>0, <2>1, <2>2 DEF At, Shaped
    <3> QED
      BY <1>1, <2>2, <3>1, KeyingNow, Reshaped
  <2>3. CASE r.why # "issue"
    <3>1. Shaped("load", r.why, k, r.tenant, r.project, r.base)
      BY <1>0, <2>1, <2>3 DEF At, Shaped
    <3> QED
      BY <1>1, <2>3, <3>1, KeyingNow, Reshaped
  <2> QED
    BY <2>2, <2>3
<1>2. CASE LoadKey(w)
  <2>1. At(w, "load")
    BY <1>2 DEF LoadKey
  <2>2. Shaped("list", r.why, r.subject, r.tenant, r.project, r.base)
    BY <1>0, <2>1 DEF At, Shaped
  <2> QED
    BY <1>2, <2>2, KeyingNow, GoingTyped
<1>3. ASSUME NEW outcome, ListKey(w, outcome) PROVE WorkTyped'
  <2>1. At(w, "list")
    BY <1>3 DEF ListKey
  <2>2. /\ r.why = "setup" => Shaped("note", r.why, r.subject, r.tenant, r.project, r.base)
        /\ r.why # "setup" => Shaped("hand", r.why, r.subject, r.tenant, r.project, r.base)
    BY <1>0, <2>1 DEF At, Shaped
  <2>3. Shaped("check", "undo", r.subject, r.tenant, r.project, r.base)
    BY <1>0, <2>1 DEF At, Shaped, Subjects
  <2>4. CASE r.why = "setup"
    BY <1>3, <2>2, <2>3, <2>4, KeyingNow, GoingTyped, Reshaped
  <2>5. CASE r.why # "setup"
    BY <1>3, <2>2, <2>3, <2>5, KeyingNow, GoingTyped, Reshaped
  <2> QED
    BY <2>4, <2>5
<1>4. CASE Hand(w) \/ \E t \in Tokens : CreateToken(w, t)
  BY <1>4, KeyingNow, IdleTyped
<1>5. CASE ReadToken(w)
  <2>1. At(w, "exchange")
    BY <1>5 DEF ReadToken
  <2>2. r.subject \in Tokens
    BY <1>0, <2>1 DEF At, Shaped
  <2>3. Shaped("spend", r.why, r.subject, scope[r.subject].tenant,
               scope[r.subject].project, r.base)
    BY <1>0, <2>1 DEF At, Shaped
  <2> QED
    BY <1>5, <2>2, <2>3, KeyingNow, Reshaped
<1>6. CASE SpendToken(w)
  <2>1. At(w, "spend")
    BY <1>6 DEF SpendToken
  <2>2. Shaped("create", r.why, r.subject, r.tenant, r.project, r.base)
    BY <1>0, <2>1 DEF At, Shaped
  <2> QED
    BY <1>6, <2>2, KeyingNow, IdleTyped, GoingTyped
<1>7. CASE NoteKey(w)
  <2>1. At(w, "note")
    BY <1>7 DEF NoteKey
  <2>2. Shaped("hand", r.why, r.subject, r.tenant, r.project, r.base)
    BY <1>0, <2>1 DEF At, Shaped
  <2> QED
    BY <1>7, <2>2, KeyingNow, GoingTyped
<1>8. CASE FindKey(w)
  <2>1. At(w, "find")
    BY <1>8 DEF FindKey
  <2>2. Shaped("check", r.why, r.subject, r.tenant, r.project, r.base)
    BY <1>0, <2>1 DEF At, Shaped
  <2> QED
    BY <1>8, <2>2, KeyingNow, IdleTyped, GoingTyped
<1> QED
  BY <1>1, <1>2, <1>3, <1>4, <1>5, <1>6, <1>7, <1>8 DEF KeyStep

LEMMA ProvisioningTyped ==
  ASSUME WorkTyped, CatalogTyped, NEW w \in Workers,
         \/ \E org \in Orgs : MapAccount(w, org)
         \/ ReadTenant(w) \/ InsertTenant(w) \/ InitFile(w) \/ Enable(w) \/ Route(w) \/ Join(w)
  PROVE  WorkTyped'
<1> DEFINE r == work[w]
           Fits(pc) == Shaped(pc, r.why, r.subject, r.tenant, r.project, r.base)
<1>0. Fits(r.pc)
  BY DEF WorkTyped
<1>1. CASE \E org \in Orgs : MapAccount(w, org)
  <2>1. At(w, "account") /\ \E org \in Orgs : MapAccount(w, org)
    BY <1>1 DEF MapAccount
  <2>2. \A t \in Tenants : Shaped("tenant", r.why, r.subject, t, r.project, r.base)
    BY <1>0, <2>1 DEF At, Shaped
  <2> QED
    BY <2>1, <2>2, ProvisioningNow, Reshaped
<1>2. ASSUME r.pc \in Provisioning
      PROVE  \A pc \in {"tenant", "insert", "init", "enable", "route"} : Fits(pc)
  BY <1>0, <1>2 DEF Shaped
<1>3. ASSUME r.pc \in Provisioning,
             \/ Going(w, "route")
             \/ r.why = "issue" /\ Going(w, "join")
             \/ Idle(w)
             \/ r.why \in {"key", "token"} /\ Going(w, "project")
             \/ r.why \in {"put", "new"} /\ Going(w, "seek")
             \/ r.why = "issue" /\ Going(w, "create")
      PROVE  WorkTyped'
  <2>1. /\ r.why = "issue" => Fits("join") /\ Fits("create")
        /\ r.why \in {"key", "token"} => Fits("project")
        /\ r.why \in {"put", "new"} => Fits("seek")
    BY <1>0, <1>3 DEF Shaped
  <2> QED
    BY <1>2, <1>3, <2>1, IdleTyped, GoingTyped
<1>4. CASE ReadTenant(w)
  <2>1. r.pc \in Provisioning
    BY <1>4 DEF ReadTenant, At
  <2> QED
    BY <1>2, <1>4, <2>1, ProvisioningNow, Reshaped, GoingTyped
<1>5. CASE InsertTenant(w)
  <2>1. r.pc \in Provisioning
    BY <1>5 DEF InsertTenant, At
  <2> QED
    BY <1>2, <1>5, <2>1, ProvisioningNow, Reshaped, GoingTyped
<1>6. CASE InitFile(w)
  <2>1. r.pc \in Provisioning
    BY <1>6 DEF InitFile, At
  <2> QED
    BY <1>2, <1>6, <2>1, ProvisioningNow, GoingTyped
<1>7. CASE Enable(w) \/ Route(w) \/ Join(w)
  <2>1. r.pc \in Provisioning
    BY <1>7 DEF Enable, Route, Join, At
  <2> QED
    BY <1>3, <1>7, <2>1, ProvisioningNow
<1> QED
  BY <1>1, <1>4, <1>5, <1>6, <1>7

LEMMA RestoringTyped ==
  ASSUME WorkTyped, NEW w \in Workers,
         \/ GetProject(w) \/ SeekProject(w) \/ PutProject(w)
         \/ \E b \in Bases : Replace(w, b)
         \/ Import(w) \/ Repair(w) \/ Stamp(w) \/ Verify(w) \/ Discard(w) \/ ReadActive(w)
         \/ Repoint(w) \/ Reload(w)
  PROVE  WorkTyped'
<1> DEFINE r == work[w]
           Fits(pc) == Shaped(pc, r.why, r.subject, r.tenant, r.project, r.base)
<1>0. Fits(r.pc)
  BY DEF WorkTyped
<1>1. CASE GetProject(w)
  <2>1. r.pc = "project"
    BY <1>1 DEF GetProject, At
  <2>2. (r.why = "key" => Fits("create")) /\ (r.why # "key" => Fits("token"))
    BY <1>0, <2>1 DEF Shaped
  <2> QED
    BY <1>1, <2>2, ProjectNow, IdleTyped, GoingTyped
<1>2. CASE SeekProject(w)
  <2>1. r.pc = "seek"
    BY <1>2 DEF SeekProject, At
  <2>2. Fits("put")
    BY <1>0, <2>1 DEF Shaped
  <2> QED
    BY <1>2, <2>2, ProjectNow, IdleTyped, Reshaped
<1>3. CASE PutProject(w)
  <2>1. r.pc = "put"
    BY <1>3 DEF PutProject, At
  <2>2. Fits("join")
    BY <1>0, <2>1 DEF Shaped
  <2> QED
    BY <1>3, <2>2, ProjectNow, IdleTyped, GoingTyped
<1>4. CASE \E b \in Bases : Replace(w, b)
  <2>1. r.pc = "replace"
    BY <1>4 DEF Replace, At
  <2>2. \A b \in Bases : Shaped("import", r.why, r.subject, r.tenant, r.project, b)
    BY <1>0, <2>1 DEF Shaped
  <2> QED
    BY <1>4, <2>2, RestoringNow, Reshaped
<1>5. CASE Import(w) \/ Repair(w) \/ Stamp(w) \/ Verify(w)
  <2>1. r.pc \in Importing
    BY <1>5 DEF Import, Repair, Stamp, Verify, At
  <2>2. Fits("repair") /\ Fits("stamp") /\ Fits("verify") /\ Fits("activate")
    BY <1>0, <2>1 DEF Shaped
  <2> QED
    BY <1>5, <2>2, RestoringNow, GoingTyped
<1>6. CASE ReadActive(w) \/ Repoint(w)
  <2>1. r.pc \in Repointing
    BY <1>6 DEF ReadActive, Repoint, At
  <2>2. Fits("repoint") /\ Fits("reload")
    BY <1>0, <2>1 DEF Shaped
  <2> QED
    BY <1>6, <2>2, RestoringNow, IdleTyped, GoingTyped
<1>7. CASE Discard(w) \/ Reload(w)
  BY <1>7, RestoringNow, IdleTyped
<1> QED
  BY <1>1, <1>2, <1>3, <1>4, <1>5, <1>6, <1>7

LEMMA StartTyped ==
  ASSUME TypeInv, NEW w \in Workers, Start(w)
  PROVE  WorkTyped'
<1>1. PICK pc, why, s, t, p, b : Begun(pc, why, s, t, p, b) /\ Now(w, pc, why, s, t, p, b, FALSE)
  BY StartNow
<1>2. /\ active \subseteq Tenants /\ issued \subseteq Tokens /\ minted \subseteq Keys
      /\ known \subseteq Tenants /\ drawn \subseteq Bases /\ WorkTyped
  <2>1. RowsTyped /\ KeysTyped /\ CatalogTyped /\ WorkTyped
    BY DEF TypeInv
  <2>2. active \subseteq Tenants
    BY <2>1 DEF RowsTyped
  <2>3. issued \subseteq Tokens /\ minted \subseteq Keys
    BY <2>1 DEF KeysTyped
  <2>4. known \subseteq Tenants /\ drawn \subseteq Bases
    BY <2>1 DEF CatalogTyped
  <2> QED
    BY <2>1, <2>2, <2>3, <2>4
<1>3. Shaped(pc, why, s, t, p, b)
  BY <1>1, <1>2 DEF Begun, Shaped, Subjects
<1> HIDE DEF Shaped
<1> QED
  BY <1>1, <1>2, <1>3, Reshaped, Zenon

\* What leaves the shared rows alone.
LEMMA RowsKept ==
  ASSUME NEW w \in Workers, Steps(w)
  PROVE  \/ UNCHANGED <<autocommit, rowVars>>
         \/ Delete(w) \/ Audit(w) \/ SpendToken(w) \/ Enable(w) \/ Repoint(w)
<1>1. CASE Break(w) \/ Check(w)
  BY <1>1 DEF Break, Check
<1>2. CASE KeyStep(w) /\ ~SpendToken(w)
  BY <1>2 DEF KeyStep, LoadKey, Hand, ReadToken, NoteKey, FindKey, CreateKey, ListKey, CreateToken
<1>3. CASE CatalogStep(w) /\ ~Enable(w) /\ ~Repoint(w)
  BY <1>3 DEF CatalogStep, MapAccount, ReadTenant, InsertTenant, InitFile, Route, Join,
     GetProject, SeekProject, PutProject, Replace, Import, Repair, Stamp, Verify, Discard,
     ReadActive, Reload
<1> QED
  BY <1>1, <1>2, <1>3 DEF Steps, SoftDeletion

LEMMA RowsStayTyped == ASSUME TypeInv, NEW w \in Workers, Steps(w) PROVE RowsTyped'
<1> DEFINE r == work[w]
<1>0. /\ Shaped(r.pc, r.why, r.subject, r.tenant, r.project, r.base)
      /\ RowsTyped
  BY DEF TypeInv, WorkTyped
<1>1. CASE UNCHANGED <<autocommit, rowVars>>
  BY <1>0, <1>1 DEF RowsTyped, rowVars
<1>2. CASE Delete(w)
  <2>1. r.subject \in Subjects
    BY <1>0, <1>2 DEF Delete, At, Shaped
  <2>2. audits' \in [Subjects -> Nat]
    BY <1>0, <1>2, <2>1 DEF Delete, RowsTyped
  <2> QED
    BY <1>0, <1>2, <2>1, <2>2 DEF Delete, RowsTyped
<1>3. CASE Audit(w)
  <2>1. r.subject \in Subjects
    BY <1>0, <1>3 DEF Audit, At, Shaped
  <2>2. audits' \in [Subjects -> Nat]
    BY <1>0, <1>3, <2>1 DEF Audit, RowsTyped
  <2> QED
    BY <1>0, <1>3, <2>2 DEF Audit, RowsTyped
<1>4. CASE SpendToken(w)
  <2>1. r.subject \in Tokens
    BY <1>0, <1>4 DEF SpendToken, At, Shaped
  <2> QED
    BY <1>0, <1>4, <2>1 DEF SpendToken, RowsTyped
<1>5. CASE Enable(w) \/ Repoint(w)
  <2>1. r.tenant \in Tenants
    BY <1>0, <1>5 DEF Enable, Repoint, At, Shaped
  <2> QED
    BY <1>0, <1>5, <2>1 DEF Enable, Repoint, RowsTyped
<1> QED
  BY <1>1, <1>2, <1>3, <1>4, <1>5, RowsKept

LEMMA ScopeOfTyped == ASSUME WorkTyped, NEW w \in Workers,
                             LET r == work[w] IN r.why = "setup" => r.subject \in Tokens
                      PROVE  ScopeOf(work[w]) \in ScopeType
BY CallTyped DEF ScopeOf, ScopeType, CallType

\* What leaves the keys and tokens alone.
LEMMA KeysKept ==
  ASSUME NEW w \in Workers, Steps(w)
  PROVE  \/ UNCHANGED keyVars
         \/ (\E k \in Keys : CreateKey(w, k)) \/ (\E outcome : ListKey(w, outcome))
         \/ Hand(w) \/ (\E t \in Tokens : CreateToken(w, t)) \/ NoteKey(w)
<1>1. CASE LoadKey(w) \/ ReadToken(w) \/ SpendToken(w) \/ FindKey(w)
  BY <1>1 DEF LoadKey, ReadToken, SpendToken, FindKey
<1> QED
  BY <1>1 DEF Steps, KeyStep

LEMMA KeysStayTyped ==
  ASSUME TypeInv, NEW w \in Workers, Steps(w) PROVE KeysTyped'
<1> DEFINE r == work[w]
<1>0. /\ Shaped(r.pc, r.why, r.subject, r.tenant, r.project, r.base)
      /\ KeysTyped
  BY DEF TypeInv, WorkTyped
<1>1. CASE UNCHANGED keyVars
  BY <1>0, <1>1 DEF KeysTyped, keyVars
<1>2. ASSUME NEW k \in Keys, CreateKey(w, k) PROVE KeysTyped'
  <2>1. r.why = "setup" => r.subject \in Tokens
    BY <1>0, <1>2 DEF CreateKey, At, Shaped
  <2>2. ScopeOf(work[w]) \in ScopeType
    BY <2>1, ScopeOfTyped DEF TypeInv
  <2> QED
    BY <1>0, <1>2, <2>2 DEF CreateKey, KeysTyped
<1>3. ASSUME NEW outcome, ListKey(w, outcome) PROVE KeysTyped'
  <2>1. r.subject \in Keys
    BY <1>0, <1>3 DEF ListKey, At, Shaped
  <2> QED
    BY <1>0, <1>3, <2>1 DEF ListKey, KeysTyped
<1>4. CASE Hand(w)
  <2>1. r.subject \in Keys
    BY <1>0, <1>4 DEF Hand, At, Shaped
  <2> QED
    BY <1>0, <1>4, <2>1 DEF Hand, KeysTyped
<1>5. ASSUME NEW t \in Tokens, CreateToken(w, t) PROVE KeysTyped'
  <2>1. r.why # "setup"
    BY <1>0, <1>5 DEF CreateToken, At, Shaped
  <2>2. ScopeOf(work[w]) \in ScopeType
    BY <2>1, ScopeOfTyped DEF TypeInv
  <2> QED
    BY <1>0, <1>5, <2>2 DEF CreateToken, KeysTyped
<1>6. CASE NoteKey(w)
  <2>1. r.subject \in Keys
    BY <1>0, <1>6 DEF NoteKey, At, Shaped
  <2> QED
    BY <1>0, <1>6, <2>1 DEF NoteKey, KeysTyped
<1> QED
  BY <1>1, <1>2, <1>3, <1>4, <1>5, <1>6, KeysKept

\* What leaves the catalog alone.
LEMMA CatalogKept ==
  ASSUME NEW w \in Workers, Steps(w)
  PROVE  \/ UNCHANGED catalogVars
         \/ (\E org \in Orgs : MapAccount(w, org)) \/ InsertTenant(w) \/ InitFile(w)
         \/ Enable(w) \/ Route(w) \/ Join(w) \/ PutProject(w)
         \/ (\E b \in Bases : Replace(w, b)) \/ Import(w) \/ Repair(w) \/ Stamp(w)
         \/ Discard(w) \/ Repoint(w)
<1>1. CASE ReadTenant(w) \/ GetProject(w) \/ SeekProject(w) \/ Verify(w) \/ ReadActive(w)
             \/ Reload(w)
  BY <1>1 DEF ReadTenant, GetProject, SeekProject, Verify, ReadActive, Reload
<1> QED
  BY <1>1 DEF Steps, CatalogStep

LEMMA CatalogStaysTyped ==
  ASSUME TypeInv, NEW w \in Workers, Steps(w) PROVE CatalogTyped'
<1> DEFINE r == work[w]
<1>0. /\ Shaped(r.pc, r.why, r.subject, r.tenant, r.project, r.base)
      /\ CatalogTyped /\ r \in CallType
  BY CallTyped DEF TypeInv, WorkTyped
<1>1. CASE UNCHANGED catalogVars
  BY <1>0, <1>1 DEF CatalogTyped, catalogVars, baseVars
<1>2. ASSUME NEW org \in Orgs, MapAccount(w, org) PROVE CatalogTyped'
  <2>1. CASE UNCHANGED <<known, account, target>>
    BY <1>0, <1>2, <2>1 DEF MapAccount, CatalogTyped, baseVars
  <2>2. CASE account[org] = Nothing
    <3>1. PICK t \in Tenants :
            /\ known' = known \cup {t}
            /\ account' = [account EXCEPT ![org] = t]
            /\ target' = [target EXCEPT ![t] = IF Minting THEN "own" ELSE "file"]
      BY <1>2, <2>2 DEF MapAccount
    <3>2. target' \in [Tenants -> Homes]
      BY <1>0, <3>1 DEF CatalogTyped, Homes
    <3>3. account' \in [Orgs -> Tenants \cup {Nothing}]
      BY <1>0, <3>1 DEF CatalogTyped
    <3> QED
      BY <1>0, <1>2, <3>1, <3>2, <3>3 DEF MapAccount, CatalogTyped, baseVars
  <2> QED
    BY <1>2, <2>1, <2>2 DEF MapAccount
<1>3. CASE InsertTenant(w) \/ InitFile(w)
  <2>1. r.tenant \in Tenants
    BY <1>0, <1>3 DEF InsertTenant, InitFile, At, Shaped
  <2> QED
    BY <1>0, <1>3, <2>1 DEF InsertTenant, InitFile, CatalogTyped, baseVars
<1>4. ASSUME r.tenant \in Tenants PROVE Owned(w) \in [Tenants -> Homes]
  BY <1>0, <1>4 DEF Owned, CatalogTyped, Homes
<1>5. ASSUME r.tenant \in Tenants, r.project \in Projects
      PROVE  Joined(w) \subseteq Tenants \X Projects
  BY <1>0, <1>5 DEF Joined, CatalogTyped
<1>6. CASE Enable(w)
  <2>1. r.tenant \in Tenants /\ (r.why = "issue" => r.project \in Projects)
    BY <1>0, <1>6 DEF Enable, At, Shaped
  <2>2. target' \in [Tenants -> Homes]
    BY <1>0, <1>4, <1>6, <2>1 DEF Enable, CatalogTyped
  <2>3. member' \subseteq Tenants \X Projects
    BY <1>0, <1>5, <1>6, <2>1 DEF Enable, CatalogTyped
  <2> QED
    BY <1>0, <1>6, <2>2, <2>3 DEF Enable, CatalogTyped, baseVars
<1>7. CASE Route(w)
  <2>1. r.tenant \in Tenants
    BY <1>0, <1>7 DEF Route, At, Shaped
  <2>2. target' \in [Tenants -> Homes]
    BY <1>0, <1>4, <1>7, <2>1 DEF Route
  <2> QED
    BY <1>0, <1>7, <2>2 DEF Route, CatalogTyped, baseVars
<1>8. CASE Join(w)
  <2>1. r.tenant \in Tenants /\ r.project \in Projects
    BY <1>0, <1>8 DEF Join, At, Shaped
  <2>2. member' \subseteq Tenants \X Projects
    BY <1>0, <1>5, <1>8, <2>1 DEF Join
  <2> QED
    BY <1>0, <1>8, <2>2 DEF Join, CatalogTyped, baseVars
<1>9. CASE PutProject(w)
  <2>1. r.tenant \in Tenants /\ r.project \in Projects
    BY <1>0, <1>9 DEF PutProject, At, Shaped
  <2>2. owner' \in [Projects -> Tenants \cup {Nothing}]
    BY <1>0, <1>9, <2>1 DEF PutProject, CatalogTyped
  <2>3. member' \subseteq Tenants \X Projects
    BY <1>0, <1>5, <1>9, <2>1 DEF PutProject, CatalogTyped
  <2> QED
    BY <1>0, <1>9, <2>2, <2>3 DEF PutProject, CatalogTyped, baseVars
<1>10. CASE \E b \in Bases : Replace(w, b)
  BY <1>0, <1>10 DEF Replace, CatalogTyped
<1>11. CASE Import(w) \/ Repair(w)
  <2>1. r.base \in Bases
    BY <1>0, <1>11 DEF Import, Repair, At, Shaped
  <2>2. content' \in [Bases -> {"empty", "rows", "whole"}]
    BY <1>0, <1>11, <2>1 DEF Import, Repair, CatalogTyped
  <2> QED
    BY <1>0, <1>11, <2>2 DEF Import, Repair, CatalogTyped
<1>12. CASE Stamp(w)
  <2>1. r.base \in Bases /\ r.tenant \in Tenants /\ r.project \in Projects
    BY <1>0, <1>12 DEF Stamp, At, Shaped
  <2>2. stamped' \in [Bases -> (Tenants \X Projects) \cup {Nothing}]
    BY <1>0, <1>12, <2>1 DEF Stamp, CatalogTyped
  <2> QED
    BY <1>0, <1>12, <2>2 DEF Stamp, CatalogTyped
<1>13. CASE Discard(w)
  <2>1. r.base \in Bases
    BY <1>0, <1>13 DEF Discard, Destroys, Shaped
  <2> QED
    BY <1>0, <1>13, <2>1 DEF Discard, CatalogTyped
<1>14. CASE Repoint(w)
  <2>1. r.base \in Bases /\ r.tenant \in Tenants
    BY <1>0, <1>14 DEF Repoint, At, Shaped
  <2>2. target' \in [Tenants -> Homes]
    BY <1>0, <1>14, <2>1 DEF Repoint, CatalogTyped, Homes
  <2> QED
    BY <1>0, <1>14, <2>2 DEF Repoint, CatalogTyped, baseVars
<1> QED
  BY <1>1, <1>2, <1>3, <1>6, <1>7, <1>8, <1>9, <1>10, <1>11, <1>12, <1>13, <1>14, CatalogKept

\* The steps of the agent's request.
RequestStep ==
  (\E k \in Keys : Arrive(k)) \/ (\E c \in Consumers : Ask(c) \/ Authenticate(c) \/ Bind(c))
  \/ EndRequest

LEMMA RequestApart == ASSUME RequestStep PROVE UNCHANGED <<storeVars, keyVars, catalogVars>>
BY DEF RequestStep, Arrive, Ask, Authenticate, Bind, EndRequest

LEMMA RequestStaysTyped == ASSUME TypeInv, RequestStep PROVE RequestTyped'
<1>0. RequestTyped /\ KeysTyped
  BY DEF TypeInv
<1>1. ASSUME NEW k \in Keys, Arrive(k) PROVE RequestTyped'
  <2>1. (k \in gone) \in BOOLEAN
    OBVIOUS
  <2>2. calls' \in Nat
    BY <1>0, <1>1 DEF Arrive, RequestTyped
  <2> QED
    BY <1>0, <1>1, <2>1, <2>2 DEF Arrive, RequestTyped
<1>2. ASSUME NEW c \in Consumers, Ask(c) PROVE RequestTyped'
  <2> DEFINE late == IF request.over THEN request.key \in gone ELSE request.dead
             pc == IF request.live THEN "waits" ELSE "alone"
  <2>1. late \in BOOLEAN
    <3>1. (request.key \in gone) \in BOOLEAN
      OBVIOUS
    <3>2. request.dead \in BOOLEAN
      BY <1>0 DEF RequestTyped
    <3> QED
      BY <3>1, <3>2
  <2>2. pc \in {"waits", "alone"}
    OBVIOUS
  <2>3. consumers' = [consumers EXCEPT ![c] = [pc |-> pc, late |-> late]]
    BY <1>2 DEF Ask
  <2>4. UNCHANGED <<calls, request>>
    BY <1>2 DEF Ask
  <2> HIDE DEF late, pc
  <2> QED
    BY <1>0, <2>1, <2>2, <2>3, <2>4 DEF RequestTyped
<1>3. ASSUME NEW c \in Consumers, Authenticate(c) PROVE RequestTyped'
  <2>1. PICK pc \in {"passed", "refused"}, cached \in BOOLEAN :
          /\ consumers' = [consumers EXCEPT ![c].pc = pc]
          /\ request' = [request EXCEPT !.cached = cached]
    <3> DEFINE hit == consumers[c].pc = "waits" /\ request.cached
               passed == hit \/ request.key \notin gone
               cached == request.cached \/ (passed /\ consumers[c].pc = "waits" /\ request.live)
    <3>1. cached \in BOOLEAN
      OBVIOUS
    <3>2. request' = [request EXCEPT !.cached = cached]
      BY <1>3 DEF Authenticate
    <3>3. consumers' = [consumers EXCEPT ![c].pc = IF passed THEN "passed" ELSE "refused"]
      BY <1>3 DEF Authenticate
    <3> HIDE DEF cached, passed
    <3> QED
      BY <3>1, <3>2, <3>3
  <2>2. UNCHANGED calls
    BY <1>3 DEF Authenticate
  <2>3. consumers' \in [Consumers -> [pc : {"idle", "waits", "alone", "passed", "refused",
                                            "bound"}, late : BOOLEAN]]
    BY <1>0, <2>1 DEF RequestTyped
  <2> QED
    BY <1>0, <2>1, <2>2, <2>3 DEF RequestTyped
<1>4. ASSUME NEW c \in Consumers, Bind(c) PROVE RequestTyped'
  BY <1>0, <1>4 DEF Bind, RequestTyped
<1>5. CASE EndRequest
  BY <1>0, <1>5 DEF EndRequest, Left, RequestTyped
<1> QED
  BY <1>1, <1>2, <1>3, <1>4, <1>5 DEF RequestStep

LEMMA TypeInit == Init => TypeInv
<1> SUFFICES ASSUME Init PROVE TypeInv
  OBVIOUS
<1>1. WorkTyped
  <2>1. Rest \in CallType
    BY DEF Rest, CallType, Whys
  <2>2. \A w \in Workers : work[w] = Rest
    BY DEF Init
  <2>3. Shaped(Rest.pc, Rest.why, Rest.subject, Rest.tenant, Rest.project, Rest.base)
    BY DEF Rest, Shaped
  <2> QED
    BY <2>1, <2>2, <2>3 DEF Init, WorkTyped
<1>2. RowsTyped
  <2>1. /\ autocommit \in BOOLEAN /\ gone = {} /\ spent = {} /\ voided = {}
        /\ audits = [x \in Subjects |-> 0]
    BY DEF Init
  <2>2. active \subseteq Tenants
    <3>1. CASE Empty
      BY <3>1 DEF Empty
    <3>2. CASE \E o \in Orgs, t \in Tenants, home \in {"file", "own"}, p \in Projects :
                 \E k \in Keys, token \in Tokens : Settled(o, t, home, p, k, token)
      BY <3>2 DEF Settled
    <3> QED
      BY <3>1, <3>2 DEF Init
  <2>3. audits \in [Subjects -> Nat]
    BY <2>1
  <2> QED
    BY <2>1, <2>2, <2>3 DEF RowsTyped
<1>3. KeysTyped /\ CatalogTyped
  <2>1. NoScope \in ScopeType
    BY DEF NoScope, ScopeType, Whys
  <2>2. /\ noted \in [Tokens -> Keys \cup {Nothing}] /\ expired = {}
        /\ drawn = {} /\ dropped = {}
        /\ content \in [Bases -> {"empty", "rows", "whole"}]
        /\ stamped \in [Bases -> (Tenants \X Projects) \cup {Nothing}]
    BY DEF Init
  <2>3. CASE Empty
    <3>1. scope \in [Keys \cup Tokens -> ScopeType]
      BY <2>1, <2>3 DEF Empty
    <3> QED
      BY <2>2, <2>3, <3>1 DEF Empty, KeysTyped, CatalogTyped, Homes
  <2>4. CASE ~Empty
    <3>1. PICK o \in Orgs, t \in Tenants, home \in {"file", "own"}, p \in Projects,
               k \in Keys, token \in Tokens : Settled(o, t, home, p, k, token)
      BY <2>4 DEF Init
    <3> DEFINE held == [NoScope EXCEPT !.tenant = t, !.project = p, !.via = "key"]
    <3>2. held \in ScopeType
      BY DEF NoScope, ScopeType, Whys
    <3>3. scope = [x \in Keys \cup Tokens |-> IF x \in {k, token} THEN held ELSE NoScope]
      BY <3>1 DEF Settled
    <3> HIDE DEF held
    <3>4. scope \in [Keys \cup Tokens -> ScopeType]
      BY <2>1, <3>2, <3>3
    <3>5. KeysTyped
      BY <2>2, <3>1, <3>4 DEF Settled, KeysTyped
    <3>6. target \in [Tenants -> Homes]
      BY <3>1 DEF Settled, Homes
    <3>7. /\ account \in [Orgs -> Tenants \cup {Nothing}]
          /\ owner \in [Projects -> Tenants \cup {Nothing}]
      BY <3>1 DEF Settled
    <3>8. CatalogTyped
      BY <2>2, <3>1, <3>6, <3>7 DEF Settled, CatalogTyped
    <3> QED
      BY <3>5, <3>8
  <2> QED
    BY <2>3, <2>4
<1>4. RequestTyped
  BY DEF Init, RequestTyped, NoRequest, Unasked
<1> QED
  BY <1>1, <1>2, <1>3, <1>4 DEF TypeInv

\* What a step may be, with what it leaves alone.
LEMMA NextSplits ==
  ASSUME Next
  PROVE  \/ \E w \in Workers : Start(w)
         \/ \E w \in Workers : Steps(w) /\ UNCHANGED <<calls, requestVars>>
         \/ \E t \in Tokens : Expire(t) /\ UNCHANGED <<catalogVars, calls, requestVars>>
         \/ RequestStep
BY DEF Next, RequestStep

LEMMA TypeStep == ASSUME TypeInv, [Next]_vars PROVE TypeInv'
<1>1. CASE \E w \in Workers : Start(w)
  <2>1. PICK w \in Workers : Start(w)
    BY <1>1
  <2>2. WorkTyped'
    BY <2>1, StartTyped
  <2>3. /\ calls' = calls + 1
        /\ UNCHANGED <<autocommit, rowVars, keyVars, catalogVars, requestVars>>
    BY <2>1, StartNow
  <2>4. RequestTyped'
    BY <2>3 DEF TypeInv, RequestTyped, requestVars
  <2> QED
    BY <2>2, <2>3, <2>4 DEF TypeInv, RowsTyped, KeysTyped, CatalogTyped, rowVars, keyVars,
       catalogVars, baseVars
<1>2. CASE \E w \in Workers : Steps(w) /\ UNCHANGED <<calls, requestVars>>
  <2>1. PICK w \in Workers : Steps(w) /\ UNCHANGED <<calls, requestVars>>
    BY <1>2
  <2>2. WorkTyped'
    BY <2>1, DeletionTyped, KeyingTyped, ProvisioningTyped, RestoringTyped
       DEF TypeInv, Steps, CatalogStep
  <2>3. RowsTyped' /\ KeysTyped' /\ CatalogTyped'
    BY <2>1, RowsStayTyped, KeysStayTyped, CatalogStaysTyped
  <2>4. RequestTyped'
    BY <2>1 DEF TypeInv, RequestTyped, requestVars
  <2> QED
    BY <2>2, <2>3, <2>4 DEF TypeInv
<1>3. CASE \E t \in Tokens : Expire(t) /\ UNCHANGED <<catalogVars, calls, requestVars>>
  <2>1. PICK t \in Tokens : Expire(t) /\ UNCHANGED <<catalogVars, calls, requestVars>>
    BY <1>3
  <2>2. WorkTyped'
    BY <2>1 DEF Expire, TypeInv, WorkTyped, Shaped
  <2>3. RowsTyped' /\ KeysTyped'
    BY <2>1 DEF Expire, TypeInv, RowsTyped, KeysTyped
  <2>4. CatalogTyped' /\ RequestTyped'
    BY <2>1 DEF TypeInv, CatalogTyped, RequestTyped, catalogVars, baseVars, requestVars
  <2> QED
    BY <2>2, <2>3, <2>4 DEF TypeInv
<1>4. CASE RequestStep
  <2>1. RequestTyped'
    BY <1>4, RequestStaysTyped
  <2>2. UNCHANGED <<storeVars, keyVars, catalogVars>>
    BY <1>4, RequestApart
  <2>3. WorkTyped'
    BY <2>2 DEF TypeInv, WorkTyped, storeVars, Shaped
  <2> QED
    BY <2>1, <2>2, <2>3 DEF TypeInv, RowsTyped, KeysTyped, CatalogTyped, storeVars, rowVars,
       keyVars, catalogVars, baseVars
<1>5. CASE UNCHANGED vars
  <2>1. UNCHANGED <<storeVars, keyVars, catalogVars>> /\ UNCHANGED <<calls, requestVars>>
    BY <1>5 DEF vars
  <2>2. WorkTyped'
    BY <2>1 DEF TypeInv, WorkTyped, storeVars, Shaped
  <2>3. RequestTyped'
    BY <2>1 DEF TypeInv, RequestTyped, requestVars
  <2> QED
    BY <2>1, <2>2, <2>3 DEF TypeInv, RowsTyped, KeysTyped, CatalogTyped, storeVars, rowVars,
       keyVars, catalogVars, baseVars
<1> QED
  BY <1>1, <1>2, <1>3, <1>4, <1>5, NextSplits

\* Every call of the control plane has what its place asks for, and the rows,
\* the catalog and the request are well formed.
THEOREM ControlTyped == Spec => []TypeInv
BY TypeInit, TypeStep, PTL DEF Spec

-------------------------------------------------------------------------------
\* Keys and tokens: KeyInv is inductive.

\* A call that has not just spent a token, nor means to spend an expired one.
Moves(w) ==
  /\ work' \in [Workers -> CallType]
  /\ \A v \in Workers \ {w} : work'[v] = work[v]
  /\ work'[w].pc = "spend" /\ work'[w].fresh => work'[w].subject \notin expired
  /\ work'[w].pc = "create" => work'[w].why # "setup"

\* Nor has a key or an exchange in hand.
Quiet(w) == Moves(w) /\ work'[w].pc \notin {"spend", "load", "list", "note", "hand"}

LEMMA QuietMoves ==
  ASSUME TypeInv, NEW w \in Workers,
         Start(w) \/ Break(w) \/ SoftDeletion(w) \/ FindKey(w) \/ CatalogStep(w)
  PROVE  Quiet(w)
<1> DEFINE r == work[w]
<1>0. /\ Shaped(r.pc, r.why, r.subject, r.tenant, r.project, r.base)
      /\ WorkTyped /\ CatalogTyped /\ KeysTyped
  BY DEF TypeInv, WorkTyped
<1>1. CASE Start(w)
  <2>1. PICK pc, why, s, t, p, b :
          Begun(pc, why, s, t, p, b) /\ Now(w, pc, why, s, t, p, b, FALSE)
    BY <1>1, StartNow
  <2>2. pc \notin {"spend", "load", "list", "note", "hand", "create"}
    BY <2>1 DEF Begun
  <2> QED
    BY <2>1, <2>2 DEF Now, Moves, Quiet
<1>2. Idle(w) => Quiet(w)
  BY DEF Idle, Now, Moves, Quiet
<1>3. ASSUME NEW pc, Going(w, pc), pc \notin {"spend", "load", "list", "note", "hand"},
             pc = "create" => r.why # "setup"
      PROVE  Quiet(w)
  BY <1>3 DEF Going, Now, Moves, Quiet
<1>4. CASE Check(w)
  BY <1>0, <1>2, <1>4, DeletionNow DEF Now, Moves, Quiet
<1>5. CASE Delete(w) \/ Audit(w) \/ Break(w)
  BY <1>0, <1>2, <1>3, <1>5, DeletionNow
<1>6. CASE FindKey(w)
  BY <1>0, <1>2, <1>3, <1>6, KeyingNow
<1>7. CASE \E org \in Orgs : MapAccount(w, org)
  BY <1>0, <1>7, ProvisioningNow DEF Now, Moves, Quiet
<1>8. CASE ReadTenant(w)
  <2>1. \/ Going(w, "insert")
        \/ Now(w, "init", r.why, r.subject, r.tenant, r.project, r.base, TRUE)
        \/ Now(w, "enable", r.why, r.subject, r.tenant, r.project, r.base, FALSE)
    BY <1>0, <1>8, ProvisioningNow
  <2> QED
    BY <1>3, <2>1 DEF Now, Moves, Quiet
<1>9. CASE InsertTenant(w) \/ InitFile(w)
  <2>1. \/ Going(w, "tenant") \/ Going(w, "enable")
        \/ Now(w, "init", r.why, r.subject, r.tenant, r.project, r.base, TRUE)
    BY <1>0, <1>9, ProvisioningNow
  <2> QED
    BY <1>3, <2>1 DEF Now, Moves, Quiet
<1>10. CASE Enable(w) \/ Route(w) \/ Join(w)
  <2>1. \/ Going(w, "route") \/ Going(w, "join") \/ Idle(w)
        \/ Going(w, "project") \/ Going(w, "seek") \/ (r.why = "issue" /\ Going(w, "create"))
    BY <1>0, <1>10, ProvisioningNow
  <2> QED
    BY <1>2, <1>3, <2>1
<1>11. CASE GetProject(w)
  <2>1. Idle(w) \/ (r.why = "key" /\ Going(w, "create")) \/ Going(w, "token")
    BY <1>0, <1>11, ProjectNow
  <2> QED
    BY <1>2, <1>3, <2>1
<1>12. CASE SeekProject(w)
  <2>1. \/ Idle(w)
        \/ \E fresh : Now(w, "put", r.why, r.subject, r.tenant, r.project, r.base, fresh)
    BY <1>0, <1>12, ProjectNow
  <2>2. ASSUME NEW fresh, Now(w, "put", r.why, r.subject, r.tenant, r.project, r.base, fresh)
        PROVE  Quiet(w)
    BY <2>2 DEF Now, Moves, Quiet
  <2> QED
    BY <1>2, <2>1, <2>2
<1>13. CASE PutProject(w)
  BY <1>0, <1>2, <1>3, <1>13, ProjectNow
<1>14. CASE \E b \in Bases : Replace(w, b)
  BY <1>0, <1>14, RestoringNow DEF Now, Moves, Quiet
<1>15. CASE Import(w) \/ Repair(w) \/ Stamp(w) \/ Verify(w) \/ Discard(w) \/ ReadActive(w)
              \/ Repoint(w) \/ Reload(w)
  <2>1. \/ Idle(w) \/ Going(w, "repair") \/ Going(w, "stamp") \/ Going(w, "verify")
        \/ Going(w, "activate") \/ Going(w, "repoint") \/ Going(w, "reload")
    BY <1>0, <1>15, RestoringNow
  <2> QED
    BY <1>2, <1>3, <2>1
<1> QED
  BY <1>1, <1>4, <1>5, <1>6, <1>7, <1>8, <1>9, <1>10, <1>11, <1>12, <1>13, <1>14, <1>15
     DEF SoftDeletion, CatalogStep

\* An expired token is being exchanged by a call that was already at it.
LEMMA NoNewExchange ==
  ASSUME TypeInv, NEW w \in Workers, Moves(w), NEW t \in expired, Exchanging(t)'
  PROVE  Exchanging(t)
BY DEF Moves, Exchanging, At

\* Tokens may become void before they are spent, and then stay so.
Voids ==
  /\ voided \subseteq voided' /\ voided' \cap spent = voided \cap spent
  /\ \A t \in (voided' \ gone') \cap Tokens : t \in voided \ gone

\* What is noted is a key of the token.
NotesHold ==
  \A t \in Tokens : \/ noted'[t] = noted[t]
                    \/ noted'[t] \in minted /\ scope[noted'[t]].token = t

LEMMA KeysElsewhere ==
  ASSUME TypeInv, RowsTyped', KeyInv, NEW w \in Workers, Moves(w), Minter(w)',
         Voids, NotesHold, UNCHANGED <<minted, expired, spent>>,
         \A k \in minted : scope'[k] = scope[k],
         listed \subseteq listed', (handed \subseteq minted /\ HandedListed)'
  PROVE  KeyInv'
<1>1. ASSUME NEW v \in Workers PROVE Minter(v)'
  <2>1. CASE v # w
    <3>1. work'[v] = work[v] /\ Minter(v)
      BY <2>1 DEF Moves, KeyInv
    <3> QED
      BY <3>1 DEF Minter, Voids
  <2> QED
    BY <2>1
<1>2. OneMinter'
  BY DEF KeyInv, OneMinter, Moves, At
<1>3. WorthSpent'
  BY DEF KeyInv, WorthSpent, Voids, NotesHold
<1>4. ASSUME NEW t \in voided' \ gone' PROVE t \in expired' /\ ~Exchanging(t)'
  <2>1. t \in voided \ gone /\ t \in Tokens
    BY <1>4 DEF Voids, RowsTyped
  <2>2. t \in expired /\ ~Exchanging(t)
    BY <2>1 DEF KeyInv, VoidForGood
  <2> QED
    BY <2>1, <2>2, NoNewExchange
<1>5. VoidForGood'
  BY <1>4 DEF VoidForGood
<1> QED
  BY <1>1, <1>2, <1>3, <1>5 DEF KeyInv

LEMMA KeysUntouched ==
  ASSUME TypeInv, RowsTyped', KeyInv, NEW w \in Workers, Quiet(w), Voids,
         UNCHANGED <<keyVars, spent>>
  PROVE  KeyInv'
<1>1. Minter(w)'
  BY DEF Quiet, Moves, Minter
<1>2. NotesHold /\ (handed \subseteq minted /\ HandedListed)'
  BY DEF NotesHold, KeyInv, HandedListed, keyVars
<1> QED
  BY <1>1, <1>2, KeysElsewhere DEF Quiet, keyVars

LEMMA VoidsRows ==
  ASSUME TypeInv, NEW w \in Workers, Steps(w) PROVE Voids
<1> DEFINE r == work[w]
<1>0. Shaped(r.pc, r.why, r.subject, r.tenant, r.project, r.base)
  BY DEF TypeInv, WorkTyped
<1>1. CASE UNCHANGED <<autocommit, rowVars>>
  BY <1>1 DEF Voids, rowVars
<1>2. CASE Delete(w)
  BY <1>2 DEF Delete, Voids
<1>3. CASE Audit(w) \/ SpendToken(w) \/ Repoint(w)
  BY <1>3 DEF Audit, SpendToken, Repoint, Voids
<1>4. CASE Enable(w)
  <2>1. r.tenant \in Tenants
    BY <1>0, <1>4 DEF Enable, At, Shaped
  <2>2. r.tenant \notin Tokens
    BY <2>1, StoreAssumption
  <2> QED
    BY <1>4, <2>2 DEF Enable, Voids
<1> QED
  BY <1>1, <1>2, <1>3, <1>4, RowsKept

LEMMA KeysCreated ==
  ASSUME TypeInv, KeyInv, NEW w \in Workers, NEW k \in Keys, CreateKey(w, k)
  PROVE  KeyInv'
<1> DEFINE r == work[w]
           worth == r.why = "setup"
<1>0. /\ Shaped(r.pc, r.why, r.subject, r.tenant, r.project, r.base)
      /\ r \in CallType /\ KeysTyped /\ WorkTyped
  BY CallTyped DEF TypeInv, WorkTyped
<1>1. /\ r.pc = "create" /\ k \notin minted /\ minted' = minted \cup {k}
      /\ UNCHANGED <<autocommit, rowVars, listed, issued, expired, noted, handed>>
  BY DEF CreateKey, At
<1>2. /\ scope'[k].via = r.why
      /\ scope'[k].token = IF worth THEN r.subject ELSE Nothing
      /\ \A x \in minted : scope'[x] = scope[x]
  <2>1. scope' = [scope EXCEPT ![k] = ScopeOf(r)]
    BY DEF CreateKey
  <2>2. scope'[k] = ScopeOf(r) /\ \A x \in minted : scope'[x] = scope[x]
    BY <1>0, <1>1, <2>1 DEF KeysTyped
  <2> QED
    BY <2>2 DEF ScopeOf
<1>3. /\ worth => /\ r.subject \in Tokens /\ r.subject \in spent \ voided
                  /\ \A l \in minted : scope[l].token # r.subject
      /\ Nothing \notin Tokens /\ r.why \in {"key", "issue", "setup"}
  BY <1>0, <1>1, StoreAssumption DEF Shaped, KeyInv, Minter, Subjects
<1>4. /\ work' \in [Workers -> CallType] /\ \A v \in Workers \ {w} : work'[v] = work[v]
      /\ work'[w].pc = (IF r.why = "issue" THEN "hand" ELSE "load")
      /\ work'[w].why = r.why /\ work'[w].subject = k
  BY <1>0, KeyingNow DEF Now
<1>5. ASSUME NEW v \in Workers PROVE Minter(v)'
  <2>1. CASE v = w
    BY <1>1, <1>2, <1>4, <2>1 DEF Minter
  <2>2. CASE v # w
    <3>1. work'[v] = work[v] /\ Minter(v)
      BY <1>4, <2>2 DEF KeyInv
    <3>2. work[v].pc = "create" /\ work[v].why = "setup" /\ worth
            => work[v].subject # r.subject
      BY <1>1, <2>2 DEF KeyInv, OneMinter, At
    <3>3. work[v].pc = "create" /\ work[v].why = "setup" => work[v].subject \in Tokens
      BY DEF TypeInv, WorkTyped, Shaped
    <3>4. work[v].pc = "create" /\ work[v].why = "setup"
            => \A l \in minted' : scope'[l].token # work[v].subject
      BY <1>1, <1>2, <1>3, <3>1, <3>2, <3>3 DEF Minter
    <3> QED
      BY <1>1, <1>2, <3>1, <3>4 DEF Minter, rowVars
  <2> QED
    BY <2>1, <2>2
<1>6. OneMinter'
  BY <1>4 DEF KeyInv, OneMinter, At
<1>7. VoidForGood'
  <2>1. ASSUME NEW t \in Tokens, Exchanging(t)' PROVE Exchanging(t)
    BY <1>4, <2>1 DEF Exchanging, At
  <2> QED
    BY <1>1, <2>1 DEF KeyInv, VoidForGood, rowVars, TypeInv, RowsTyped
<1>8. WorthSpent'
  <2>1. \A l \in minted' : /\ scope'[l].via = "setup" => scope'[l].token \in Tokens
                           /\ scope'[l].token \in Tokens => scope'[l].token \in spent \ voided
    BY <1>1, <1>2, <1>3 DEF KeyInv, WorthSpent
  <2>2. \A l, m \in minted' :
          scope'[l].token \in Tokens /\ scope'[l].token = scope'[m].token => l = m
    BY <1>1, <1>2, <1>3 DEF KeyInv, WorthSpent
  <2>3. \A t \in Tokens : noted'[t] # Nothing =>
                            noted'[t] \in minted' /\ scope'[noted'[t]].token = t
    BY <1>1, <1>2 DEF KeyInv, WorthSpent
  <2> QED
    BY <1>1, <2>1, <2>2, <2>3 DEF WorthSpent, rowVars
<1>9. handed' \subseteq minted' /\ HandedListed'
  BY <1>1, <1>2 DEF KeyInv, HandedListed
<1> QED
  BY <1>5, <1>6, <1>7, <1>8, <1>9 DEF KeyInv

LEMMA KeysAtHand ==
  ASSUME TypeInv, RowsTyped', KeyInv, NEW w \in Workers,
         \/ LoadKey(w) \/ Hand(w) \/ ReadToken(w) \/ NoteKey(w)
         \/ (\E outcome : ListKey(w, outcome)) \/ \E t \in Tokens : CreateToken(w, t)
  PROVE  KeyInv'
<1> DEFINE r == work[w]
           k == r.subject
<1>0. /\ Shaped(r.pc, r.why, r.subject, r.tenant, r.project, r.base)
      /\ WorkTyped /\ KeysTyped /\ Minter(w)
  BY DEF TypeInv, WorkTyped, KeyInv
<1>1. UNCHANGED <<rowVars, minted, expired>>
  BY DEF LoadKey, Hand, ReadToken, NoteKey, ListKey, CreateToken, keyVars
<1>2. Voids /\ UNCHANGED spent
  BY <1>1 DEF Voids, rowVars
<1>3. /\ NotesHold <=> \A t \in Tokens : \/ noted'[t] = noted[t]
                                         \/ noted'[t] \in minted /\ scope[noted'[t]].token = t
      /\ handed \subseteq minted /\ HandedListed
  BY DEF NotesHold, KeyInv
<1>4. CASE LoadKey(w)
  <2>1. r.pc = "load" /\ Going(w, "list") /\ UNCHANGED keyVars
    BY <1>0, <1>4, KeyingNow DEF LoadKey, At
  <2>2. Moves(w)
    BY <2>1 DEF Going, Now, Moves
  <2>3. Minter(w)'
    BY <1>0, <2>1 DEF Going, Now, Minter, keyVars
  <2>4. NotesHold /\ (handed \subseteq minted /\ HandedListed)'
    BY <1>3, <2>1 DEF HandedListed, keyVars
  <2> QED
    BY <1>1, <1>2, <2>1, <2>2, <2>3, <2>4, KeysElsewhere DEF keyVars
<1>5. CASE Hand(w)
  <2>1. /\ r.pc = "hand" /\ Idle(w) /\ handed' = handed \cup {k}
        /\ UNCHANGED <<minted, listed, scope, noted>>
    BY <1>0, <1>5, KeyingNow DEF Hand, At
  <2>2. Moves(w)
    BY <2>1 DEF Idle, Now, Moves
  <2>3. Minter(w)'
    BY <2>1 DEF Idle, Now, Minter
  <2>4. (handed \subseteq minted /\ HandedListed)'
    BY <1>0, <1>3, <2>1 DEF Minter, HandedListed
  <2>5. NotesHold
    BY <1>3, <2>1
  <2> QED
    BY <1>1, <1>2, <2>1, <2>2, <2>3, <2>4, <2>5, KeysElsewhere
<1>6. CASE ReadToken(w)
  <2>1. r.pc = "exchange" /\ k \in Tokens /\ UNCHANGED keyVars
    BY <1>0, <1>6 DEF ReadToken, At, Shaped
  <2>2. Now(w, "spend", r.why, k, scope[k].tenant, scope[k].project, r.base, k \notin expired)
    BY <1>0, <1>6, <2>1, KeyingNow
  <2>3. Moves(w)
    BY <2>2 DEF Now, Moves
  <2>4. Minter(w)'
    BY <2>2 DEF Now, Minter
  <2>5. NotesHold /\ (handed \subseteq minted /\ HandedListed)'
    BY <1>3, <2>1 DEF HandedListed, keyVars
  <2> QED
    BY <1>1, <1>2, <2>1, <2>3, <2>4, <2>5, KeysElsewhere DEF keyVars
<1>7. CASE NoteKey(w)
  <2>1. /\ r.pc = "note" /\ Going(w, "hand") /\ k \in minted /\ scope[k].via = "setup"
        /\ noted' = [noted EXCEPT ![scope[k].token] = k]
        /\ UNCHANGED <<minted, listed, scope, handed>>
    BY <1>0, <1>7, KeyingNow DEF NoteKey, At, Minter, Shaped
  <2>2. Moves(w)
    BY <2>1 DEF Going, Now, Moves
  <2>3. Minter(w)'
    BY <1>0, <2>1 DEF Going, Now, Minter
  <2>4. NotesHold
    BY <1>0, <1>3, <2>1 DEF KeysTyped
  <2>5. (handed \subseteq minted /\ HandedListed)'
    BY <1>3, <2>1 DEF HandedListed
  <2> QED
    BY <1>1, <1>2, <2>1, <2>2, <2>3, <2>4, <2>5, KeysElsewhere
<1>8. ASSUME NEW outcome, ListKey(w, outcome) PROVE KeyInv'
  <2>1. /\ r.pc = "list" /\ listed \subseteq listed' /\ (outcome = "done" => k \in listed')
        /\ UNCHANGED <<minted, scope, noted, handed>>
    BY <1>8 DEF ListKey, At
  <2>2. \/ outcome = "done" /\ (Going(w, "note") \/ Going(w, "hand"))
        \/ Now(w, "check", "undo", k, r.tenant, r.project, r.base, r.fresh)
    <3>1. CASE r.why = "setup"
      BY <1>0, <1>8, <3>1, KeyingNow
    <3>2. CASE r.why # "setup"
      BY <1>0, <1>8, <3>2, KeyingNow
    <3> QED
      BY <3>1, <3>2
  <2>3. Moves(w)
    BY <2>2 DEF Going, Now, Moves
  <2>4. Minter(w)'
    <3>1. CASE Now(w, "check", "undo", k, r.tenant, r.project, r.base, r.fresh)
      BY <3>1 DEF Now, Minter
    <3>2. CASE outcome = "done" /\ (Going(w, "note") \/ Going(w, "hand"))
      BY <1>0, <2>1, <3>2 DEF Going, Now, Minter
    <3> QED
      BY <2>2, <3>1, <3>2
  <2>5. NotesHold /\ (handed \subseteq minted /\ HandedListed)'
    BY <1>3, <2>1 DEF HandedListed
  <2> QED
    BY <1>1, <1>2, <2>1, <2>3, <2>4, <2>5, KeysElsewhere
<1>9. ASSUME NEW t \in Tokens, CreateToken(w, t) PROVE KeyInv'
  <2>1. /\ Idle(w) /\ scope' = [scope EXCEPT ![t] = ScopeOf(work[w])]
        /\ UNCHANGED <<minted, listed, noted, handed>>
    BY <1>0, <1>9, KeyingNow DEF CreateToken
  <2>2. \A x \in Keys : scope'[x] = scope[x]
    <3>1. t \notin Keys
      BY StoreAssumption
    <3> QED
      BY <1>0, <2>1, <3>1 DEF KeysTyped
  <2>3. minted \subseteq Keys /\ handed \subseteq Keys
    BY <1>0 DEF KeysTyped
  <2>4. Moves(w)
    BY <2>1 DEF Idle, Now, Moves
  <2>5. Minter(w)'
    BY <2>1 DEF Idle, Now, Minter
  <2>6. NotesHold /\ (handed \subseteq minted /\ HandedListed)'
    BY <1>3, <2>1, <2>2, <2>3 DEF HandedListed
  <2> QED
    BY <1>1, <1>2, <2>1, <2>2, <2>3, <2>4, <2>5, <2>6, KeysElsewhere
<1> QED
  BY <1>4, <1>5, <1>6, <1>7, <1>8, <1>9

LEMMA KeysSpent ==
  ASSUME TypeInv, RowsTyped', KeyInv, NEW w \in Workers, SpendToken(w)
  PROVE  KeyInv'
<1> DEFINE r == work[w]
           s == r.subject
<1>0. /\ Shaped(r.pc, r.why, r.subject, r.tenant, r.project, r.base)
      /\ WorkTyped /\ KeysTyped /\ RowsTyped
  BY DEF TypeInv, WorkTyped
<1>1. /\ r.pc = "spend" /\ r.why = "setup" /\ s \in Tokens
      /\ UNCHANGED <<gone, voided, keyVars>>
  BY <1>0 DEF SpendToken, At, Shaped
<1>2. CASE ~Spendable(w)
  <2>1. Idle(w) /\ UNCHANGED spent
    BY <1>0, <1>2, KeyingNow DEF SpendToken
  <2>2. Quiet(w)
    BY <2>1 DEF Idle, Now, Moves, Quiet
  <2>3. Voids
    BY <1>1 DEF Voids
  <2> QED
    BY <1>1, <2>1, <2>2, <2>3, KeysUntouched
<1>3. CASE Spendable(w)
  <2>1. /\ Going(w, "create") /\ spent' = spent \cup {s}
        /\ s \notin spent /\ s \notin gone /\ r.fresh
    BY <1>0, <1>3, KeyingNow DEF SpendToken, Spendable
  <2>2. s \notin voided
    BY <1>1, <2>1 DEF KeyInv, VoidForGood, Exchanging, At
  <2>3. \A k \in minted : scope[k].token # s
    BY <1>1, <2>1 DEF KeyInv, WorthSpent
  <2>4. /\ work' \in [Workers -> CallType] /\ \A v \in Workers \ {w} : work'[v] = work[v]
        /\ work'[w].pc = "create" /\ work'[w].why = "setup" /\ work'[w].subject = s
    BY <1>1, <2>1 DEF Going, Now
  <2>5. ASSUME NEW v \in Workers PROVE Minter(v)'
    <3>1. CASE v = w
      BY <1>1, <2>1, <2>2, <2>3, <2>4, <3>1 DEF Minter, keyVars
    <3>2. CASE v # w
      <4>1. work'[v] = work[v] /\ Minter(v)
        BY <2>4, <3>2 DEF KeyInv
      <4> QED
        BY <1>1, <2>1, <4>1 DEF Minter, keyVars
    <3> QED
      BY <3>1, <3>2
  <2>6. OneMinter'
    <3>1. \A v \in Workers : At(v, "create") /\ work[v].why = "setup" => work[v].subject # s
      BY <2>1 DEF KeyInv, Minter, At
    <3> QED
      BY <2>4, <3>1 DEF KeyInv, OneMinter, At
  <2>7. VoidForGood'
    <3>1. ASSUME NEW t \in Tokens, Exchanging(t)' PROVE Exchanging(t)
      BY <2>4, <3>1 DEF Exchanging, At
    <3> QED
      BY <1>0, <1>1, <3>1 DEF KeyInv, VoidForGood, RowsTyped, keyVars
  <2>8. WorthSpent'
    BY <1>1, <2>1 DEF KeyInv, WorthSpent, keyVars
  <2>9. (handed \subseteq minted /\ HandedListed)'
    BY <1>1 DEF KeyInv, HandedListed, keyVars
  <2> QED
    BY <2>5, <2>6, <2>7, <2>8, <2>9 DEF KeyInv
<1> QED
  BY <1>2, <1>3

LEMMA KeysExpire ==
  ASSUME TypeInv, KeyInv, NEW t \in Tokens, Expire(t)
  PROVE  KeyInv'
<1>1. /\ expired' = expired \cup {t}
      /\ voided' = (IF t \in spent \/ Exchanging(t) THEN voided ELSE voided \cup {t})
      /\ UNCHANGED <<work, gone, spent, minted, listed, scope, noted, handed>>
  BY DEF Expire
<1>2. ASSUME NEW v \in Workers PROVE Minter(v)'
  <2>1. Minter(v)
    BY DEF KeyInv
  <2> QED
    BY <1>1, <2>1 DEF Minter
<1>3. OneMinter'
  BY <1>1 DEF KeyInv, OneMinter, At
<1>4. VoidForGood'
  BY <1>1 DEF KeyInv, VoidForGood, Exchanging, At
<1>5. WorthSpent'
  BY <1>1 DEF KeyInv, WorthSpent
<1>6. (handed \subseteq minted /\ HandedListed)'
  BY <1>1 DEF KeyInv, HandedListed
<1> QED
  BY <1>2, <1>3, <1>4, <1>5, <1>6 DEF KeyInv

LEMMA KeyInit == Init => KeyInv
<1> SUFFICES ASSUME Init PROVE KeyInv
  OBVIOUS
<1>1. \A w \in Workers : work[w].pc = "idle"
  BY DEF Init, Rest
<1>2. /\ voided = {} /\ \A t \in Tokens : noted[t] = Nothing
      /\ handed \subseteq listed /\ handed \subseteq minted
  <2>1. voided = {} /\ \A t \in Tokens : noted[t] = Nothing
    BY DEF Init
  <2>2. CASE Empty
    BY <2>1, <2>2 DEF Empty
  <2>3. CASE \E o \in Orgs, t \in Tenants, home \in {"file", "own"}, p \in Projects :
               \E k \in Keys, token \in Tokens : Settled(o, t, home, p, k, token)
    BY <2>1, <2>3 DEF Settled
  <2> QED
    BY <2>2, <2>3 DEF Init
<1>3. \A k \in minted : scope[k].via = "key" /\ scope[k].token = Nothing
  <2>1. CASE Empty
    BY <2>1 DEF Empty
  <2>2. CASE ~Empty
    <3>1. PICK o \in Orgs, t \in Tenants, home \in {"file", "own"}, p \in Projects,
               k \in Keys, token \in Tokens : Settled(o, t, home, p, k, token)
      BY <2>2 DEF Init
    <3> QED
      BY <3>1 DEF Settled, NoScope
  <2> QED
    BY <2>1, <2>2
<1>4. \A w \in Workers : Minter(w)
  BY <1>1 DEF Minter
<1>5. OneMinter /\ VoidForGood
  BY <1>1, <1>2 DEF OneMinter, VoidForGood, At
<1>6. WorthSpent
  BY <1>2, <1>3, StoreAssumption DEF WorthSpent, Subjects
<1>7. HandedListed
  BY <1>2 DEF HandedListed
<1> QED
  BY <1>2, <1>4, <1>5, <1>6, <1>7 DEF KeyInv

LEMMA KeyKept == ASSUME TypeInv, TypeInv', KeyInv, [Next]_vars PROVE KeyInv'
<1>0. RowsTyped' /\ WorkTyped
  BY DEF TypeInv
<1>1. CASE \E w \in Workers : Start(w)
  <2>1. PICK w \in Workers : Start(w)
    BY <1>1
  <2>2. Quiet(w) /\ UNCHANGED <<rowVars, keyVars>>
    BY <2>1, QuietMoves, StartNow
  <2>3. Voids /\ UNCHANGED spent
    BY <2>2 DEF Voids, rowVars
  <2> QED
    BY <1>0, <2>2, <2>3, KeysUntouched
<1>2. CASE \E w \in Workers : Steps(w) /\ UNCHANGED <<calls, requestVars>>
  <2>1. PICK w \in Workers : Steps(w)
    BY <1>2
  <2>2. Voids
    BY <2>1, VoidsRows
  <2>3. CASE \/ (Break(w) \/ SoftDeletion(w) \/ CatalogStep(w)) /\ UNCHANGED keyVars
             \/ FindKey(w)
    <3>1. Quiet(w) /\ UNCHANGED keyVars
      BY <2>3, QuietMoves DEF FindKey
    <3>2. UNCHANGED spent
      BY <2>3 DEF FindKey, Break, SoftDeletion, Check, Delete, Audit, CatalogStep, MapAccount,
         ReadTenant, InsertTenant, InitFile, Enable, Route, Join, GetProject, SeekProject,
         PutProject, Replace, Import, Repair, Stamp, Verify, Discard, ReadActive, Repoint,
         Reload, rowVars
    <3> QED
      BY <1>0, <2>2, <3>1, <3>2, KeysUntouched
  <2>4. CASE KeyStep(w) /\ ~FindKey(w)
    BY <1>0, <2>4, KeysAtHand, KeysCreated, KeysSpent DEF KeyStep
  <2> QED
    BY <2>1, <2>3, <2>4 DEF Steps
<1>3. CASE \E t \in Tokens : Expire(t) /\ UNCHANGED <<catalogVars, calls, requestVars>>
  BY <1>3, KeysExpire
<1>4. CASE RequestStep \/ UNCHANGED vars
  <2>1. UNCHANGED <<storeVars, keyVars>>
    BY <1>4, RequestApart DEF vars
  <2> QED
    BY <2>1 DEF KeyInv, Minter, OneMinter, VoidForGood, WorthSpent, HandedListed, Exchanging,
       At, storeVars, rowVars, keyVars
<1> QED
  BY <1>1, <1>2, <1>3, <1>4, NextSplits

LEMMA KeysAreAccounted == ASSUME TypeInv, KeyInv PROVE KeysAccounted
<1>1. ASSUME NEW t \in Tokens,
             NEW worth, worth = {k \in minted : scope[k].token = t}
      PROVE  /\ \A k, l \in worth : k = l
             /\ worth # {} => t \in spent \ voided
             /\ noted[t] # Nothing => noted[t] \in worth
  BY <1>1 DEF KeyInv, WorthSpent
<1>2. OneKeyPerToken
  BY <1>1 DEF OneKeyPerToken
<1> QED
  BY <1>2 DEF KeysAccounted, KeyInv

\* However exchanges, revocations, expiry and faults cross: a setup token is
\* worth one key at most, none once it is void, and a key that the console or
\* an exchange handed out is one that the console lists.
THEOREM KeysAreSafe == Spec => []KeysAccounted
<1>1. Init => TypeInv /\ KeyInv
  BY TypeInit, KeyInit
<1>2. TypeInv /\ KeyInv /\ [Next]_vars => (TypeInv /\ KeyInv)'
  BY TypeStep, KeyKept
<1>3. TypeInv /\ KeyInv => KeysAccounted
  BY KeysAreAccounted
<1> QED
  BY <1>1, <1>2, <1>3, PTL DEF Spec

-------------------------------------------------------------------------------
\* Tokens keep the promises of SetupToken.

\* Which key was minted for which token.
Worth == {p \in Tokens \X minted : scope[p[2]].token = p[1]}

Token == INSTANCE SetupToken WITH void <- voided, worth <- Worth

tokenVars == <<spent, voided, Worth>>

LEMMA WorthOf ==
  ASSUME NEW t \in Tokens, NEW k
  PROVE  <<t, k>> \in Worth <=> k \in minted /\ scope[k].token = t
BY DEF Worth

\* It changes only when a key is minted.
LEMMA WorthKept ==
  ASSUME UNCHANGED minted, \A k \in minted : scope'[k].token = scope[k].token
  PROVE  UNCHANGED Worth
<1>1. Worth' = {p \in Tokens \X minted : scope'[p[2]].token = p[1]}
  BY DEF Worth
<1>2. \A p \in Tokens \X minted : scope'[p[2]].token = scope[p[2]].token
  OBVIOUS
<1> QED
  BY <1>1, <1>2 DEF Worth

LEMMA WorthLeft == ASSUME UNCHANGED keyVars PROVE UNCHANGED Worth
BY WorthKept DEF keyVars

\* A key minted for a token is its first, and the token was spent.
LEMMA TokenMinted ==
  ASSUME TypeInv, KeyInv, NEW w \in Workers, NEW k \in Keys, CreateKey(w, k)
  PROVE  Token!Next \/ UNCHANGED tokenVars
<1> DEFINE r == work[w]
           s == r.subject
<1>0. /\ Shaped(r.pc, r.why, s, r.tenant, r.project, r.base)
      /\ KeysTyped /\ Minter(w)
  BY DEF TypeInv, WorkTyped, KeyInv
<1>1. /\ r.pc = "create" /\ k \notin minted /\ minted' = minted \cup {k}
      /\ scope' = [scope EXCEPT ![k] = ScopeOf(r)] /\ UNCHANGED <<spent, voided>>
  BY DEF CreateKey, At, rowVars
<1>2. /\ scope'[k].token = (IF r.why = "setup" THEN s ELSE Nothing)
      /\ \A x \in minted : scope'[x] = scope[x]
  <2>1. scope'[k] = ScopeOf(r) /\ \A x \in minted : scope'[x] = scope[x]
    BY <1>0, <1>1 DEF KeysTyped
  <2> QED
    BY <2>1 DEF ScopeOf
<1>3. Worth' = {p \in Tokens \X (minted \cup {k}) : scope'[p[2]].token = p[1]}
  BY <1>1 DEF Worth
<1>4. CASE r.why # "setup"
  <2>1. scope'[k].token \notin Tokens
    BY <1>2, <1>4, StoreAssumption DEF Subjects
  <2>2. \A p \in Tokens \X (minted \cup {k}) :
          scope'[p[2]].token = p[1] <=> p[2] \in minted /\ scope[p[2]].token = p[1]
    BY <1>1, <1>2, <2>1
  <2>3. Worth' = Worth
    BY <1>3, <2>2 DEF Worth
  <2> QED
    BY <1>1, <2>3 DEF tokenVars
<1>5. CASE r.why = "setup"
  <2>1. s \in Tokens /\ s \in spent /\ \A l \in minted : scope[l].token # s
    BY <1>0, <1>1, <1>5 DEF Shaped, Minter
  <2>2. \A p \in Tokens \X (minted \cup {k}) :
          scope'[p[2]].token = p[1]
            <=> p = <<s, k>> \/ (p[2] \in minted /\ scope[p[2]].token = p[1])
    <3> TAKE p \in Tokens \X (minted \cup {k})
    <3>1. p = <<p[1], p[2]>>
      OBVIOUS
    <3>2. CASE p[2] = k
      BY <1>1, <1>2, <1>5, <3>1, <3>2
    <3>3. CASE p[2] # k
      BY <1>2, <3>1, <3>3
    <3> QED
      BY <3>2, <3>3
  <2>3. Worth' = Worth \cup {<<s, k>>}
    BY <1>3, <2>1, <2>2 DEF Worth
  <2>4. \A l \in Keys : <<s, l>> \notin Worth
    BY <2>1, WorthOf
  <2>5. \A u \in Tokens : <<u, k>> \notin Worth
    BY <1>1, WorthOf
  <2>6. Token!Mint(s, k)
    BY <1>1, <2>1, <2>3, <2>4, <2>5 DEF Token!Mint
  <2> QED
    BY <2>1, <2>6 DEF Token!Next
<1> QED
  BY <1>4, <1>5

\* A spent token was neither spent before nor void, although the exchange
\* looks at the clock before it spends.
LEMMA TokenSpent ==
  ASSUME TypeInv, KeyInv, NEW w \in Workers, SpendToken(w)
  PROVE  Token!Next \/ UNCHANGED tokenVars
<1> DEFINE r == work[w]
           s == r.subject
<1>1. /\ r.pc = "spend" /\ s \in Tokens /\ UNCHANGED <<voided, keyVars>>
  BY DEF SpendToken, At, TypeInv, WorkTyped, Shaped
<1>2. UNCHANGED Worth
  BY <1>1, WorthLeft
<1>3. CASE ~Spendable(w)
  BY <1>1, <1>2, <1>3 DEF SpendToken, tokenVars
<1>4. CASE Spendable(w)
  <2>1. spent' = spent \cup {s} /\ s \notin spent /\ s \notin gone /\ r.fresh
    BY <1>4 DEF SpendToken, Spendable
  <2>2. s \notin voided
    BY <1>1, <2>1 DEF KeyInv, VoidForGood, Exchanging, At
  <2>3. Token!Spend(s)
    BY <1>1, <1>2, <2>1, <2>2 DEF Token!Spend
  <2> QED
    BY <1>1, <2>3 DEF Token!Next
<1> QED
  BY <1>3, <1>4

\* Revocation and the passing of time void a token that was not spent.
LEMMA TokenVoided ==
  ASSUME NEW t, UNCHANGED <<spent, keyVars>>,
         voided' = voided \/ (t \in Tokens \ spent /\ voided' = voided \cup {t})
  PROVE  Token!Next \/ UNCHANGED tokenVars
<1>1. UNCHANGED Worth
  BY WorthLeft
<1>2. CASE voided' = voided
  BY <1>1, <1>2 DEF tokenVars
<1>3. CASE voided' # voided
  <2>1. t \in Tokens \ spent /\ t \notin voided /\ voided' = voided \cup {t}
    BY <1>3
  <2>2. Token!Void(t)
    BY <1>1, <2>1 DEF Token!Void
  <2> QED
    BY <2>1, <2>2 DEF Token!Next
<1> QED
  BY <1>2, <1>3

\* The other steps that keep keys and tokens.
LEMMA TokenLeft ==
  ASSUME TypeInv, NEW w \in Workers,
         \/ LoadKey(w) \/ Hand(w) \/ ReadToken(w) \/ NoteKey(w) \/ FindKey(w)
         \/ (\E outcome : ListKey(w, outcome)) \/ \E t \in Tokens : CreateToken(w, t)
  PROVE  UNCHANGED tokenVars
<1>1. UNCHANGED <<rowVars, minted>>
  BY DEF LoadKey, Hand, ReadToken, NoteKey, FindKey, ListKey, CreateToken, keyVars
<1>2. CASE UNCHANGED scope
  <2>1. UNCHANGED Worth
    BY <1>1, <1>2, WorthKept
  <2> QED
    BY <1>1, <2>1 DEF rowVars, tokenVars
<1>3. ASSUME NEW t \in Tokens, CreateToken(w, t) PROVE UNCHANGED tokenVars
  <2>1. \A k \in minted : scope'[k] = scope[k]
    <3>1. minted \subseteq Keys /\ t \notin Keys
      BY StoreAssumption DEF TypeInv, KeysTyped
    <3>2. scope' = [scope EXCEPT ![t] = ScopeOf(work[w])]
      BY <1>3 DEF CreateToken
    <3> QED
      BY <3>1, <3>2 DEF TypeInv, KeysTyped
  <2>2. UNCHANGED Worth
    BY <1>1, <2>1, WorthKept
  <2> QED
    BY <1>1, <2>2 DEF rowVars, tokenVars
<1> QED
  BY <1>2, <1>3 DEF LoadKey, Hand, ReadToken, NoteKey, FindKey, ListKey, keyVars

\* Every step of the control plane is a step of the token or leaves it alone.
LEMMA TokenSteps ==
  ASSUME TypeInv, KeyInv, [Next]_vars PROVE Token!Next \/ UNCHANGED tokenVars
<1>1. CASE UNCHANGED <<rowVars, keyVars>>
  <2>1. UNCHANGED Worth
    BY <1>1, WorthLeft
  <2> QED
    BY <1>1, <2>1 DEF rowVars, tokenVars
<1>2. ASSUME NEW w \in Workers, Start(w) PROVE UNCHANGED <<rowVars, keyVars>>
  BY <1>2, StartNow DEF TypeInv
<1>3. CASE RequestStep \/ UNCHANGED vars
  <2>1. UNCHANGED <<rowVars, keyVars>>
    BY <1>3, RequestApart DEF storeVars, vars
  <2> QED
    BY <1>1, <2>1
<1>4. ASSUME NEW t \in Tokens, Expire(t) PROVE Token!Next \/ UNCHANGED tokenVars
  <2>1. voided' = voided \/ (t \in Tokens \ spent /\ voided' = voided \cup {t})
    BY <1>4 DEF Expire
  <2>2. UNCHANGED <<spent, minted, scope>>
    BY <1>4 DEF Expire
  <2>3. UNCHANGED Worth
    BY <2>2, WorthKept
  <2>4. CASE voided' = voided
    BY <2>2, <2>3, <2>4 DEF tokenVars
  <2>5. CASE voided' # voided
    <3>1. Token!Void(t)
      BY <2>1, <2>2, <2>3, <2>5 DEF Token!Void
    <3> QED
      BY <3>1 DEF Token!Next
  <2> QED
    BY <2>4, <2>5
<1>5. ASSUME NEW w \in Workers, Steps(w) PROVE Token!Next \/ UNCHANGED tokenVars
  <2>1. CASE Delete(w) /\ UNCHANGED keyVars
    <3>1. voided' = voided \cup ({work[w].subject} \cap (Tokens \ spent)) /\ UNCHANGED spent
      BY <2>1 DEF Delete
    <3>2. \/ voided' = voided
          \/ work[w].subject \in Tokens \ spent /\ voided' = voided \cup {work[w].subject}
      BY <3>1
    <3> QED
      BY <2>1, <3>1, <3>2, TokenVoided
  <2>2. CASE (Audit(w) \/ Enable(w) \/ Repoint(w)) /\ UNCHANGED keyVars
    <3>1. UNCHANGED <<spent, voided>>
      BY <2>2 DEF Audit, Enable, Repoint
    <3> QED
      BY <2>2, <3>1, WorthLeft DEF tokenVars
  <2>3. CASE KeyStep(w)
    BY <2>3, TokenMinted, TokenSpent, TokenLeft DEF KeyStep
  <2>4. KeyStep(w) \/ UNCHANGED keyVars
    BY <1>5 DEF Steps
  <2>5. \/ UNCHANGED <<autocommit, rowVars>>
        \/ Delete(w) \/ Audit(w) \/ SpendToken(w) \/ Enable(w) \/ Repoint(w)
    BY <1>5, RowsKept
  <2> QED
    BY <1>1, <2>1, <2>2, <2>3, <2>4, <2>5, TokenSpent
<1> QED
  BY <1>1, <1>2, <1>3, <1>4, <1>5, NextSplits

LEMMA TokenInit == Init => Token!Init
<1> SUFFICES ASSUME Init PROVE Token!Init
  OBVIOUS
<1>1. spent = {} /\ voided = {}
  BY DEF Init
<1>2. \A k \in minted : scope[k].token = Nothing
  <2>1. CASE Empty
    BY <2>1 DEF Empty
  <2>2. CASE ~Empty
    <3>1. PICK o \in Orgs, t \in Tenants, home \in {"file", "own"}, p \in Projects,
               k \in Keys, token \in Tokens : Settled(o, t, home, p, k, token)
      BY <2>2 DEF Init
    <3> QED
      BY <3>1 DEF Settled, NoScope
  <2> QED
    BY <2>1, <2>2
<1>3. Worth = {}
  BY <1>2, StoreAssumption DEF Worth, Subjects
<1> QED
  BY <1>1, <1>3 DEF Token!Init

\* Exchanges, revocations, expiry, faults and dying processes, however they
\* cross, do to a setup token what SetupToken allows: spent once or void, and
\* then worth one key (hosted_local.py 2125-2266).
THEOREM TokensImplemented == Spec => Token!Spec
<1>1. Init => TypeInv /\ KeyInv
  BY TypeInit, KeyInit
<1>2. TypeInv /\ KeyInv /\ [Next]_vars => (TypeInv /\ KeyInv)'
  BY TypeStep, KeyKept
<1>3. TypeInv /\ KeyInv /\ [Next]_vars => [Token!Next]_<<spent, voided, Worth>>
  BY TokenSteps DEF tokenVars
<1> QED
  BY <1>1, <1>2, <1>3, TokenInit, PTL DEF Spec, Token!Spec

-------------------------------------------------------------------------------
\* Homes: HomeInv is inductive.

\* The call of w moves on, and no other call holds the base it has then.
Alone(w) ==
  /\ work' \in [Workers -> CallType]
  /\ \A v \in Workers \ {w} : work'[v] = work[v] /\ (work'[w].base \in Bases =>
                                                       work[v].base # work'[w].base)

\* Only the base that the call had is touched, and only it may become a home.
Touches(w) ==
  /\ known \subseteq known' /\ ready \subseteq ready' /\ drawn \subseteq drawn'
  /\ \A b \in Bases \ {work[w].base} :
       /\ content'[b] = content[b] /\ stamped'[b] = stamped[b]
       /\ b \in dropped' => b \in dropped
  /\ \A t \in Tenants : target'[t] \in Bases =>
       target'[t] = target[t] \/ target'[t] = work[w].base

BasesFilled == \A b \in Bases : stamped[b] # Nothing => b \in drawn /\ content[b] = "whole"
HomesMade == \A t \in Tenants : target[t] \in Bases => target[t] \in drawn /\ Made(target[t], t)

LEMMA OthersKeepHomes ==
  ASSUME TypeInv, HomeInv, NEW w \in Workers, Alone(w), Touches(w),
         NEW v \in Workers, v # w
  PROVE  Mover(v)'
<1> DEFINE r == work[v]
           b == r.base
<1>0. /\ Shaped(r.pc, r.why, r.subject, r.tenant, r.project, r.base)
      /\ Mover(v) /\ work'[v] = r
  BY DEF TypeInv, WorkTyped, HomeInv, Alone
<1>1. /\ r.pc \in Importing \cup Repointing => b \in Bases
      /\ b \in Bases => b # work[w].base
  BY <1>0 DEF Shaped, HomeInv
<1>2. /\ r.pc \in Provisioning \cup {"replace"} \cup Importing \cup Repointing =>
           r.pc \in {"tenant", "insert"} \/ r.tenant \in known'
      /\ r.pc \in {"enable", "repoint"} => r.tenant \in ready'
      /\ b \in Bases => b \in drawn'
  BY <1>0 DEF Mover, Touches
<1>3. /\ r.pc \in {"import", "repair", "stamp"} => stamped'[b] = Nothing
      /\ r.pc = "stamp" => content'[b] = "whole"
      /\ r.pc = "repoint" => /\ b \notin dropped' /\ content'[b] = "whole"
                             /\ stamped'[b] # Nothing /\ stamped'[b][1] = r.tenant
  BY <1>0, <1>1 DEF Mover, Touches, Made
<1>4. r.pc \in Importing => \A t \in Tenants : target'[t] # b
  BY <1>0, <1>1 DEF Mover, Touches
<1> HIDE DEF r, b
<1> QED
  BY <1>0, <1>2, <1>3, <1>4 DEF Mover, Made, r, b

LEMMA HomesMove ==
  ASSUME TypeInv, HomeInv, NEW w \in Workers, Alone(w), Touches(w), Mover(w)',
         active' \subseteq known' \cap ready', BasesFilled', HomesMade'
  PROVE  HomeInv'
<1>1. \A v \in Workers : Mover(v)'
  BY OthersKeepHomes
<1>2. \A u, v \in Workers : work'[u].base \in Bases /\ work'[u].base = work'[v].base => u = v
  <2>1. \A u, v \in Workers : work[u].base \in Bases /\ work[u].base = work[v].base => u = v
    BY DEF HomeInv
  <2> QED
    BY <2>1 DEF Alone
<1> QED
  BY <1>1, <1>2 DEF HomeInv, BasesFilled, HomesMade

\* What is told of homes.
HomeRows == <<known, ready, target, baseVars>>

LEMMA HomesKept ==
  ASSUME TypeInv, HomeInv, NEW w \in Workers, Alone(w), Mover(w)',
         active' \subseteq active, UNCHANGED HomeRows
  PROVE  HomeInv'
<1>1. Touches(w)
  BY DEF Touches, HomeRows, baseVars
<1>2. active' \subseteq known' \cap ready'
  BY DEF HomeInv, HomeRows
<1>3. BasesFilled' /\ HomesMade'
  BY DEF HomeInv, BasesFilled, HomesMade, Made, HomeRows, baseVars
<1> QED
  BY <1>1, <1>2, <1>3, HomesMove

\* A call that is neither provisioning nor restoring after the step.
Aside(w) ==
  /\ work' \in [Workers -> CallType]
  /\ \A v \in Workers \ {w} : work'[v] = work[v]
  /\ work'[w].pc \notin Provisioning \cup {"replace"} \cup Importing \cup Repointing
  /\ work'[w].base \in {work[w].base, Nothing}

LEMMA AsideKept ==
  ASSUME TypeInv, HomeInv, NEW w \in Workers, Aside(w),
         active' \subseteq active, UNCHANGED HomeRows
  PROVE  HomeInv'
<1>1. Alone(w)
  BY StoreAssumption DEF Aside, Alone, HomeInv
<1>2. Mover(w)'
  <2>1. work'[w].base \in Bases => work'[w].base \in drawn'
    BY StoreAssumption DEF Aside, HomeInv, Mover, HomeRows, baseVars
  <2> QED
    BY <2>1 DEF Aside, Mover
<1> QED
  BY <1>1, <1>2, HomesKept

LEMMA AsideMoves ==
  ASSUME TypeInv, NEW w \in Workers, Break(w) \/ SoftDeletion(w) \/ KeyStep(w)
  PROVE  Aside(w)
<1> DEFINE r == work[w]
<1>0. /\ Shaped(r.pc, r.why, r.subject, r.tenant, r.project, r.base)
      /\ WorkTyped /\ KeysTyped
  BY DEF TypeInv, WorkTyped
<1>1. ASSUME NEW pc, NEW why, NEW s, NEW t, NEW p, NEW b, NEW fresh,
             Now(w, pc, why, s, t, p, b, fresh), b \in {r.base, Nothing},
             pc \in {"idle", "delete", "audit", "check", "hand", "load", "list", "note",
                     "spend", "create"}
      PROVE  Aside(w)
  BY <1>1 DEF Now, Aside
<1>2. Idle(w) => Aside(w)
  BY <1>1 DEF Idle
<1>3. \A pc \in {"delete", "audit", "check", "hand", "load", "list", "note", "create"} :
        Going(w, pc) => Aside(w)
  BY <1>1 DEF Going
<1>4. CASE Break(w) \/ SoftDeletion(w)
  <2>1. \/ Idle(w) \/ Going(w, "audit")
        \/ Now(w, "delete", r.why, r.subject, r.tenant, r.project, r.base,
               r.subject \notin gone)
    BY <1>0, <1>4, DeletionNow DEF SoftDeletion
  <2> QED
    BY <1>1, <1>2, <1>3, <2>1
<1>5. ASSUME NEW k \in Keys, CreateKey(w, k) PROVE Aside(w)
  <2>1. \E pc \in {"hand", "load"} : Now(w, pc, r.why, k, r.tenant, r.project, r.base, r.fresh)
    BY <1>0, <1>5, KeyingNow
  <2> QED
    BY <1>1, <2>1
<1>6. ASSUME NEW outcome, ListKey(w, outcome) PROVE Aside(w)
  <2>1. \/ \E pc \in {"note", "hand"} : Going(w, pc)
        \/ Now(w, "check", "undo", r.subject, r.tenant, r.project, r.base, r.fresh)
    BY <1>0, <1>6, KeyingNow
  <2> QED
    BY <1>1, <1>3, <2>1
<1>7. CASE ReadToken(w)
  <2>1. r.subject \in Tokens
    BY <1>0, <1>7 DEF ReadToken, At, Shaped
  <2>2. Now(w, "spend", r.why, r.subject, scope[r.subject].tenant, scope[r.subject].project,
            r.base, r.subject \notin expired)
    BY <1>0, <1>7, <2>1, KeyingNow
  <2> QED
    BY <1>1, <2>2
<1>8. CASE LoadKey(w) \/ Hand(w) \/ SpendToken(w) \/ NoteKey(w) \/ FindKey(w)
            \/ \E t \in Tokens : CreateToken(w, t)
  BY <1>0, <1>2, <1>3, <1>8, KeyingNow
<1> QED
  BY <1>4, <1>5, <1>6, <1>7, <1>8 DEF KeyStep

LEMMA SameBaseAlone ==
  ASSUME TypeInv, HomeInv, NEW w \in Workers, NEW pc, NEW why, NEW s, NEW t, NEW p, NEW fresh,
         Now(w, pc, why, s, t, p, work[w].base, fresh)
  PROVE  Alone(w)
BY DEF Now, Alone, HomeInv

\* A call on its way through the provisioning of a tenant that there is.
LEMMA ProvisioningMover ==
  ASSUME TypeInv, HomeInv, NEW w \in Workers, NEW pc, NEW why, NEW s, NEW t, NEW p, NEW fresh,
         Now(w, pc, why, s, t, p, work[w].base, fresh),
         pc \in Provisioning \cup Keying \cup Deleting \cup {"idle"},
         pc \in Provisioning => pc \in {"tenant", "insert"} \/ t \in known',
         pc = "enable" => t \in ready', drawn \subseteq drawn'
  PROVE  Mover(w)'
<1>1. work[w].base \in Bases => work[w].base \in drawn'
  BY DEF HomeInv, Mover
<1> QED
  BY <1>1 DEF Now, Mover

LEMMA ProvisioningKept ==
  ASSUME TypeInv, HomeInv, NEW w \in Workers, NEW pc, NEW why, NEW s, NEW t, NEW p, NEW fresh,
         Now(w, pc, why, s, t, p, work[w].base, fresh), pc \in Provisioning,
         pc \in {"tenant", "insert"} \/ t \in known, pc = "enable" => t \in ready,
         active' \subseteq active, UNCHANGED HomeRows
  PROVE  HomeInv'
<1>1. UNCHANGED <<known, ready, drawn>>
  BY DEF HomeRows, baseVars
<1>2. Alone(w)
  BY SameBaseAlone
<1>3. Mover(w)'
  BY <1>1, ProvisioningMover
<1> QED
  BY <1>2, <1>3, HomesKept

LEMMA IdleAside == ASSUME NEW w \in Workers, Idle(w) PROVE Aside(w)
BY DEF Idle, Now, Aside

\* Provisioning goes on where its purpose takes it.
Onwards(w) ==
  \/ Idle(w)
  \/ \E pc \in {"project", "seek", "create", "join", "route"} : Going(w, pc)

LEMMA OnwardsMove ==
  ASSUME TypeInv, HomeInv, NEW w \in Workers, Onwards(w), work[w].tenant \in known',
         drawn \subseteq drawn'
  PROVE  Alone(w) /\ Mover(w)'
<1>1. CASE Idle(w)
  <2>1. Nothing \notin Bases
    BY StoreAssumption
  <2> QED
    BY <1>1, <2>1 DEF Idle, Now, Alone, Mover
<1>2. ASSUME NEW pc \in {"project", "seek", "create", "join", "route"}, Going(w, pc)
      PROVE  Alone(w) /\ Mover(w)'
  <2>1. LET r == work[w] IN
        Now(w, pc, r.why, r.subject, r.tenant, r.project, r.base, r.fresh)
    BY <1>2 DEF Going
  <2> QED
    BY <2>1, SameBaseAlone, ProvisioningMover
<1> QED
  BY <1>1, <1>2 DEF Onwards

LEMMA HomesRead ==
  ASSUME TypeInv, HomeInv, NEW w \in Workers,
         \/ ReadTenant(w) \/ Join(w) \/ GetProject(w) \/ SeekProject(w) \/ PutProject(w)
  PROVE  HomeInv'
<1> DEFINE r == work[w]
<1>0. /\ Shaped(r.pc, r.why, r.subject, r.tenant, r.project, r.base)
      /\ WorkTyped /\ CatalogTyped /\ Mover(w) /\ active \subseteq ready
  BY DEF TypeInv, WorkTyped, HomeInv
<1>1. UNCHANGED HomeRows /\ active' \subseteq active
  BY DEF ReadTenant, Join, GetProject, SeekProject, PutProject, HomeRows, rowVars, catalogVars
<1>2. UNCHANGED <<known, ready, drawn>>
  BY <1>1 DEF HomeRows, baseVars
<1>3. CASE ReadTenant(w)
  <2>1. \E pc \in {"insert", "init", "enable"}, fresh \in BOOLEAN :
          /\ Now(w, pc, r.why, r.subject, r.tenant, r.project, r.base, fresh)
          /\ pc = "insert" \/ r.tenant \in known
          /\ pc = "enable" => r.tenant \in active
    BY <1>0, <1>3, ProvisioningNow, CallTyped DEF Going, CallType
  <2> QED
    BY <1>0, <1>1, <2>1, ProvisioningKept
<1>4. CASE Join(w)
  <2>1. r.pc = "join" /\ Onwards(w)
    BY <1>0, <1>4, ProvisioningNow DEF Join, At, Onwards
  <2>2. r.tenant \in known
    BY <1>0, <2>1 DEF Mover
  <2> QED
    BY <1>1, <1>2, <2>1, <2>2, OnwardsMove, HomesKept
<1>5. CASE GetProject(w)
  <2>1. Idle(w) \/ Going(w, "create") \/ Going(w, "token")
    BY <1>0, <1>5, ProjectNow
  <2>2. Aside(w)
    BY <2>1, IdleAside DEF Going, Now, Aside
  <2> QED
    BY <1>1, <2>2, AsideKept
<1>6. CASE SeekProject(w)
  <2>1. r.pc = "seek"
    BY <1>6 DEF SeekProject, At
  <2>2. r.tenant \in known
    BY <1>0, <2>1 DEF Mover
  <2>3. \/ Idle(w)
        \/ \E fresh : Now(w, "put", r.why, r.subject, r.tenant, r.project, r.base, fresh)
    BY <1>0, <1>6, ProjectNow
  <2>4. ASSUME NEW pc \in {"put"}, NEW fresh,
               Now(w, pc, r.why, r.subject, r.tenant, r.project, r.base, fresh)
        PROVE  HomeInv'
    BY <1>1, <2>2, <2>4, ProvisioningKept
  <2> QED
    BY <1>1, <2>3, <2>4, IdleAside, AsideKept
<1>7. CASE PutProject(w)
  <2>1. r.pc = "put" /\ Onwards(w)
    BY <1>0, <1>7, ProjectNow DEF PutProject, At, Onwards
  <2>2. r.tenant \in known
    BY <1>0, <2>1 DEF Mover
  <2> QED
    BY <1>1, <1>2, <2>1, <2>2, OnwardsMove, HomesKept
<1> QED
  BY <1>3, <1>4, <1>5, <1>6, <1>7

LEMMA OwnedElsewhere ==
  ASSUME TypeInv, NEW w \in Workers, NEW t \in Tenants, Owned(w)[t] \in Bases,
         work[w].tenant \in Tenants
  PROVE  Owned(w)[t] = target[t]
BY HomesAssumption DEF Owned, TypeInv, CatalogTyped

LEMMA HomesProvisioned ==
  ASSUME TypeInv, HomeInv, NEW w \in Workers,
         \/ (\E org \in Orgs : MapAccount(w, org)) \/ InsertTenant(w) \/ InitFile(w)
         \/ Enable(w) \/ Route(w)
  PROVE  HomeInv'
<1> DEFINE r == work[w]
<1>0. /\ Shaped(r.pc, r.why, r.subject, r.tenant, r.project, r.base)
      /\ WorkTyped /\ CatalogTyped /\ Mover(w)
      /\ active \subseteq known /\ active \subseteq ready /\ BasesFilled /\ HomesMade
  BY DEF TypeInv, WorkTyped, HomeInv, BasesFilled, HomesMade
<1>1. ASSUME known \subseteq known', ready \subseteq ready', UNCHANGED baseVars,
             \A t \in Tenants : target'[t] \in Bases => target'[t] = target[t]
      PROVE  Touches(w) /\ BasesFilled' /\ HomesMade' /\ drawn \subseteq drawn'
  BY <1>0, <1>1 DEF Touches, baseVars, BasesFilled, HomesMade, Made
<1>2. CASE \E org \in Orgs : MapAccount(w, org)
  <2>1. PICK org \in Orgs : MapAccount(w, org)
    BY <1>2
  <2>2. PICK pc \in {"tenant"}, t \in Tenants :
          Now(w, pc, r.why, r.subject, t, r.project, r.base, r.fresh)
    BY <1>0, <2>1, ProvisioningNow
  <2>3. /\ known \subseteq known' /\ UNCHANGED <<active, ready, baseVars>>
        /\ \A u \in Tenants : target'[u] \in Bases => target'[u] = target[u]
    <3>1. UNCHANGED <<active, ready, baseVars>>
      BY <2>1 DEF MapAccount, rowVars
    <3>2. CASE UNCHANGED <<known, target>>
      BY <3>1, <3>2
    <3>3. CASE ~UNCHANGED <<known, target>>
      <4>1. PICK new \in Tenants :
              /\ known' = known \cup {new}
              /\ target' = [target EXCEPT ![new] = IF Minting THEN "own" ELSE "file"]
        BY <2>1, <3>3 DEF MapAccount
      <4>2. target \in [Tenants -> Homes] /\ "own" \notin Bases /\ "file" \notin Bases
        BY <1>0, HomesAssumption DEF CatalogTyped
      <4>3. target'[new] \notin Bases
        BY <4>1, <4>2
      <4>4. ASSUME NEW u \in Tenants, target'[u] \in Bases
            PROVE  target'[u] = target[u]
        BY <4>1, <4>2, <4>3, <4>4
      <4> QED
        BY <3>1, <4>1, <4>4
    <3> QED
      BY <3>2, <3>3
  <2>4. Alone(w)
    BY <2>2, SameBaseAlone
  <2>5. drawn \subseteq drawn' /\ Touches(w) /\ BasesFilled' /\ HomesMade'
    BY <1>1, <2>3
  <2>6. Mover(w)'
    BY <2>2, <2>5, ProvisioningMover
  <2> QED
    BY <1>0, <2>3, <2>4, <2>5, <2>6, HomesMove
<1>3. CASE InsertTenant(w)
  <2>1. PICK pc \in {"tenant", "init"}, fresh \in BOOLEAN :
          Now(w, pc, r.why, r.subject, r.tenant, r.project, r.base, fresh)
    BY <1>0, <1>3, ProvisioningNow, CallTyped DEF Going, CallType
  <2>2. /\ known' = known \cup {r.tenant}
        /\ UNCHANGED <<active, ready, target, baseVars>>
    BY <1>3 DEF InsertTenant, rowVars
  <2>3. Alone(w)
    BY <2>1, SameBaseAlone
  <2>4. drawn \subseteq drawn' /\ Touches(w) /\ BasesFilled' /\ HomesMade'
    BY <1>1, <2>2
  <2>5. Mover(w)'
    BY <2>1, <2>2, <2>4, ProvisioningMover
  <2> QED
    BY <1>0, <2>2, <2>3, <2>4, <2>5, HomesMove
<1>4. CASE InitFile(w)
  <2>0. r.pc = "init"
    BY <1>4 DEF InitFile, At
  <2>1. PICK pc \in {"enable"} :
          Now(w, pc, r.why, r.subject, r.tenant, r.project, r.base, r.fresh)
    BY <1>0, <1>4, ProvisioningNow DEF Going
  <2>2. /\ ready' = ready \cup {r.tenant} /\ r.tenant \in known
        /\ UNCHANGED <<active, known, target, baseVars>>
    BY <1>0, <1>4, <2>0 DEF InitFile, rowVars, Mover
  <2>3. Alone(w)
    BY <2>1, SameBaseAlone
  <2>4. drawn \subseteq drawn' /\ Touches(w) /\ BasesFilled' /\ HomesMade'
    BY <1>1, <2>2
  <2>5. Mover(w)'
    BY <2>1, <2>2, <2>4, ProvisioningMover
  <2> QED
    BY <1>0, <2>2, <2>3, <2>4, <2>5, HomesMove
<1>5. CASE Enable(w) \/ Route(w)
  <2>1. r.pc \in {"enable", "route"} /\ Onwards(w)
    <3>1. CASE Enable(w)
      BY <1>0, <3>1, ProvisioningNow DEF Enable, At, Onwards
    <3>2. CASE Route(w)
      BY <1>0, <3>2, ProvisioningNow DEF Route, At, Onwards
    <3> QED
      BY <1>5, <3>1, <3>2
  <2>2. r.tenant \in Tenants /\ r.tenant \in known
    BY <1>0, <2>1 DEF Shaped, Mover
  <2>3. UNCHANGED <<known, ready, baseVars>>
    BY <1>5 DEF Enable, Route
  <2>4. \A t \in Tenants : target'[t] \in Bases => target'[t] = target[t]
    BY <1>5, <2>2, OwnedElsewhere DEF Enable, Route
  <2>5. active' \subseteq known \cap ready
    BY <1>0, <1>5, <2>2 DEF Enable, Route, Mover, At, rowVars
  <2>6. drawn \subseteq drawn' /\ Touches(w) /\ BasesFilled' /\ HomesMade'
    BY <1>1, <2>3, <2>4
  <2>7. Alone(w) /\ Mover(w)'
    BY <2>1, <2>2, <2>3, <2>6, OnwardsMove
  <2> QED
    BY <2>3, <2>5, <2>6, <2>7, HomesMove
<1> QED
  BY <1>2, <1>3, <1>4, <1>5

\* A restore goes on with the base it has.
LEMMA RestoringAlone ==
  ASSUME TypeInv, HomeInv, NEW w \in Workers, NEW pc, Going(w, pc)
  PROVE  Alone(w)
BY SameBaseAlone DEF Going

LEMMA RestoringMover ==
  ASSUME HomeInv, NEW w \in Workers, NEW pc, Going(w, pc), drawn \subseteq drawn',
         LET r == work[w] IN
           /\ r.tenant \in known' /\ pc \notin {"enable"}
           /\ pc = "repoint" => r.tenant \in ready' /\ Made(r.base, r.tenant)'
           /\ pc \in {"repair", "stamp"} => stamped'[r.base] = Nothing
           /\ pc = "stamp" => content'[r.base] = "whole"
           /\ pc \in {"repair", "stamp", "verify"} => \A t \in Tenants : target'[t] # r.base,
         pc \in {"repair", "stamp", "verify", "activate", "repoint", "reload"}
  PROVE  Mover(w)'
<1>1. work[w].base \in Bases => work[w].base \in drawn'
  BY DEF HomeInv, Mover
<1> QED
  BY <1>1 DEF Going, Now, Mover, Made

LEMMA HomesReplaced ==
  ASSUME TypeInv, HomeInv, NEW w \in Workers, NEW b \in Bases, Replace(w, b)
  PROVE  HomeInv'
<1> DEFINE r == work[w]
<1>0. /\ Shaped(r.pc, r.why, r.subject, r.tenant, r.project, r.base)
      /\ WorkTyped /\ Mover(w) /\ BasesFilled /\ HomesMade
      /\ active \subseteq known /\ active \subseteq ready
  BY DEF TypeInv, WorkTyped, HomeInv, BasesFilled, HomesMade
<1>1. /\ r.pc = "replace" /\ b \notin drawn /\ drawn' = drawn \cup {b}
      /\ UNCHANGED <<active, known, ready, target, dropped, content, stamped>>
  BY DEF Replace, At, rowVars
<1>2. PICK pc \in {"import"} : Now(w, pc, r.why, r.subject, r.tenant, r.project, b, r.fresh)
  BY <1>0, RestoringNow
<1>3. Alone(w)
  BY <1>1, <1>2 DEF Now, Alone, HomeInv, Mover
<1>4. Touches(w)
  BY <1>1 DEF Touches
<1>5. BasesFilled' /\ HomesMade'
  BY <1>0, <1>1 DEF BasesFilled, HomesMade, Made
<1>6. /\ r.tenant \in known' /\ b \in drawn' /\ stamped'[b] = Nothing
      /\ \A t \in Tenants : target'[t] # b
  BY <1>0, <1>1 DEF Mover, BasesFilled, HomesMade
<1>7. Mover(w)'
  BY <1>2, <1>6 DEF Now, Mover
<1> QED
  BY <1>0, <1>1, <1>3, <1>4, <1>5, <1>7, HomesMove

LEMMA HomesImported ==
  ASSUME TypeInv, HomeInv, NEW w \in Workers,
         Import(w) \/ Repair(w) \/ Stamp(w) \/ Verify(w) \/ Discard(w)
  PROVE  HomeInv'
<1> DEFINE r == work[w]
           b == r.base
<1>0. /\ Shaped(r.pc, r.why, r.subject, r.tenant, r.project, r.base)
      /\ WorkTyped /\ Mover(w) /\ BasesFilled /\ HomesMade /\ CatalogTyped
      /\ active \subseteq known /\ active \subseteq ready
  BY DEF TypeInv, WorkTyped, HomeInv, BasesFilled, HomesMade
<1>1. /\ r.pc \in Importing
      /\ UNCHANGED <<active, known, ready, target, drawn>>
  BY DEF Import, Repair, Stamp, Verify, Discard, Destroys, At, rowVars, catalogVars, baseVars
<1>2. /\ b \in Bases /\ b \in drawn /\ r.tenant \in known
      /\ \A t \in Tenants : target[t] # b
  BY <1>0, <1>1 DEF Shaped, Mover
<1>3. ASSUME \A c \in Bases \ {b} : /\ content'[c] = content[c] /\ stamped'[c] = stamped[c]
                                    /\ c \in dropped' => c \in dropped
      PROVE  Touches(w) /\ HomesMade'
  BY <1>0, <1>1, <1>2, <1>3 DEF Touches, HomesMade, Made
<1>4. CASE Import(w) \/ Repair(w)
  <2>1. /\ r.pc \in {"import", "repair"} /\ UNCHANGED <<dropped, stamped>>
        /\ \A c \in Bases \ {b} : content'[c] = content[c]
        /\ Repair(w) => content'[b] = "whole"
    BY <1>0, <1>2, <1>4 DEF Import, Repair, CatalogTyped, At
  <2>2. stamped[b] = Nothing
    BY <1>0, <2>1 DEF Mover
  <2>3. Touches(w) /\ HomesMade'
    BY <1>3, <2>1
  <2>4. BasesFilled'
    BY <1>0, <1>1, <2>1, <2>2 DEF BasesFilled
  <2>5. PICK pc \in {"repair", "stamp"} : Going(w, pc) /\ (pc = "stamp" => Repair(w))
    BY <1>0, <1>4, RestoringNow
  <2>6. Mover(w)'
    BY <1>1, <1>2, <2>1, <2>2, <2>5, RestoringMover
  <2>7. Alone(w)
    BY <2>5, RestoringAlone
  <2> QED
    BY <1>0, <1>1, <2>3, <2>4, <2>6, <2>7, HomesMove
<1>5. CASE Stamp(w)
  <2>1. /\ r.pc = "stamp" /\ UNCHANGED <<dropped, content>>
        /\ \A c \in Bases \ {b} : stamped'[c] = stamped[c]
    BY <1>0, <1>2, <1>5 DEF Stamp, CatalogTyped, At
  <2>2. content[b] = "whole"
    BY <1>0, <2>1 DEF Mover
  <2>3. Touches(w) /\ HomesMade'
    BY <1>3, <2>1
  <2>4. BasesFilled'
    BY <1>0, <1>1, <1>2, <2>1, <2>2 DEF BasesFilled
  <2>5. PICK pc \in {"verify"} : Going(w, pc)
    BY <1>0, <1>5, RestoringNow
  <2>6. Mover(w)'
    BY <1>1, <1>2, <2>5, RestoringMover
  <2>7. Alone(w)
    BY <2>5, RestoringAlone
  <2> QED
    BY <1>0, <1>1, <2>3, <2>4, <2>6, <2>7, HomesMove
<1>6. CASE Verify(w)
  <2>1. UNCHANGED HomeRows
    BY <1>6 DEF Verify, HomeRows, catalogVars
  <2>2. PICK pc \in {"activate"} : Going(w, pc)
    BY <1>0, <1>6, RestoringNow
  <2>3. Mover(w)'
    BY <1>1, <1>2, <2>2, RestoringMover
  <2>4. Alone(w)
    BY <2>2, RestoringAlone
  <2> QED
    BY <1>1, <2>1, <2>3, <2>4, HomesKept
<1>7. CASE Discard(w)
  <2>1. /\ UNCHANGED <<content, stamped>> /\ dropped' = dropped \cup {b}
    BY <1>7 DEF Discard
  <2>2. Touches(w) /\ HomesMade'
    BY <1>3, <2>1
  <2>3. BasesFilled'
    BY <1>0, <1>1, <2>1 DEF BasesFilled
  <2>4. Idle(w)
    BY <1>0, <1>7, RestoringNow
  <2>5. Nothing \notin Bases
    BY StoreAssumption
  <2>6. Alone(w) /\ Mover(w)'
    BY <2>4, <2>5 DEF Idle, Now, Alone, Mover
  <2> QED
    BY <1>0, <1>1, <2>2, <2>3, <2>6, HomesMove
<1> QED
  BY <1>4, <1>5, <1>6, <1>7

LEMMA HomesActivated ==
  ASSUME TypeInv, HomeInv, NEW w \in Workers, ReadActive(w) \/ Repoint(w) \/ Reload(w)
  PROVE  HomeInv'
<1> DEFINE r == work[w]
           b == r.base
           t == r.tenant
<1>0. /\ Shaped(r.pc, r.why, r.subject, r.tenant, r.project, r.base)
      /\ WorkTyped /\ Mover(w) /\ BasesFilled /\ HomesMade /\ CatalogTyped
      /\ active \subseteq known /\ active \subseteq ready
  BY DEF TypeInv, WorkTyped, HomeInv, BasesFilled, HomesMade
<1>1. r.pc \in Repointing
  BY DEF ReadActive, Repoint, Reload, At
<1>2. b \in Bases /\ b \in drawn /\ t \in known /\ t \in Tenants
  BY <1>0, <1>1 DEF Shaped, Mover
<1>3. CASE ReadActive(w)
  <2>1. UNCHANGED HomeRows /\ active' \subseteq active
    BY <1>3 DEF ReadActive, HomeRows, catalogVars, rowVars
  <2>2. \/ Ends(w)
        \/ Goto(w, "repoint") /\ t \in active /\ b \notin dropped /\ Imported(t, b)
    BY <1>3 DEF ReadActive
  <2>3. CASE Ends(w)
    BY <1>0, <2>1, <2>3, EndsNow, IdleAside, AsideKept
  <2>4. CASE Goto(w, "repoint") /\ t \in active /\ b \notin dropped /\ Imported(t, b)
    <3>1. PICK pc \in {"repoint"} : Going(w, pc)
      BY <1>0, <2>4, GotoNow
    <3>2. Made(b, t)' /\ t \in ready' /\ t \in known' /\ drawn \subseteq drawn'
      <4>1. work'[w].base = b /\ work'[w].tenant = t
        BY <3>1 DEF Going, Now
      <4>2. Made(b, t)
        BY <1>0, <1>2, <2>4 DEF Made, Imported, BasesFilled
      <4>3. UNCHANGED <<known, ready, drawn, dropped, content, stamped>>
        BY <2>1 DEF HomeRows, baseVars
      <4> QED
        BY <1>0, <1>2, <2>4, <4>1, <4>2, <4>3 DEF Made
    <3>3. Mover(w)'
      BY <3>1, <3>2, RestoringMover
    <3>4. Alone(w)
      BY <3>1, RestoringAlone
    <3> QED
      BY <2>1, <3>3, <3>4, HomesKept
  <2> QED
    BY <2>2, <2>3, <2>4
<1>4. CASE Repoint(w)
  <2>1. /\ r.pc = "repoint" /\ active' = active \cup {t}
        /\ target' = [target EXCEPT ![t] = b]
        /\ UNCHANGED <<known, ready, drawn, dropped, content, stamped>>
    BY <1>4 DEF Repoint, At, baseVars
  <2>2. t \in ready /\ Made(b, t)
    BY <1>0, <2>1 DEF Mover
  <2>3. Touches(w)
    BY <1>0, <2>1 DEF Touches, CatalogTyped
  <2>4. BasesFilled' /\ HomesMade'
    BY <1>0, <1>2, <2>1, <2>2 DEF BasesFilled, HomesMade, Made, CatalogTyped
  <2>5. PICK pc \in {"reload"} : Going(w, pc)
    BY <1>0, <1>4, RestoringNow
  <2>6. Mover(w)'
    BY <1>2, <2>1, <2>5, RestoringMover
  <2>7. Alone(w)
    BY <2>5, RestoringAlone
  <2> QED
    BY <1>0, <1>2, <2>1, <2>2, <2>3, <2>4, <2>6, <2>7, HomesMove
<1>5. CASE Reload(w)
  <2>1. UNCHANGED HomeRows /\ active' \subseteq active
    BY <1>5 DEF Reload, HomeRows, catalogVars, rowVars
  <2> QED
    BY <1>0, <1>5, <2>1, RestoringNow, IdleAside, AsideKept
<1> QED
  BY <1>3, <1>4, <1>5

LEMMA HomesStarted ==
  ASSUME TypeInv, HomeInv, NEW w \in Workers, Start(w)
  PROVE  HomeInv'
<1>1. /\ UNCHANGED HomeRows /\ UNCHANGED active
      /\ \E pc, why, s, t, p, b : Begun(pc, why, s, t, p, b) /\ Now(w, pc, why, s, t, p, b, FALSE)
  BY StartNow DEF HomeRows, catalogVars, rowVars
<1>2. PICK pc, why, s, t, p, b : Begun(pc, why, s, t, p, b) /\ Now(w, pc, why, s, t, p, b, FALSE)
  BY <1>1
<1>3. \/ b = Nothing
      \/ b \in drawn /\ \A v \in Workers : work[v].base # b
  BY <1>2 DEF Begun
<1>4. Alone(w)
  BY <1>2, <1>3, StoreAssumption DEF Now, Alone
<1>5. /\ pc \in {"account", "tenant", "exchange", "find", "check", "replace", "activate"}
      /\ pc \in {"replace", "activate"} => t \in known
  BY <1>2 DEF Begun
<1>6. UNCHANGED <<known, drawn>> /\ Nothing \notin Bases
  BY <1>1, StoreAssumption DEF HomeRows, baseVars
<1>7. Mover(w)'
  BY <1>2, <1>3, <1>5, <1>6 DEF Now, Mover
<1> QED
  BY <1>1, <1>4, <1>7, HomesKept

LEMMA HomeInit == Init => HomeInv
<1> SUFFICES ASSUME Init PROVE HomeInv
  OBVIOUS
<1>1. \A w \in Workers : work[w].pc = "idle" /\ work[w].base = Nothing
  BY DEF Init, Rest
<1>2. Nothing \notin Bases
  BY StoreAssumption
<1>3. \A w \in Workers : Mover(w)
  BY <1>1, <1>2 DEF Mover
<1>4. /\ active \subseteq known /\ active \subseteq ready
      /\ \A t \in Tenants : target[t] \notin Bases
  <2>1. CASE Empty
    BY <2>1, HomesAssumption DEF Empty
  <2>2. CASE ~Empty
    <3>1. PICK o \in Orgs, t \in Tenants, home \in {"file", "own"}, p \in Projects,
               k \in Keys, token \in Tokens : Settled(o, t, home, p, k, token)
      BY <2>2 DEF Init
    <3> QED
      BY <3>1, HomesAssumption DEF Settled
  <2> QED
    BY <2>1, <2>2
<1>5. \A b \in Bases : stamped[b] = Nothing
  BY DEF Init
<1> QED
  BY <1>1, <1>2, <1>3, <1>4, <1>5 DEF HomeInv

LEMMA HomeKept == ASSUME TypeInv, HomeInv, [Next]_vars PROVE HomeInv'
<1>1. CASE \E w \in Workers : Start(w)
  BY <1>1, HomesStarted
<1>2. CASE \E w \in Workers : Steps(w) /\ UNCHANGED <<calls, requestVars>>
  <2>1. PICK w \in Workers : Steps(w)
    BY <1>2
  <2>2. CASE CatalogStep(w)
    BY <2>2, HomesRead, HomesProvisioned, HomesReplaced, HomesImported, HomesActivated
       DEF CatalogStep
  <2>3. CASE (Break(w) \/ SoftDeletion(w) \/ KeyStep(w)) /\ UNCHANGED catalogVars
    <3>1. UNCHANGED HomeRows
      BY <2>3 DEF HomeRows, catalogVars
    <3>2. active' \subseteq active
      BY <2>3 DEF Break, SoftDeletion, Check, Delete, Audit, KeyStep, LoadKey, Hand, ReadToken,
         SpendToken, NoteKey, FindKey, CreateKey, ListKey, CreateToken, rowVars
    <3> QED
      BY <2>3, <3>1, <3>2, AsideMoves, AsideKept
  <2> QED
    BY <2>1, <2>2, <2>3 DEF Steps
<1>3. CASE \/ \E t \in Tokens : Expire(t) /\ UNCHANGED <<catalogVars, calls, requestVars>>
           \/ RequestStep \/ UNCHANGED vars
  <2>1. UNCHANGED <<work, active, catalogVars>>
    <3>1. CASE RequestStep
      BY <3>1, RequestApart DEF storeVars, rowVars
    <3>2. CASE \E t \in Tokens : Expire(t) /\ UNCHANGED <<catalogVars, calls, requestVars>>
      BY <3>2 DEF Expire, storeVars, rowVars
    <3>3. CASE UNCHANGED vars
      BY <3>3 DEF vars, storeVars, rowVars
    <3> QED
      BY <1>3, <3>1, <3>2, <3>3
  <2> QED
    BY <2>1 DEF HomeInv, Mover, Made, catalogVars, baseVars
<1> QED
  BY <1>1, <1>2, <1>3, NextSplits

LEMMA HomesAreWhole == ASSUME TypeInv, HomeInv PROVE HomeWhole
<1>1. ASSUME NEW t \in active
      PROVE  /\ target[t] = "file" => t \in ready
             /\ target[t] \in Bases =>
                  /\ target[t] \notin dropped /\ content[target[t]] = "whole"
                  /\ stamped[target[t]] # Nothing /\ stamped[target[t]][1] = t
                  /\ \A u \in active \ {t} : target[u] # target[t]
  BY <1>1 DEF TypeInv, RowsTyped, HomeInv, Made
<1> QED
  BY <1>1 DEF HomeWhole

\* Whatever an interrupted or repeated provisioning or restore left behind, an
\* active tenant has a memory of its own: a file with a schema, its database,
\* or a whole import made for it.
THEOREM HomesAreSafe == Spec => []HomeWhole
<1>1. Init => TypeInv /\ HomeInv
  BY TypeInit, HomeInit
<1>2. TypeInv /\ HomeInv /\ [Next]_vars => (TypeInv /\ HomeInv)'
  BY TypeStep, HomeKept
<1>3. TypeInv /\ HomeInv => HomeWhole
  BY HomesAreWhole
<1> QED
  BY <1>1, <1>2, <1>3, PTL DEF Spec

-------------------------------------------------------------------------------
\* The request: RequestInv is inductive.

\* A key that was revoked stays revoked.
LEMMA RevokedStays == ASSUME TypeInv, [Next]_vars, NEW k \in Keys, k \in gone PROVE k \in gone'
<1>1. CASE \E w \in Workers : Start(w)
  BY <1>1, StartNow DEF rowVars
<1>2. CASE \E w \in Workers : Steps(w) /\ UNCHANGED <<calls, requestVars>>
  <2>1. PICK w \in Workers : Steps(w)
    BY <1>2
  <2>2. CASE Enable(w)
    <3>1. work[w].tenant \in Tenants
      BY <2>2 DEF TypeInv, WorkTyped, Shaped, Enable, At
    <3>2. k # work[w].tenant
      BY <3>1, StoreAssumption
    <3> QED
      BY <2>2, <3>2 DEF Enable
  <2>3. CASE ~Enable(w)
    BY <2>1, <2>3, RowsKept DEF rowVars, Delete, Audit, SpendToken, Repoint
  <2> QED
    BY <2>2, <2>3
<1>3. CASE \/ \E t \in Tokens : Expire(t) /\ UNCHANGED <<catalogVars, calls, requestVars>>
           \/ RequestStep \/ UNCHANGED vars
  BY <1>3, RequestApart DEF Expire, vars, storeVars, rowVars
<1> QED
  BY <1>1, <1>2, <1>3, NextSplits

\* What RequestInv says of one consumer, of the request it shares.
Served(c) ==
  /\ consumers[c].late => request.key \in gone
  /\ consumers[c].pc = "waits" /\ consumers[c].late => request.dead
  /\ consumers[c].pc \in {"passed", "bound"} => ~consumers[c].late

Decided ==
  /\ request.live => ~request.over
  /\ request.cached => ~request.dead
  /\ request.dead => request.key \in gone

LEMMA RequestParts ==
  RequestInv <=> /\ request.key = Nothing => \A c \in Consumers : consumers[c] = Unasked
                 /\ Decided /\ \A c \in Consumers : Served(c)
BY DEF RequestInv, Served, Decided

LEMMA RequestServed == ASSUME TypeInv, RequestInv, RequestStep PROVE RequestInv'
<1>0. /\ RequestTyped /\ KeysTyped /\ Decided /\ \A c \in Consumers : Served(c)
      /\ request.key = Nothing => \A c \in Consumers : consumers[c] = Unasked
      /\ gone' = gone
  BY RequestParts, RequestApart DEF TypeInv, storeVars, rowVars
<1>1. ASSUME NEW k \in Keys, Arrive(k) PROVE RequestInv'
  <2>1. /\ request' = [key |-> k, over |-> FALSE, live |-> TRUE, cached |-> FALSE,
                       dead |-> k \in gone]
        /\ consumers' = consumers /\ request.key = Nothing
    BY <1>1 DEF Arrive, NoRequest
  <2>2. /\ request'.key = k /\ ~request'.over /\ ~request'.cached
        /\ request'.dead = (k \in gone)
    BY <2>1
  <2>3. \A c \in Consumers : consumers'[c].pc = "idle" /\ ~consumers'[c].late
    BY <1>0, <2>1 DEF Unasked
  <2>4. k # Nothing
    BY StoreAssumption DEF Subjects
  <2> QED
    BY <1>0, <2>2, <2>3, <2>4 DEF RequestInv
<1>2. ASSUME NEW c \in Consumers, Ask(c) PROVE RequestInv'
  <2> DEFINE late == IF request.over THEN request.key \in gone ELSE request.dead
             pc == IF request.live THEN "waits" ELSE "alone"
  <2>1. /\ request.key # Nothing /\ request' = request
        /\ consumers' = [consumers EXCEPT ![c] = [pc |-> pc, late |-> late]]
    BY <1>2 DEF Ask
  <2>2. consumers \in [Consumers -> [pc : {"idle", "waits", "alone", "passed", "refused",
                                           "bound"}, late : BOOLEAN]]
    BY <1>0 DEF RequestTyped
  <2>3. /\ late => request.key \in gone
        /\ pc = "waits" /\ late => request.dead
        /\ pc \notin {"passed", "bound"}
    BY <1>0 DEF Decided
  <2> HIDE DEF late, pc
  <2>4. Decided'
    BY <1>0, <2>1 DEF Decided
  <2>5. Served(c)'
    <3>1. consumers'[c].pc = pc /\ consumers'[c].late = late
      BY <2>1, <2>2
    <3> QED
      BY <1>0, <2>1, <2>3, <3>1 DEF Served
  <2>6. \A d \in Consumers \ {c} : Served(d)'
    BY <1>0, <2>1, <2>2 DEF Served
  <2> QED
    BY <2>1, <2>4, <2>5, <2>6 DEF RequestInv, Decided, Served
<1>3. ASSUME NEW c \in Consumers, Authenticate(c) PROVE RequestInv'
  <2> DEFINE hit == consumers[c].pc = "waits" /\ request.cached
             passed == hit \/ request.key \notin gone
             cached == request.cached \/ (passed /\ consumers[c].pc = "waits" /\ request.live)
             pc == IF passed THEN "passed" ELSE "refused"
  <2>1. /\ consumers[c].pc \in {"waits", "alone"}
        /\ consumers' = [consumers EXCEPT ![c].pc = pc]
        /\ request' = [request EXCEPT !.cached = cached]
    BY <1>3 DEF Authenticate
  <2>2. /\ consumers \in [Consumers -> [pc : {"idle", "waits", "alone", "passed", "refused",
                                              "bound"}, late : BOOLEAN]]
        /\ request \in [key : Keys \cup {Nothing}, over : BOOLEAN, live : BOOLEAN,
                        cached : BOOLEAN, dead : BOOLEAN]
    BY <1>0 DEF RequestTyped
  <2>3. passed => ~consumers[c].late
    BY <1>0 DEF Decided, Served
  <2>4. cached => ~request.dead
    BY <1>0 DEF Decided
  <2>5. pc # "waits" /\ (pc \in {"passed", "bound"} => passed)
    OBVIOUS
  <2> HIDE DEF passed, cached, pc
  <2>6. /\ request'.key = request.key /\ request'.over = request.over
        /\ request'.live = request.live /\ request'.dead = request.dead
        /\ request'.cached = cached
    BY <2>1, <2>2
  <2>7. /\ consumers'[c].pc = pc /\ consumers'[c].late = consumers[c].late
        /\ \A d \in Consumers \ {c} : consumers'[d] = consumers[d]
    BY <2>1, <2>2
  <2>8. Decided'
    BY <1>0, <2>4, <2>6 DEF Decided
  <2>9. Served(c)'
    BY <1>0, <2>3, <2>5, <2>6, <2>7 DEF Served
  <2>10. \A d \in Consumers \ {c} : Served(d)'
    BY <1>0, <2>6, <2>7 DEF Served
  <2>11. request'.key # Nothing
    BY <1>0, <2>1, <2>6 DEF Unasked
  <2> QED
    BY <2>8, <2>9, <2>10, <2>11 DEF RequestInv, Decided, Served
<1>4. ASSUME NEW c \in Consumers, Bind(c) PROVE RequestInv'
  <2>1. \E pc \in {"bound", "refused"} :
          /\ consumers' = [consumers EXCEPT ![c].pc = pc]
          /\ request' = request /\ consumers[c].pc = "passed"
    BY <1>4 DEF Bind
  <2>2. PICK pc \in {"bound", "refused"} :
          /\ consumers' = [consumers EXCEPT ![c].pc = pc]
          /\ request' = request /\ consumers[c].pc = "passed"
    BY <2>1
  <2>3. consumers \in [Consumers -> [pc : {"idle", "waits", "alone", "passed", "refused",
                                           "bound"}, late : BOOLEAN]]
    BY <1>0 DEF RequestTyped
  <2>4. /\ consumers'[c].pc = pc /\ consumers'[c].late = consumers[c].late
        /\ \A d \in Consumers \ {c} : consumers'[d] = consumers[d]
    BY <2>2, <2>3
  <2>5. Decided'
    BY <1>0, <2>2 DEF Decided
  <2>6. \A d \in Consumers : Served(d)'
    BY <1>0, <2>2, <2>4 DEF Served
  <2>7. request'.key # Nothing
    BY <1>0, <2>2 DEF Unasked
  <2> QED
    BY <2>5, <2>6, <2>7 DEF RequestInv, Decided, Served
<1>5. CASE EndRequest
  <2>1. /\ request.key # Nothing /\ consumers' = consumers
        /\ request'.key = request.key /\ ~request'.live /\ ~request'.cached
        /\ request'.dead = request.dead
    BY <1>0, <1>5 DEF EndRequest, Left, RequestTyped
  <2> QED
    BY <1>0, <2>1 DEF RequestInv, Decided, Served
<1> QED
  BY <1>1, <1>2, <1>3, <1>4, <1>5 DEF RequestStep

LEMMA RequestKept == ASSUME TypeInv, RequestInv, [Next]_vars PROVE RequestInv'
<1>1. CASE RequestStep
  BY <1>1, RequestServed
<1>2. CASE ~RequestStep
  <2>1. UNCHANGED requestVars
    BY <1>2, NextSplits, StartNow DEF vars
  <2>2. \A c \in Consumers : request.key \in gone => request.key \in gone'
    <3>1. request.key \in gone => request.key \in Keys
      BY StoreAssumption DEF TypeInv, RequestTyped, RowsTyped
    <3> QED
      BY <3>1, RevokedStays
  <2>3. request.dead => request.key \in gone'
    <3>1. request.key \in gone => request.key \in Keys
      BY StoreAssumption DEF TypeInv, RequestTyped, RowsTyped
    <3> QED
      BY <3>1, RevokedStays DEF RequestInv
  <2> QED
    BY <2>1, <2>2, <2>3 DEF RequestInv, requestVars
<1> QED
  BY <1>1, <1>2

\* A consumer reaches the memory only with a key that was not revoked yet when
\* its request arrived, or when it asked after the response.
THEOREM AdmissionIsSafe == Spec => []Admission
<1>1. Init => RequestInv
  BY DEF Init, RequestInv, NoRequest, Unasked
<1>2. Init => TypeInv
  BY TypeInit
<1>3. TypeInv /\ RequestInv /\ [Next]_vars => (TypeInv /\ RequestInv)'
  BY TypeStep, RequestKept
<1>4. RequestInv => Admission
  BY DEF RequestInv, Admission
<1> QED
  BY <1>1, <1>2, <1>3, <1>4, PTL DEF Spec
===============================================================================
