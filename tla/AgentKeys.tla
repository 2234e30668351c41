-------------------------------- MODULE AgentKeys --------------------------------
(***************************************************************************)
(* HostedApiKeyStore: agent keys, which are minted by the console, by an   *)
(* operator or in exchange for a setup token, with a credential row and a  *)
(* metadata row in two transactions; and setup tokens, spent before the    *)
(* key is minted.                                                          *)
(***************************************************************************)
EXTENDS ControlStore

VARIABLES
  minted,   \* rows of hosted_api_keys
  listed,   \* of these, the ones with metadata, which the console lists
  scope,    \* what each key and token is for, and where a key comes from
  issued,   \* rows of hosted_setup_tokens
  expired,  \* tokens past expires_at
  noted,    \* consumed_key_id
  handed    \* history: keys returned to whoever asked

keyVars == <<minted, listed, scope, issued, expired, noted, handed>>

NoScope == [tenant |-> Nothing, project |-> Nothing, token |-> Nothing, via |-> "none"]
ScopeOf(call) ==
  [tenant |-> call.tenant, project |-> call.project, via |-> call.why,
   token |-> IF call.why = "setup" THEN call.subject ELSE Nothing]

-----------------------------------------------------------------------------
(* Minting *)

CreateKey(w, k) ==
  /\ At(w, "create") /\ k \notin minted
  /\ minted' = minted \cup {k}
  /\ scope' = [scope EXCEPT ![k] = ScopeOf(work[w])]
  /\ Becomes(w, [work[w] EXCEPT !.subject = k,
                   !.pc = IF work[w].why = "issue" THEN "hand" ELSE "load"])
  /\ UNCHANGED <<autocommit, rowVars, listed, issued, expired, noted, handed>>

\* Reads the row back, outside the try that compensates.
LoadKey(w) ==
  /\ At(w, "load") /\ Goto(w, "list")
  /\ UNCHANGED <<autocommit, rowVars, keyVars>>

\* Without its metadata row the key is revoked.
HandOrUndo(w, outcome) ==
  IF outcome = "done" THEN Goto(w, IF work[w].why = "setup" THEN "note" ELSE "hand")
  ELSE Becomes(w, [work[w] EXCEPT !.pc = "check", !.why = "undo"])

\* The statement is done, or raises without effect, or raises all the same.
ListKey(w, outcome) ==
  /\ At(w, "list")
  /\ outcome \in {"done", "fault"} \cup (IF autocommit THEN {"lost"} ELSE {})
  /\ listed' = IF outcome = "fault" THEN listed ELSE listed \cup {work[w].subject}
  /\ HandOrUndo(w, outcome)
  /\ UNCHANGED <<autocommit, rowVars, minted, scope, issued, expired, noted, handed>>

Hand(w) ==
  /\ At(w, "hand") /\ Ends(w)
  /\ handed' = handed \cup {work[w].subject}
  /\ UNCHANGED <<autocommit, rowVars, minted, listed, scope, issued, expired, noted>>

-----------------------------------------------------------------------------
(* Setup tokens *)

CreateToken(w, t) ==
  /\ At(w, "token") /\ Ends(w) /\ t \notin issued
  /\ issued' = issued \cup {t}
  /\ scope' = [scope EXCEPT ![t] = ScopeOf(work[w])]
  /\ UNCHANGED <<autocommit, rowVars, minted, listed, expired, noted, handed>>

\* The exchange reads the clock and the row.
ReadToken(w) ==
  LET t == work[w].subject IN
  /\ At(w, "exchange")
  /\ Becomes(w, [work[w] EXCEPT !.pc = "spend", !.fresh = t \notin expired,
                   !.tenant = scope[t].tenant, !.project = scope[t].project])
  /\ UNCHANGED <<autocommit, rowVars, keyVars>>

\* (Mutation: the UPDATE does not ask again whether the token was consumed.)
SpendableAgain(w) == work[w].subject \notin gone /\ work[w].fresh

\* The conditions of the consuming UPDATE, with the clock as it was read.
Spendable(w) == work[w].subject \notin spent \cup gone /\ work[w].fresh

\* Consumption is committed before the key is minted.
SpendToken(w) ==
  /\ At(w, "spend")
  /\ IF Spendable(w) THEN spent' = spent \cup {work[w].subject} /\ Goto(w, "create")
                     ELSE UNCHANGED spent /\ Ends(w)
  /\ UNCHANGED <<autocommit, gone, active, audits, voided, keyVars>>

NoteKey(w) ==
  /\ At(w, "note") /\ Goto(w, "hand")
  /\ noted' = [noted EXCEPT ![scope[work[w].subject].token] = work[w].subject]
  /\ UNCHANGED <<autocommit, rowVars, minted, listed, scope, issued, expired, handed>>

\* The console revokes only keys it lists.
FindKey(w) ==
  /\ At(w, "find")
  /\ IF work[w].subject \in listed THEN Goto(w, "check") ELSE Ends(w)
  /\ UNCHANGED <<autocommit, rowVars, keyVars>>

\* An exchange that has read the clock, and may still spend the token.
Exchanging(t) == \E w \in Workers : At(w, "spend") /\ work[w].subject = t /\ work[w].fresh

\* Time passes expires_at.
Expire(t) ==
  /\ t \in issued \ expired
  /\ expired' = expired \cup {t}
  /\ voided' = IF t \in spent \/ Exchanging(t) THEN voided ELSE voided \cup {t}
  /\ UNCHANGED <<autocommit, work, gone, active, audits, spent>>
  /\ UNCHANGED <<minted, listed, scope, issued, noted, handed>>

KeyStep(w) ==
  \/ LoadKey(w) \/ Hand(w) \/ ReadToken(w) \/ SpendToken(w) \/ NoteKey(w) \/ FindKey(w)
  \/ \E k \in Keys : CreateKey(w, k)
  \/ \E outcome \in {"done", "fault", "lost"} : ListKey(w, outcome)
  \/ \E t \in Tokens : CreateToken(w, t)
===============================================================================
