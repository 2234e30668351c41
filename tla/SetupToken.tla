------------------------------ MODULE SetupToken ------------------------------
(***************************************************************************)
(* What setup tokens promise: a token is spent once or is void, and not    *)
(* both; only a token that was spent is worth a key; it is worth one at    *)
(* most, and a key comes from one token at most.  None of it is ever taken *)
(* back.                                                                   *)
(***************************************************************************)
CONSTANTS Tokens, Keys

VARIABLES
  spent,   \* tokens that were exchanged
  void,    \* tokens that were revoked, or ran out, unspent
  worth    \* <<t, k>>: key k was minted for token t

Init == spent = {} /\ void = {} /\ worth = {}

Spend(t) ==
  /\ t \notin spent \cup void
  /\ spent' = spent \cup {t}
  /\ UNCHANGED <<void, worth>>

Void(t) ==
  /\ t \notin spent \cup void
  /\ void' = void \cup {t}
  /\ UNCHANGED <<spent, worth>>

Mint(t, k) ==
  /\ t \in spent
  /\ \A l \in Keys : <<t, l>> \notin worth
  /\ \A u \in Tokens : <<u, k>> \notin worth
  /\ worth' = worth \cup {<<t, k>>}
  /\ UNCHANGED <<spent, void>>

Next == \E t \in Tokens : Spend(t) \/ Void(t) \/ \E k \in Keys : Mint(t, k)

Spec == Init /\ [][Next]_<<spent, void, worth>>
===============================================================================
