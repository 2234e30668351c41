-------------------------- MODULE MCTranscriptIngest --------------------------
(* The instances of TranscriptIngest that TLC checks: three rows that are   *)
(* messages, and a row the recorder ignores.                                 *)
EXTENDS TranscriptIngest, TLC

CONSTANTS a, b, c, x, ka, kb, kc

MCKeys == {ka, kb, kc}
Messages == {a, b, c}
Rows == {a, b, c, x}
MessageKey == a :> ka @@ b :> kb @@ c :> kc
RowKey == MessageKey @@ x :> NoKey
HookSymmetry == Permutations(Hooks)
===============================================================================
