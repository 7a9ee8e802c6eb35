----------------------------- MODULE MCAssistant ----------------------------
(***************************************************************************)
(* Definitions for TLC: two assistants, started in the same second or not; *)
(* two editions of one machine and a machine of another name.              *)
(***************************************************************************)
EXTENDS Assistant, TLC

CONSTANTS m1, m2, m3

MCBase == m1 :> "door" @@ m2 :> "door" @@ m3 :> "gate"
=============================================================================
