---------------------------- MODULE MCConditions ----------------------------
(***************************************************************************)
(* Definitions for TLC: every expression of up to five tokens over two     *)
(* clauses and a malformed one, the other conditions well and badly        *)
(* formed, and every input over two keys and two values.                   *)
(***************************************************************************)
EXTENDS Conditions, SequencesExt

CONSTANTS j, k, MaxTokens

MCKeys    == {j, k}
MCShown   == [yes |-> "yes", no |-> "no"]
MCClauses == {[key |-> j, expected |-> "yes"], [key |-> k, expected |-> "yes"]}
MCNames   == {"always", "input_exists", "input_equals"}

MCTexts ==
    {t \in SeqOf(Tokens, MaxTokens) :
        \A i \in 2..Len(t) : {t[i - 1], t[i]} \cap {Or, And} # {}}

MCConditions ==
    [name : {"", "unknown"}, args : {<<>>}]
    \cup [name : {":", "always", "input_exists"}, args : {<<>>, <<j>>}]
    \cup [name : {"input_equals"}, args : MCTexts]
=============================================================================
