----------------------------- MODULE Conditions -----------------------------
(***************************************************************************)
(* adapters/conditions/registry/evaluator.go: one evaluation of a          *)
(* condition, with the conditions that ship with it.  input_equals takes   *)
(* an expression: clauses joined by || and by &&, which binds tighter,     *)
(* decided from left to right and no further than needed.                  *)
(*                                                                         *)
(* A text is the sequence of its tokens: clauses and the two operators.    *)
(* Between two operators, and beside one at an end, there may be nothing.  *)
(* A condition that is blank has the name "" and no text; one with nothing *)
(* before its colon has the name ":".                                      *)
(***************************************************************************)
EXTENDS Integers, Sequences

CONSTANTS
    Registered,     \* the names of the shipped conditions registered
    Keys,           \* keys of the input
    Shown,          \* how fmt's %v shows each value the input may hold
    Clauses,        \* records: key and expected text
    Malformed,      \* a clause with no = or with no key
    Or, And,        \* the operators
    Conditions,     \* what is evaluated: a name and the tokens behind it
    NoObject        \* an input that is not a JSON object

Tokens == Clauses \cup {Malformed, Or, And}
Values == DOMAIN Shown

Operands(c) == IF c.name = "input_equals" THEN Tokens ELSE Keys

ASSUME NamesAssumption ==
    /\ Registered \subseteq {"always", "input_exists", "input_equals"}
    /\ \A c \in Conditions : c.name = "" => c.args = <<>>

ASSUME ConditionsAssumption ==
    /\ \A c \in Clauses : c.key \in Keys
    /\ Malformed \notin Clauses \cup {Or, And}
    /\ {Or, And} \cap Clauses = {} /\ Or # And
    /\ \A c \in Conditions :
         /\ c.args \in Seq(Operands(c))
         /\ c.name # "input_equals" => Len(c.args) <= 1
         \* Two clauses with no operator between them are one.
         /\ c.name = "input_equals" => \A i \in 2..Len(c.args) :
                {c.args[i - 1], c.args[i]} \cap {Or, And} # {}

VARIABLES
    condition, input,
    pc,
    alternative,    \* the operand of || in hand, a part of the text
    clause,         \* the operand of && in hand, a part of the alternative
    result

vars == <<condition, input, pc, alternative, clause, result>>

-----------------------------------------------------------------------------
(* A part of a text is named by the places of its first and its last       *)
(* token; the last of a blank one is the place before its first.           *)
text == condition.args

Blank(p) == p.last < p.first

(* The parts of the text from lo to hi between the occurrences of op: one  *)
(* begins at lo, and the one after p two places behind the end of p.       *)
Parts(op, lo, hi) ==
    {p \in [first : lo..(hi + 1), last : (lo - 1)..hi] :
        /\ p.first <= p.last + 1
        /\ p.first = lo \/ text[p.first - 1] = op
        /\ p.last = hi \/ text[p.last + 1] = op
        /\ \A m \in p.first..p.last : text[m] # op}

OrParts == Parts(Or, 1, Len(text))
AndParts == Parts(And, alternative.first, alternative.last)

NoPart == [first |-> 1, last |-> 0]

(* The input: an object, absent (read as the empty object), or no object.  *)
Objects == UNION {[ks -> Values] : ks \in SUBSET Keys}

TypeOK ==
    /\ condition \in Conditions
    /\ input \in Objects \cup {NoObject}
    /\ pc \in {"begin", "alternative", "clause", "end"}
    /\ result \in {"none", "true", "false", "error"}
    /\ pc = "end" <=> result # "none"
    /\ pc \in {"alternative", "clause"} => alternative \in OrParts
    /\ pc = "clause" => clause \in AndParts

Init ==
    /\ condition \in Conditions
    /\ input \in Objects \cup {NoObject}
    /\ pc = "begin"
    /\ alternative = NoPart
    /\ clause = NoPart
    /\ result = "none"

(* A clause that is blank, or is malformed.                                *)
Wrong(p) == \A m \in p.first..p.last : text[m] = Malformed

Ends(r) ==
    /\ result' = r
    /\ pc' = "end"
    /\ UNCHANGED <<condition, input, alternative, clause>>

TryAlternative(i) ==
    \E p \in OrParts :
        /\ p.first = i
        /\ alternative' = p
        /\ pc' = "alternative"
        /\ UNCHANGED <<condition, input, clause, result>>

TryClause(i) ==
    \E p \in AndParts :
        /\ p.first = i
        /\ clause' = p
        /\ pc' = "clause"
        /\ UNCHANGED <<condition, input, alternative, result>>

-----------------------------------------------------------------------------
(* Evaluate, and the head of each condition function.                      *)

Always ==
    /\ condition.name = "always"
    /\ Ends(IF text = <<>> THEN "true" ELSE "error")

InputExists ==
    /\ condition.name = "input_exists"
    /\ Ends(IF text = <<>> \/ input = NoObject THEN "error"
            ELSE IF text[1] \in DOMAIN input THEN "true" ELSE "false")

(* Mutant: the whole expression is checked first. *)
InputEqualsStrict ==
    /\ condition.name = "input_equals"
    /\ IF input = NoObject \/ \E p \in OrParts : Blank(p)
       THEN Ends("error")
       ELSE TryAlternative(1)

(* Mutant: || binds tighter than &&. *)
InputEqualsAndFirst ==
    /\ condition.name = "input_equals"
    /\ IF text = <<>> \/ input = NoObject THEN Ends("error")
       ELSE \E p \in Parts(And, 1, Len(text)) :
              /\ p.first = 1
              /\ alternative' = p
              /\ pc' = "alternative"
              /\ UNCHANGED <<condition, input, clause, result>>

InputEquals ==
    /\ condition.name = "input_equals"
    /\ IF text = <<>> \/ input = NoObject THEN Ends("error")
       ELSE TryAlternative(1)

Evaluate ==
    /\ pc = "begin"
    /\ \/ condition.name = "" /\ Ends("true")
       \/ condition.name \notin Registered \cup {""} /\ Ends("error")
       \/ /\ condition.name \in Registered
          /\ Always \/ InputExists \/ InputEquals

-----------------------------------------------------------------------------
(* evalInputEqualsExpr: the loop over the operands of ||, and in it the    *)
(* loop over the operands of &&.                                           *)

NextAlternative ==
    /\ pc = "alternative"
    /\ IF Blank(alternative) THEN Ends("error")
       ELSE TryClause(alternative.first)

Holds(c) ==
    c.key \in DOMAIN input /\ Shown[input[c.key]] = c.expected

(* Mutant: one operand of && that holds is enough. *)
ClauseHoldsAtOnce ==
    /\ pc = "clause"
    /\ ~Wrong(clause)
    /\ Holds(text[clause.first])
    /\ Ends("true")

(* evalInputEqualsClause, and what the loops make of what it returns.      *)
ClauseFails ==
    /\ pc = "clause"
    /\ Wrong(clause)
    /\ Ends("error")

ClauseHolds ==
    /\ pc = "clause"
    /\ ~Wrong(clause)
    /\ Holds(text[clause.first])
    /\ IF clause.last = alternative.last THEN Ends("true")
       ELSE TryClause(clause.last + 2)

ClauseDoesNotHold ==
    /\ pc = "clause"
    /\ ~Wrong(clause)
    /\ ~Holds(text[clause.first])
    /\ IF alternative.last = Len(text) THEN Ends("false")
       ELSE TryAlternative(alternative.last + 2)

Next ==
    \/ Evaluate \/ NextAlternative
    \/ ClauseFails \/ ClauseHolds \/ ClauseDoesNotHold

Spec == Init /\ [][Next]_vars

-----------------------------------------------------------------------------
(* Properties.  They speak of the text up to a place n; to its end, n is   *)
(* the length of the text.                                                 *)

WellFormed(n) ==
    /\ n % 2 = 1
    /\ \A i \in 1..n :
         IF i % 2 = 1 THEN text[i] \in Clauses ELSE text[i] \in {Or, And}

(* From i to j there are clauses that hold and && between them.            *)
AllHold(i, j) ==
    \A m \in i..j : IF (m - i) % 2 = 0
                    THEN text[m] \in Clauses /\ Holds(text[m])
                    ELSE text[m] = And

EndsAlternative(j) == j = Len(text) \/ text[j + 1] = Or

SatisfiedFrom(i, j) ==
    /\ i <= j
    /\ i = 1 \/ text[i - 1] = Or
    /\ EndsAlternative(j)
    /\ (j - i) % 2 = 0
    /\ AllHold(i, j)

(* What an expression means: some stretch of it, from one || to the next,  *)
(* consists of clauses that hold and of &&.                                *)
Satisfied(n) == \E i, j \in 1..n : SatisfiedFrom(i, j)

Answered ==
    /\ pc = "end"
    /\ condition.name = "input_equals" /\ "input_equals" \in Registered
    /\ input # NoObject

(* An expression is true only when one of its alternatives is satisfied,   *)
(* malformed parts or not, and a well-formed one is true exactly then and  *)
(* never an error: precedence of && over || (evaluator.go 115), and a      *)
(* result that does not depend on the order of the operands.               *)
MeansWhatItSays ==
    Answered =>
        /\ result = "true" => Satisfied(Len(text))
        /\ WellFormed(Len(text)) =>
              result = IF Satisfied(Len(text)) THEN "true" ELSE "false"

(* "First OR expression that is true wins, even if the expression is       *)
(* malformed on later parts" (evaluator.go 124).                           *)
FirstTrueWins ==
    Answered =>
        \A n \in 1..Len(text) :
            EndsAlternative(n) /\ WellFormed(n) /\ Satisfied(n)
            => result = "true"

=============================================================================
