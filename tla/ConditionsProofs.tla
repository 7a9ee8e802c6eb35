-------------------------- MODULE ConditionsProofs --------------------------
(***************************************************************************)
(* What an input_equals expression means, for expressions of any length    *)
(* over any clauses, and any input: the evaluation from left to right      *)
(* gives it, and comes to an end.                                          *)
(***************************************************************************)
EXTENDS Conditions, WellFoundedInduction, TLAPS

Trying == pc \in {"alternative", "clause"}

(* An expression is in hand, and the alternatives behind the one in hand   *)
(* are not satisfied.                                                      *)
NoneBefore ==
    Trying =>
        /\ condition.name = "input_equals"
        /\ "input_equals" \in Registered
        /\ input # NoObject
        /\ \A i, j \in 1..Len(text) :
             SatisfiedFrom(i, j) => alternative.first <= i

(* The operands of && behind the one in hand hold.                         *)
HeldSoFar ==
    pc = "clause" =>
        /\ ~Blank(alternative)
        /\ (clause.first - alternative.first) % 2 = 0
        /\ AllHold(alternative.first, clause.first - 1)

(* What each result says of the expression.                                *)
ResultIsRight ==
    Answered =>
        /\ result = "true" => Satisfied(Len(text))
        /\ result = "false" => ~Satisfied(Len(text))
        /\ result = "error" =>
              /\ ~WellFormed(Len(text))
              /\ \A n \in 1..Len(text) :
                   EndsAlternative(n) /\ WellFormed(n) => ~Satisfied(n)

Inv == TypeOK /\ NoneBefore /\ HeldSoFar /\ ResultIsRight

(* Wherever the evaluation goes on, there is a part to go on with.         *)
PartAhead ==
    /\ pc = "begin" => \E p \in OrParts : p.first = 1
    /\ pc = "alternative" /\ ~Blank(alternative)
         => \E p \in AndParts : p.first = alternative.first
    /\ pc = "clause" /\ clause.last # alternative.last
         => \E p \in AndParts : p.first = clause.last + 2
    /\ pc = "clause" /\ alternative.last # Len(text)
         => \E p \in OrParts : p.first = alternative.last + 2

(* The place of the part in hand, an alternative before its clauses.       *)
Reached ==
    IF pc = "clause" THEN 2 * clause.first + 1 ELSE 2 * alternative.first

(* A step ends the evaluation or takes it further on in the text.          *)
Advances == Trying => pc' = "end" \/ (Trying' /\ Reached < Reached')

-----------------------------------------------------------------------------
(* The bounds of a part, and what is in it and around it.                  *)
LEMMA PartFacts ==
    ASSUME NEW op, NEW lo \in Int, NEW hi \in Int, NEW p \in Parts(op, lo, hi)
    PROVE  /\ p.first \in Int /\ p.last \in Int
           /\ lo <= p.first /\ p.first <= p.last + 1 /\ p.last <= hi
           /\ p.first = lo \/ text[p.first - 1] = op
           /\ p.last = hi \/ text[p.last + 1] = op
           /\ \A m \in p.first..p.last : text[m] # op
BY DEF Parts

(* A text is a sequence, of tokens when it is an expression, and where no  *)
(* two of them that are no operators are side by side.                     *)
LEMMA TextFacts ==
    ASSUME TypeOK
    PROVE  /\ Len(text) \in Nat
           /\ DOMAIN text = 1..Len(text)
           /\ text = <<>> <=> Len(text) = 0
           /\ condition.name = "input_equals" =>
                /\ \A m \in 1..Len(text) : text[m] \in Tokens
                /\ \A m \in 2..Len(text) :
                     text[m - 1] \in {Or, And} \/ text[m] \in {Or, And}
<1>1. text \in Seq(Operands(condition))
  BY ConditionsAssumption DEF TypeOK, text
<1>2. CASE condition.name = "input_equals"
  <2>1. text \in Seq(Tokens)
    BY <1>1, <1>2 DEF Operands
  <2>2. \A m \in 2..Len(text) : {text[m - 1], text[m]} \cap {Or, And} # {}
    BY <1>2, ConditionsAssumption DEF TypeOK, text
  <2> QED BY <2>1, <2>2
<1>3. CASE condition.name # "input_equals"
  BY <1>1, <1>3
<1> QED BY <1>2, <1>3

(* Between lo and hi, a part begins at lo and behind each operator.        *)
LEMMA PartFrom ==
    ASSUME NEW op, NEW lo \in Nat, NEW hi \in Nat,
           NEW i \in lo..(hi + 1), i = lo \/ text[i - 1] = op
    PROVE  \E p \in Parts(op, lo, hi) : p.first = i
<1> DEFINE T == {m \in i..hi : text[m] = op}
<1>1. CASE T = {}
  <2> DEFINE p == [first |-> i, last |-> hi]
  <2>1. p \in Parts(op, lo, hi) BY <1>1 DEF Parts
  <2> QED BY <2>1
<1>2. CASE T # {}
  <2>1. T \subseteq Nat OBVIOUS
  <2> DEFINE R == {ss \in Nat \X Nat : ss[1] < ss[2]}
  <2>0. IsWellFoundedOn(R, Nat)
    BY NatLessThanWellFounded DEF OpToRel
  <2>2. PICK x \in T : \A y \in T : ~(<<y, x>> \in R)
    <3> HIDE DEF T, R
    <3> QED BY <1>2, <2>0, <2>1, WFMin
  <2>3. \A y \in T : ~(y < x)
    <3> SUFFICES ASSUME NEW y \in T PROVE ~(y < x) OBVIOUS
    <3>1. y \in Nat /\ x \in Nat BY <2>1
    <3>2. <<y, x>> \notin R BY <2>2
    <3> QED BY <3>1, <3>2
  <2> DEFINE p == [first |-> i, last |-> x - 1]
  <2>4. x \in i..hi /\ text[x] = op OBVIOUS
  <2>5. \A m \in i..(x - 1) : text[m] # op
    BY <2>3, <2>4
  <2>6. p \in [first : lo..(hi + 1), last : (lo - 1)..hi]
    BY <2>4
  <2>7. p \in Parts(op, lo, hi)
    <3>1. p.first = i /\ p.last = x - 1 OBVIOUS
    <3> HIDE DEF T, p
    <3> QED BY <2>4, <2>5, <2>6, <3>1 DEF Parts
  <2> QED BY <2>7
<1> QED BY <1>1, <1>2

(* One begins at lo.                                                       *)
LEMMA FirstPart ==
    ASSUME NEW op, NEW lo \in Nat, NEW hi \in Nat, lo \in lo..(hi + 1)
    PROVE  \E p \in Parts(op, lo, hi) : p.first = lo
<1>1. \A i \in lo..(hi + 1) :
        i = lo => \E p \in Parts(op, lo, hi) : p.first = i
  BY PartFrom
<1> QED BY <1>1

-----------------------------------------------------------------------------
(* The alternative in hand contains no ||, and ends where one begins.      *)
LEMMA AlternativeFacts ==
    ASSUME TypeOK, Trying
    PROVE  /\ alternative.first \in Nat \ {0} /\ alternative.last \in Nat
           /\ alternative.first <= alternative.last + 1
           /\ alternative.last <= Len(text)
           /\ alternative.first = 1 \/ text[alternative.first - 1] = Or
           /\ alternative.last = Len(text) \/ text[alternative.last + 1] = Or
           /\ \A m \in alternative.first..alternative.last : text[m] # Or
<1>1. Len(text) \in Nat BY TextFacts
<1>2. alternative \in Parts(Or, 1, Len(text)) BY DEF TypeOK, Trying, OrParts
<1> QED BY <1>1, <1>2, PartFacts

(* The clause in hand is a part of the alternative, of one token at most.  *)
LEMMA ClauseFacts ==
    ASSUME TypeOK, NoneBefore, pc = "clause"
    PROVE  /\ clause.first \in Nat \ {0} /\ clause.last \in Nat
           /\ alternative.first <= clause.first
           /\ clause.first <= clause.last + 1
           /\ clause.last <= alternative.last
           /\ clause.last <= clause.first
           /\ \/ clause.first = alternative.first
              \/ text[clause.first - 1] = And
           /\ clause.last = alternative.last \/ text[clause.last + 1] = And
           /\ \A m \in clause.first..clause.last :
                /\ text[m] \in Clauses \cup {Malformed}
<1>1. Trying BY DEF Trying
<1>2. clause \in Parts(And, alternative.first, alternative.last)
  BY DEF TypeOK, AndParts
<1>3. /\ clause.first \in Int /\ clause.last \in Int
      /\ alternative.first <= clause.first
      /\ clause.first <= clause.last + 1
      /\ clause.last <= alternative.last
      /\ clause.first = alternative.first \/ text[clause.first - 1] = And
      /\ clause.last = alternative.last \/ text[clause.last + 1] = And
      /\ \A m \in clause.first..clause.last : text[m] # And
  BY <1>1, <1>2, AlternativeFacts, PartFacts
<1>4. \A m \in clause.first..clause.last : text[m] \notin {Or, And}
  BY <1>1, <1>3, AlternativeFacts
<1>5. clause.last <= clause.first
  <2>1. SUFFICES ASSUME clause.first < clause.last PROVE FALSE
    BY <1>3
  <2>2. clause.first + 1 \in 2..Len(text)
    BY <1>1, <1>3, <2>1, AlternativeFacts, TextFacts
  <2>3. \/ text[clause.first] \in {Or, And}
        \/ text[clause.first + 1] \in {Or, And}
    <3>1. (clause.first + 1) - 1 = clause.first BY <1>3
    <3> QED BY <1>1, <2>2, <3>1, TextFacts DEF NoneBefore
  <2> QED BY <1>3, <1>4, <2>1, <2>3
<1>6. \A m \in clause.first..clause.last :
        /\ text[m] \in Clauses \cup {Malformed}
  <2> SUFFICES ASSUME NEW m \in clause.first..clause.last
               PROVE  text[m] \in Clauses \cup {Malformed}
    OBVIOUS
  <2>1. m \in 1..Len(text)
    BY <1>1, <1>3, AlternativeFacts, TextFacts
  <2>2. text[m] \in Tokens BY <1>1, <2>1, TextFacts DEF NoneBefore
  <2> QED BY <1>4, <2>2 DEF Tokens
<1> QED BY <1>1, <1>3, <1>5, <1>6, AlternativeFacts

(* A clause that is not wrong is one token, and no malformed one.          *)
LEMMA RightClause ==
    ASSUME TypeOK, NoneBefore, pc = "clause", ~Wrong(clause)
    PROVE  clause.last = clause.first /\ text[clause.first] \in Clauses
<1>1. PICK m \in clause.first..clause.last : text[m] # Malformed
  BY DEF Wrong
<1>2. m = clause.first /\ clause.last = clause.first BY <1>1, ClauseFacts
<1>3. text[clause.first] \in Clauses \cup {Malformed}
  BY <1>2, ClauseFacts
<1> QED BY <1>1, <1>2, <1>3

(* Up to a place n where a well-formed expression ends, odd places are     *)
(* clauses and even ones operators, and n itself is a clause.              *)
LEMMA WellFormedFacts ==
    ASSUME NEW n \in Nat, WellFormed(n)
    PROVE  /\ n >= 1 /\ text[n] \in Clauses
           /\ \A i \in 1..n : text[i] \in {Or, And} <=> i % 2 = 0
           /\ \A i \in 1..n : i % 2 = 1 <=> text[i] \in Clauses
           /\ \A i \in 1..n : text[i] # Malformed
<1>1. n >= 1 /\ n % 2 = 1 BY DEF WellFormed
<1>2. \A i \in 1..n : i % 2 = 1 => text[i] \in Clauses BY DEF WellFormed
<1>3. \A i \in 1..n : i % 2 # 1 => text[i] \in {Or, And} BY DEF WellFormed
<1>4. \A i \in 1..n : i % 2 = 1 \/ i % 2 = 0 OBVIOUS
<1>5. /\ Malformed \notin Clauses \cup {Or, And}
      /\ {Or, And} \cap Clauses = {}
  BY ConditionsAssumption
<1> QED BY <1>1, <1>2, <1>3, <1>4, <1>5

(* No clause and no alternative in hand is wrong before the end of a       *)
(* well-formed expression.                                                 *)
LEMMA NothingWrongWithin ==
    ASSUME TypeOK, NoneBefore, Trying,
           NEW n \in 1..Len(text), WellFormed(n), EndsAlternative(n),
           alternative.first <= n
    PROVE  /\ ~Blank(alternative)
           /\ pc = "clause" => ~Wrong(clause)
<1>1. alternative.first % 2 = 1
  <2>1. CASE alternative.first = 1 BY <2>1
  <2>2. CASE alternative.first # 1
    <3>1. alternative.first - 1 \in 1..n /\ text[alternative.first - 1] = Or
      BY <2>2, AlternativeFacts, TextFacts
    <3>2. (alternative.first - 1) % 2 = 0
      BY <3>1, TextFacts, WellFormedFacts
    <3> QED BY <3>2, AlternativeFacts
  <2> QED BY <2>1, <2>2
<1>2. alternative.first \in 1..n /\ text[alternative.first] \in Clauses
  BY <1>1, AlternativeFacts, TextFacts, WellFormedFacts
<1>3. ~Blank(alternative)
  <2>1. SUFFICES ASSUME alternative.last = alternative.first - 1 PROVE FALSE
    BY AlternativeFacts DEF Blank
  <2>2. alternative.last + 1 = alternative.first BY <2>1, AlternativeFacts
  <2>3. alternative.last # Len(text)
    BY <1>2, <2>2, AlternativeFacts, TextFacts
  <2>4. text[alternative.first] = Or BY <2>2, <2>3, AlternativeFacts
  <2> QED BY <1>2, <2>4, ConditionsAssumption
<1>4. ASSUME pc = "clause" PROVE ~Wrong(clause)
  <2>1. alternative.last <= n
    <3>1. SUFFICES ASSUME n < alternative.last PROVE FALSE
      BY AlternativeFacts, TextFacts
    <3>2. n + 1 \in alternative.first..alternative.last
      BY <3>1, AlternativeFacts, TextFacts
    <3>3. n # Len(text)
      <4>1. /\ n \in Int /\ alternative.last \in Int /\ Len(text) \in Int
            /\ alternative.last <= Len(text)
        BY AlternativeFacts, TextFacts
      <4> QED BY <3>1, <4>1
    <3> QED BY <3>2, <3>3, AlternativeFacts DEF EndsAlternative
  <2>2. clause.first \in 1..n
    <3>1. SUFFICES ASSUME clause.first = n + 1 PROVE FALSE
      BY <1>4, <2>1, ClauseFacts, AlternativeFacts, TextFacts
    <3>2. clause.first - 1 = n /\ clause.first # alternative.first
      BY <1>2, <3>1, TextFacts
    <3>3. text[n] = And BY <1>4, <3>2, ClauseFacts
    <3>4. text[n] \in Clauses BY TextFacts, WellFormedFacts
    <3> QED BY <3>3, <3>4, ConditionsAssumption
  <2>3. clause.first % 2 = 1
    <3>1. CASE clause.first = alternative.first BY <1>1, <3>1
    <3>2. CASE clause.first # alternative.first
      <4>1. clause.first - 1 \in 1..n
        BY <1>2, <1>4, <2>2, <3>2, ClauseFacts, TextFacts
      <4>2. text[clause.first - 1] = And BY <1>4, <3>2, ClauseFacts
      <4>3. (clause.first - 1) % 2 = 0
        BY <4>1, <4>2, TextFacts, WellFormedFacts
      <4> QED BY <2>2, <4>3
    <3> QED BY <3>1, <3>2
  <2>4. text[clause.first] \in Clauses
    BY <2>2, <2>3, TextFacts, WellFormedFacts
  <2>5. clause.first <= clause.last
    <3>1. SUFFICES ASSUME clause.last = clause.first - 1 PROVE FALSE
      BY <1>4, ClauseFacts
    <3>2. clause.last + 1 = clause.first BY <1>4, <3>1, ClauseFacts
    <3>3. clause.last = alternative.last
      BY <1>4, <2>4, <3>2, ClauseFacts, ConditionsAssumption
    <3>4. text[clause.first] = Or
      BY <1>4, <2>2, <3>2, <3>3, AlternativeFacts, TextFacts
    <3> QED BY <2>4, <3>4, ConditionsAssumption
  <2>6. clause.first \in clause.first..clause.last
    BY <1>4, <2>5, ClauseFacts
  <2> QED BY <2>4, <2>6, ConditionsAssumption DEF Wrong
<1> QED BY <1>3, <1>4

(* An alternative with an operand that does not hold is not satisfied, nor *)
(* is any before it: a satisfied one begins behind it.                     *)
LEMMA NotThisOne ==
    ASSUME TypeOK, NoneBefore, HeldSoFar,
           pc = "clause", ~Wrong(clause), ~Holds(text[clause.first]),
           NEW i \in 1..Len(text), NEW j \in 1..Len(text),
           SatisfiedFrom(i, j)
    PROVE  alternative.last + 2 <= i
<1>1. Trying BY DEF Trying
<1>2. alternative.first <= i BY <1>1 DEF NoneBefore
<1>3. i # alternative.first
  <2>1. SUFFICES ASSUME i = alternative.first PROVE FALSE OBVIOUS
  <2>2. alternative.last <= j
    <3>1. SUFFICES ASSUME j < alternative.last PROVE FALSE
      BY <1>1, AlternativeFacts
    <3>2. j + 1 \in alternative.first..alternative.last
      BY <1>1, <2>1, <3>1, AlternativeFacts DEF SatisfiedFrom
    <3>3. j # Len(text)
      <4>1. /\ j \in Int /\ alternative.last \in Int /\ Len(text) \in Int
            /\ alternative.last <= Len(text)
        BY <1>1, AlternativeFacts, TextFacts
      <4> QED BY <3>1, <4>1
    <3> QED BY <1>1, <3>2, <3>3, AlternativeFacts
            DEF SatisfiedFrom, EndsAlternative
  <2>3. clause.first \in i..j
    BY <1>1, <2>1, <2>2, RightClause, ClauseFacts, AlternativeFacts
  <2>4. (clause.first - i) % 2 = 0 BY <2>1 DEF HeldSoFar
  <2> QED BY <2>3, <2>4 DEF SatisfiedFrom, AllHold
<1>4. i # alternative.last + 1
  <2>1. SUFFICES ASSUME i = alternative.last + 1 PROVE FALSE OBVIOUS
  <2>2. i - 1 \in alternative.first..alternative.last
    BY <1>1, <1>2, <1>3, <2>1, AlternativeFacts
  <2>3. text[i - 1] = Or
    BY <1>1, <2>2, AlternativeFacts DEF SatisfiedFrom
  <2> QED BY <1>1, <2>2, <2>3, AlternativeFacts
<1>5. i \notin (alternative.first + 1)..alternative.last
  <2>1. SUFFICES ASSUME i \in (alternative.first + 1)..alternative.last
                 PROVE  FALSE
    OBVIOUS
  <2>2. i - 1 \in alternative.first..alternative.last
    BY <1>1, <2>1, AlternativeFacts
  <2>3. text[i - 1] = Or
    BY <1>1, <2>1, AlternativeFacts DEF SatisfiedFrom
  <2> QED BY <1>1, <2>2, <2>3, AlternativeFacts
<1> QED BY <1>1, <1>2, <1>3, <1>4, <1>5, AlternativeFacts

-----------------------------------------------------------------------------
(* The text and what holds of it stay as they are.                         *)
LEMMA SameText ==
    ASSUME [Next]_vars
    PROVE  /\ condition' = condition /\ input' = input /\ text' = text
           /\ \A c : Holds(c)' <=> Holds(c)
<1>1. condition' = condition /\ input' = input
  BY DEF Next, vars, Evaluate, Always, InputExists, InputEquals,
     NextAlternative, ClauseFails, ClauseHolds, ClauseDoesNotHold, Ends,
     TryAlternative, TryClause
<1> QED BY <1>1 DEF text, Holds

(* A step keeps the types, and what is in hand a part of the text.         *)
LEMMA TypeStep ==
    ASSUME TypeOK, [Next]_vars
    PROVE  TypeOK'
<1>1. condition' = condition /\ input' = input /\ text' = text
  BY SameText
<1>2. OrParts' = OrParts BY <1>1 DEF OrParts, Parts
<1>3. ASSUME NEW r \in {"true", "false", "error"}, Ends(r) PROVE TypeOK'
  BY <1>1, <1>3 DEF TypeOK, Ends
<1>4. ASSUME NEW i, TryAlternative(i), pc # "end" PROVE TypeOK'
  BY <1>1, <1>2, <1>4 DEF TypeOK, TryAlternative
<1>5. ASSUME NEW i, TryClause(i), pc \in {"alternative", "clause"}
      PROVE  TypeOK'
  <2>1. AndParts' = AndParts BY <1>1, <1>5 DEF AndParts, Parts, TryClause
  <2> QED BY <1>1, <1>2, <1>5, <2>1 DEF TypeOK, TryClause
<1>6. CASE Evaluate
  BY <1>3, <1>4, <1>6 DEF Evaluate, Always, InputExists, InputEquals
<1>7. CASE NextAlternative
  BY <1>3, <1>5, <1>7 DEF NextAlternative
<1>8. CASE ClauseFails
  BY <1>3, <1>8 DEF ClauseFails
<1>9. CASE ClauseHolds
  BY <1>3, <1>5, <1>9 DEF ClauseHolds
<1>10. CASE ClauseDoesNotHold
  BY <1>3, <1>4, <1>10 DEF ClauseDoesNotHold
<1>11. CASE UNCHANGED vars
  BY <1>1, <1>2, <1>11 DEF vars, TypeOK, AndParts, Parts
<1> QED BY <1>6, <1>7, <1>8, <1>9, <1>10, <1>11 DEF Next

(* Every evaluation is of one condition, with types and parts as they      *)
(* should be: the part of the text in hand is an operand of || and, in it, *)
(* an operand of && (evaluator.go 116, 133).                               *)
THEOREM TypeCorrect == Spec => []TypeOK
<1>1. Init => TypeOK BY DEF Init, TypeOK
<1>2. TypeOK /\ [Next]_vars => TypeOK' BY TypeStep
<1> QED BY <1>1, <1>2, PTL DEF Spec

(* What is satisfied stays satisfied, as long as the text is the same.     *)
LEMMA SameMeaning ==
    ASSUME [Next]_vars
    PROVE  /\ \A i, j : SatisfiedFrom(i, j)' <=> SatisfiedFrom(i, j)
           /\ \A n : Satisfied(n)' <=> Satisfied(n)
           /\ \A n : WellFormed(n)' <=> WellFormed(n)
           /\ \A n : EndsAlternative(n)' <=> EndsAlternative(n)
           /\ \A i, j : AllHold(i, j)' <=> AllHold(i, j)
<1>1. text' = text /\ input' = input /\ condition' = condition BY SameText
<1>2. \A i, j : AllHold(i, j)' <=> AllHold(i, j)
  BY <1>1 DEF AllHold, Holds
<1>3. \A n : EndsAlternative(n)' <=> EndsAlternative(n)
  BY <1>1 DEF EndsAlternative
<1>4. \A i, j : SatisfiedFrom(i, j)' <=> SatisfiedFrom(i, j)
  BY <1>1, <1>2, <1>3 DEF SatisfiedFrom
<1>5. \A n : Satisfied(n)' <=> Satisfied(n) BY <1>4 DEF Satisfied
<1>6. \A n : WellFormed(n)' <=> WellFormed(n) BY <1>1 DEF WellFormed
<1> QED BY <1>2, <1>3, <1>4, <1>5, <1>6

(* The next alternative is tried when none before it is satisfied.         *)
LEMMA NoneBeforeStep ==
    ASSUME Inv, [Next]_vars
    PROVE  NoneBefore'
<1>1. text' = text /\ input' = input /\ condition' = condition BY SameText
<1>2. \A i, j : SatisfiedFrom(i, j)' <=> SatisfiedFrom(i, j) BY SameMeaning
<1>3. ASSUME NEW r, Ends(r) PROVE NoneBefore'
  BY <1>3 DEF Ends, NoneBefore, Trying
<1>4. ASSUME alternative' = alternative, Trying PROVE NoneBefore'
  BY <1>1, <1>2, <1>4 DEF Inv, NoneBefore
<1>5. ASSUME NEW k \in Int, TryAlternative(k),
             condition.name = "input_equals",
             "input_equals" \in Registered, input # NoObject,
             \A i, j \in 1..Len(text) : SatisfiedFrom(i, j) => k <= i
      PROVE  NoneBefore'
  <2>1. alternative'.first = k BY <1>5 DEF TryAlternative
  <2> QED BY <1>1, <1>2, <1>5, <2>1 DEF NoneBefore
<1>6. CASE Evaluate
  <2>1. CASE condition.name \in Registered /\ InputEquals
    <3>1. CASE TryAlternative(1) /\ input # NoObject
      BY <1>5, <2>1, <3>1, TextFacts DEF Inv, InputEquals
    <3> QED BY <1>3, <2>1, <3>1 DEF InputEquals
  <2> QED BY <1>3, <1>6, <2>1 DEF Evaluate, Always, InputExists
<1>7. CASE NextAlternative
  BY <1>3, <1>4, <1>7 DEF NextAlternative, TryClause, Trying
<1>8. CASE ClauseFails BY <1>3, <1>8 DEF ClauseFails
<1>9. CASE ClauseHolds
  BY <1>3, <1>4, <1>9 DEF ClauseHolds, TryClause, Trying
<1>10. CASE ClauseDoesNotHold
  <2>1. Trying BY <1>10 DEF ClauseDoesNotHold, Trying
  <2>2. \A i, j \in 1..Len(text) :
          SatisfiedFrom(i, j) => alternative.last + 2 <= i
    BY <1>10, NotThisOne DEF Inv, ClauseDoesNotHold
  <2>3. alternative.last + 2 \in Int
    BY <2>1, AlternativeFacts DEF Inv
  <2> QED BY <1>3, <1>5, <1>10, <2>1, <2>2, <2>3
          DEF ClauseDoesNotHold, Inv, NoneBefore
<1>11. CASE UNCHANGED vars
  BY <1>1, <1>2, <1>11 DEF vars, Inv, NoneBefore, Trying
<1> QED BY <1>6, <1>7, <1>8, <1>9, <1>10, <1>11 DEF Next

(* The next operand of && is tried when the one in hand holds.             *)
LEMMA HeldSoFarStep ==
    ASSUME Inv, [Next]_vars
    PROVE  HeldSoFar'
<1>1. text' = text /\ input' = input /\ condition' = condition BY SameText
<1>2. \A i, j : AllHold(i, j)' <=> AllHold(i, j) BY SameMeaning
<1>3. ASSUME pc' # "clause" PROVE HeldSoFar' BY <1>3 DEF HeldSoFar
<1>4. ASSUME NEW k \in Int, TryClause(k), Trying, ~Blank(alternative),
             (k - alternative.first) % 2 = 0,
             AllHold(alternative.first, k - 1)
      PROVE  HeldSoFar'
  <2>1. clause'.first = k /\ alternative' = alternative
    BY <1>4 DEF TryClause
  <2>2. ~Blank(alternative)' BY <1>4, <2>1 DEF Blank
  <2> QED BY <1>2, <1>4, <2>1, <2>2 DEF HeldSoFar
<1>5. CASE NextAlternative
  <2>1. CASE Blank(alternative)
    BY <1>3, <1>5, <2>1 DEF NextAlternative, Ends
  <2>2. CASE ~Blank(alternative)
    <3>1. Trying BY <1>5 DEF NextAlternative, Trying
    <3>2. alternative.first \in Int BY <3>1, AlternativeFacts DEF Inv
    <3>3. (alternative.first - alternative.first) % 2 = 0 BY <3>2
    <3>4. AllHold(alternative.first, alternative.first - 1)
      BY <3>2 DEF AllHold
    <3> QED BY <1>4, <1>5, <2>2, <3>1, <3>2, <3>3, <3>4
            DEF NextAlternative
  <2> QED BY <2>1, <2>2
<1>6. CASE ClauseHolds
  <2>1. pc = "clause" /\ ~Wrong(clause) /\ Holds(text[clause.first])
    BY <1>6 DEF ClauseHolds
  <2>2. CASE clause.last = alternative.last
    BY <1>3, <1>6, <2>2 DEF ClauseHolds, Ends
  <2>3. CASE clause.last # alternative.last
    <3>1. Trying BY <2>1 DEF Trying
    <3>2. /\ alternative.first \in Int /\ clause.first \in Int
          /\ alternative.first <= clause.first
          /\ clause.last = clause.first /\ text[clause.first] \in Clauses
          /\ text[clause.first + 1] = And
      BY <2>1, <2>3, <3>1, AlternativeFacts, ClauseFacts, RightClause
         DEF Inv
    <3>3. /\ (clause.first - alternative.first) % 2 = 0
          /\ AllHold(alternative.first, clause.first - 1)
          /\ ~Blank(alternative)
      BY <2>1 DEF Inv, HeldSoFar
    <3>4. (clause.first + 2 - alternative.first) % 2 = 0
      BY <3>2, <3>3
    <3>5. AllHold(alternative.first, clause.first + 1)
      <4>1. SUFFICES ASSUME NEW m \in alternative.first..(clause.first + 1)
                     PROVE  IF (m - alternative.first) % 2 = 0
                            THEN text[m] \in Clauses /\ Holds(text[m])
                            ELSE text[m] = And
        BY DEF AllHold
      <4>2. CASE m \in alternative.first..(clause.first - 1)
        BY <3>3, <4>2 DEF AllHold
      <4>3. CASE m = clause.first BY <2>1, <3>2, <3>3, <4>3
      <4>4. CASE m = clause.first + 1
        <5>1. (m - alternative.first) % 2 = 1 BY <3>2, <3>3, <4>4
        <5> QED BY <3>2, <4>4, <5>1
      <4> QED BY <3>2, <4>2, <4>3, <4>4
    <3>6. TryClause(clause.first + 2)
      BY <1>6, <2>3, <3>2 DEF ClauseHolds
    <3>7. (clause.first + 2) - 1 = clause.first + 1 BY <3>2
    <3> QED BY <1>4, <3>1, <3>2, <3>3, <3>4, <3>5, <3>6, <3>7
  <2> QED BY <2>2, <2>3
<1>7. CASE Evaluate \/ ClauseFails \/ ClauseDoesNotHold
  BY <1>3, <1>7 DEF Evaluate, Always, InputExists, InputEquals, ClauseFails,
     ClauseDoesNotHold, Ends, TryAlternative
<1>8. CASE UNCHANGED vars
  BY <1>2, <1>8 DEF vars, Inv, HeldSoFar, Blank
<1> QED BY <1>5, <1>6, <1>7, <1>8 DEF Next

(* An error comes only when no well-formed expression that ends before an  *)
(* || or with the text is satisfied, and the text is none.                 *)
LEMMA ErrorIsRight ==
    ASSUME Inv, Trying,
           Blank(alternative) \/ (pc = "clause" /\ Wrong(clause))
    PROVE  /\ ~WellFormed(Len(text))
           /\ \A n \in 1..Len(text) :
                EndsAlternative(n) /\ WellFormed(n) => ~Satisfied(n)
<1>1. ASSUME NEW n \in 1..Len(text), EndsAlternative(n), WellFormed(n)
      PROVE  n < alternative.first
  <2>1. SUFFICES ASSUME alternative.first <= n PROVE FALSE
    BY AlternativeFacts, TextFacts DEF Inv
  <2> QED BY <1>1, <2>1, NothingWrongWithin DEF Inv
<1>2. ASSUME NEW n \in 1..Len(text), EndsAlternative(n), WellFormed(n),
             Satisfied(n)
      PROVE  FALSE
  <2>1. PICK i, j \in 1..n : SatisfiedFrom(i, j) BY <1>2 DEF Satisfied
  <2>2. i \in 1..Len(text) /\ j \in 1..Len(text) /\ i <= n
    BY <2>1, TextFacts DEF Inv
  <2>3. alternative.first <= i BY <2>1, <2>2 DEF Inv, NoneBefore
  <2>4. n < alternative.first BY <1>1, <1>2
  <2> QED BY <2>2, <2>3, <2>4, AlternativeFacts, TextFacts DEF Inv
<1>3. ASSUME WellFormed(Len(text)) PROVE FALSE
  <2>1. Len(text) \in Nat /\ Len(text) >= 1 /\ text[Len(text)] \in Clauses
    BY <1>3, TextFacts, WellFormedFacts DEF Inv
  <2>2. Len(text) < alternative.first
    BY <1>1, <1>3, <2>1 DEF EndsAlternative
  <2>3. /\ alternative.first - 1 = Len(text)
        /\ text[alternative.first - 1] = Or
    BY <2>1, <2>2, AlternativeFacts DEF Inv
  <2> QED BY <2>1, <2>3, ConditionsAssumption
<1> QED BY <1>2, <1>3

(* Each result is right at the step that gives it.                         *)
LEMMA ResultStep ==
    ASSUME Inv, [Next]_vars
    PROVE  ResultIsRight'
<1>1. text' = text /\ input' = input /\ condition' = condition BY SameText
<1>2. /\ \A n : Satisfied(n)' <=> Satisfied(n)
      /\ \A n : WellFormed(n)' <=> WellFormed(n)
      /\ \A n : EndsAlternative(n)' <=> EndsAlternative(n)
  BY SameMeaning
<1>3. ASSUME pc' # "end" PROVE ResultIsRight'
  BY <1>3 DEF ResultIsRight, Answered
<1>4. ASSUME result' = "error",
             /\ ~WellFormed(Len(text))
             /\ \A n \in 1..Len(text) :
                  EndsAlternative(n) /\ WellFormed(n) => ~Satisfied(n)
      PROVE  ResultIsRight'
  BY <1>1, <1>2, <1>4 DEF ResultIsRight
<1>5. CASE Evaluate
  <2>1. CASE condition.name = "input_equals" /\ InputEquals
    <3>1. CASE text = <<>>
      <4>1. Len(text) = 0 BY <3>1
      <4>2. ~WellFormed(0) BY DEF WellFormed
      <4>3. result' = "error" BY <2>1, <3>1 DEF InputEquals, Ends
      <4> QED BY <1>4, <4>1, <4>2, <4>3
    <3>2. CASE input = NoObject
      BY <1>1, <3>2 DEF ResultIsRight, Answered
    <3>3. CASE text # <<>> /\ input # NoObject
      BY <1>3, <2>1, <3>3 DEF InputEquals, TryAlternative
    <3> QED BY <3>1, <3>2, <3>3
  <2>2. CASE ~(condition.name = "input_equals" /\ InputEquals)
    BY <1>1, <1>5, <2>2
       DEF Evaluate, Always, InputExists, ResultIsRight, Answered
  <2> QED BY <2>1, <2>2
<1>6. CASE NextAlternative
  <2>1. CASE Blank(alternative)
    <3>1. Trying /\ result' = "error"
      BY <1>6, <2>1 DEF NextAlternative, Trying, Ends
    <3> QED BY <1>4, <2>1, <3>1, ErrorIsRight
  <2>2. CASE ~Blank(alternative)
    BY <1>3, <1>6, <2>2 DEF NextAlternative, TryClause
  <2> QED BY <2>1, <2>2
<1>7. CASE ClauseFails
  <2>1. Trying /\ pc = "clause" /\ Wrong(clause) /\ result' = "error"
    BY <1>7 DEF ClauseFails, Trying, Ends
  <2> QED BY <1>4, <2>1, ErrorIsRight
<1>8. CASE ClauseHolds
  <2>1. /\ Trying /\ pc = "clause" /\ ~Wrong(clause)
        /\ Holds(text[clause.first])
    BY <1>8 DEF ClauseHolds, Trying
  <2>2. CASE clause.last # alternative.last
    BY <1>3, <1>8, <2>2 DEF ClauseHolds, TryClause
  <2>3. CASE clause.last = alternative.last
    <3> DEFINE i == alternative.first
               j == clause.first
    <3>1. /\ i \in Nat \ {0} /\ j \in Nat \ {0} /\ i <= j
          /\ j = alternative.last /\ j <= Len(text)
          /\ text[j] \in Clauses
      BY <2>1, <2>3, AlternativeFacts, ClauseFacts, RightClause DEF Inv
    <3>2. i = 1 \/ text[i - 1] = Or
      BY <2>1, AlternativeFacts DEF Inv
    <3>3. EndsAlternative(j)
      BY <2>1, <3>1, AlternativeFacts DEF Inv, EndsAlternative
    <3>4. (j - i) % 2 = 0 /\ AllHold(i, j - 1)
      BY <2>1 DEF Inv, HeldSoFar
    <3> HIDE DEF i, j
    <3>5. j = clause.first BY DEF j
    <3>6. AllHold(i, j)
      <4>1. SUFFICES ASSUME NEW m \in i..j
                     PROVE  IF (m - i) % 2 = 0
                            THEN text[m] \in Clauses /\ Holds(text[m])
                            ELSE text[m] = And
        BY DEF AllHold
      <4>2. CASE m \in i..(j - 1) BY <3>4, <4>2 DEF AllHold
      <4>3. CASE m = j BY <2>1, <3>1, <3>4, <3>5, <4>3
      <4> QED BY <3>1, <4>2, <4>3
    <3>7. SatisfiedFrom(i, j)
      BY <3>1, <3>2, <3>3, <3>4, <3>6 DEF SatisfiedFrom
    <3>8. i \in 1..Len(text) /\ j \in 1..Len(text)
      BY <3>1, TextFacts DEF Inv
    <3>9. Satisfied(Len(text)) BY <3>7, <3>8 DEF Satisfied
    <3>10. result' = "true" BY <1>8, <2>3 DEF ClauseHolds, Ends
    <3> QED BY <1>1, <1>2, <3>9, <3>10 DEF ResultIsRight
  <2> QED BY <2>2, <2>3
<1>9. CASE ClauseDoesNotHold
  <2>1. /\ Trying /\ pc = "clause" /\ ~Wrong(clause)
        /\ ~Holds(text[clause.first])
    BY <1>9 DEF ClauseDoesNotHold, Trying
  <2>2. CASE alternative.last # Len(text)
    BY <1>3, <1>9, <2>2 DEF ClauseDoesNotHold, TryAlternative
  <2>3. CASE alternative.last = Len(text)
    <3>1. ASSUME NEW i \in 1..Len(text), NEW j \in 1..Len(text),
                 SatisfiedFrom(i, j)
          PROVE  FALSE
      <4>1. alternative.last + 2 <= i
        BY <2>1, <3>1, NotThisOne DEF Inv
      <4>2. Len(text) \in Nat BY TextFacts DEF Inv
      <4> QED BY <2>3, <4>1, <4>2
    <3>2. ~Satisfied(Len(text)) BY <3>1 DEF Satisfied
    <3>3. result' = "false" BY <1>9, <2>3 DEF ClauseDoesNotHold, Ends
    <3> QED BY <1>1, <1>2, <3>2, <3>3 DEF ResultIsRight
  <2> QED BY <2>2, <2>3
<1>10. CASE UNCHANGED vars
  BY <1>1, <1>2, <1>10 DEF vars, Inv, ResultIsRight, Answered
<1> QED BY <1>5, <1>6, <1>7, <1>8, <1>9, <1>10 DEF Next

-----------------------------------------------------------------------------
(* What the evaluation has found of the expression so far, and what it     *)
(* returns in the end, is so.                                              *)
THEOREM EvaluationIsRight == Spec => []Inv
<1>1. Init => Inv
  BY DEF Init, Inv, TypeOK, NoneBefore, HeldSoFar, ResultIsRight, Trying,
     Answered
<1>2. Inv /\ [Next]_vars => Inv'
  BY TypeStep, NoneBeforeStep, HeldSoFarStep, ResultStep DEF Inv
<1> QED BY <1>1, <1>2, PTL DEF Spec

(* An expression of any length is true only when an alternative of it is   *)
(* satisfied, and a well-formed one is true exactly then: && binds tighter *)
(* than || (evaluator.go 115), and nothing is left out or decided early.   *)
THEOREM ExpressionsMeanWhatTheySay == Spec => []MeansWhatItSays
<1>1. ASSUME Inv PROVE MeansWhatItSays
  <2>1. Answered => result \in {"true", "false", "error"}
    BY <1>1 DEF Inv, TypeOK, Answered
  <2> QED BY <1>1, <2>1 DEF Inv, ResultIsRight, MeansWhatItSays
<1> QED BY <1>1, EvaluationIsRight, PTL

(* A satisfied alternative makes the expression true whatever is behind    *)
(* it, unless something malformed comes first (evaluator.go 124).          *)
THEOREM FirstTrueAlwaysWins == Spec => []FirstTrueWins
<1>1. ASSUME Inv PROVE FirstTrueWins
  <2>1. SUFFICES ASSUME Answered, NEW n \in 1..Len(text),
                        EndsAlternative(n), WellFormed(n), Satisfied(n)
                 PROVE  result = "true"
    BY DEF FirstTrueWins
  <2>2. result \in {"true", "false", "error"}
    BY <1>1, <2>1 DEF Inv, TypeOK, Answered
  <2>3. result # "error" BY <1>1, <2>1 DEF Inv, ResultIsRight
  <2>4. Satisfied(Len(text))
    <3>1. PICK i, j \in 1..n : SatisfiedFrom(i, j) BY <2>1 DEF Satisfied
    <3>2. i \in 1..Len(text) /\ j \in 1..Len(text)
      BY <1>1, <3>1, TextFacts DEF Inv
    <3> QED BY <3>1, <3>2 DEF Satisfied
  <2>5. result # "false" BY <1>1, <2>1, <2>4 DEF Inv, ResultIsRight
  <2> QED BY <2>2, <2>3, <2>5
<1> QED BY <1>1, EvaluationIsRight, PTL

-----------------------------------------------------------------------------
(* The evaluation is never without a part to go on with.                   *)
LEMMA AlwaysAPart ==
    ASSUME Inv
    PROVE  PartAhead
<1>1. Len(text) \in Nat BY TextFacts DEF Inv
<1>2. \E p \in OrParts : p.first = 1
  <2>1. 1 \in Nat /\ 1 \in 1..(Len(text) + 1) BY <1>1
  <2>2. \E p \in Parts(Or, 1, Len(text)) : p.first = 1
    BY <1>1, <2>1, FirstPart
  <2> QED BY <2>2 DEF OrParts
<1>3. ASSUME pc = "alternative", ~Blank(alternative)
      PROVE  \E p \in AndParts : p.first = alternative.first
  <2>1. /\ alternative.first \in Nat /\ alternative.last \in Nat
        /\ alternative.first \in alternative.first..(alternative.last + 1)
    BY <1>3, AlternativeFacts DEF Inv, Trying
  <2>2. \E p \in Parts(And, alternative.first, alternative.last) :
          p.first = alternative.first
    BY <2>1, FirstPart
  <2> QED BY <2>2 DEF AndParts
<1>4. ASSUME pc = "clause", clause.last # alternative.last
      PROVE  \E p \in AndParts : p.first = clause.last + 2
  <2>1. /\ alternative.first \in Nat /\ alternative.last \in Nat
        /\ clause.last + 2 \in alternative.first..(alternative.last + 1)
        /\ text[clause.last + 1] = And
        /\ (clause.last + 2) - 1 = clause.last + 1
    BY <1>4, AlternativeFacts, ClauseFacts DEF Inv, Trying
  <2> QED BY <2>1, PartFrom DEF AndParts
<1>5. ASSUME pc = "clause", alternative.last # Len(text)
      PROVE  \E p \in OrParts : p.first = alternative.last + 2
  <2>1. /\ alternative.last + 2 \in 1..(Len(text) + 1)
        /\ text[alternative.last + 1] = Or
        /\ (alternative.last + 2) - 1 = alternative.last + 1
    BY <1>1, <1>5, AlternativeFacts DEF Inv, Trying
  <2> QED BY <1>1, <2>1, PartFrom DEF OrParts
<1> QED BY <1>2, <1>3, <1>4, <1>5 DEF PartAhead

(* Every evaluation comes to an end, however long the expression: there is *)
(* always a part to go on with, each step ends it or takes it on, and it   *)
(* never goes further than the text (the loops of evaluator.go 118, 135).  *)
THEOREM EvaluationEnds ==
    Spec => /\ []PartAhead
            /\ [][Advances]_vars
            /\ [](Trying => Reached <= 2 * Len(text) + 3)
<1>1. Inv => (Trying => Reached <= 2 * Len(text) + 3)
  <2>1. SUFFICES ASSUME Inv, Trying PROVE Reached <= 2 * Len(text) + 3
    OBVIOUS
  <2>2. CASE pc = "clause"
    BY <2>1, <2>2, TextFacts, AlternativeFacts, ClauseFacts
       DEF Inv, Reached
  <2>3. CASE pc # "clause"
    BY <2>1, <2>3, TextFacts, AlternativeFacts DEF Inv, Reached
  <2> QED BY <2>2, <2>3
<1>2. Inv /\ [Next]_vars => [Advances]_vars
  <2>1. SUFFICES ASSUME Inv, Next, Trying, pc' # "end"
                 PROVE  Trying' /\ Reached < Reached'
    BY DEF Advances
  <2>2. CASE NextAlternative
    <3>1. /\ pc = "alternative" /\ pc' = "clause"
          /\ clause'.first = alternative.first
      BY <2>1, <2>2 DEF NextAlternative, Ends, TryClause
    <3> QED BY <2>1, <3>1, AlternativeFacts DEF Inv, Reached, Trying
  <2>3. CASE ClauseHolds
    <3>1. /\ pc = "clause" /\ pc' = "clause"
          /\ clause'.first = clause.last + 2
      BY <2>1, <2>3 DEF ClauseHolds, Ends, TryClause
    <3> QED BY <2>1, <3>1, ClauseFacts DEF Inv, Reached, Trying
  <2>4. CASE ClauseDoesNotHold
    <3>1. /\ pc = "clause" /\ pc' = "alternative"
          /\ alternative'.first = alternative.last + 2
      BY <2>1, <2>4 DEF ClauseDoesNotHold, Ends, TryAlternative
    <3> QED BY <2>1, <3>1, AlternativeFacts, ClauseFacts
            DEF Inv, Reached, Trying
  <2>5. CASE Evaluate \/ ClauseFails
    BY <2>1, <2>5 DEF Evaluate, ClauseFails, Ends, Trying
  <2> QED BY <2>1, <2>2, <2>3, <2>4, <2>5 DEF Next
<1>3. Inv => PartAhead BY AlwaysAPart
<1> QED BY <1>1, <1>2, <1>3, EvaluationIsRight, PTL DEF Spec

=============================================================================
