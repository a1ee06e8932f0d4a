------------------------------- MODULE BigNum -------------------------------
(***************************************************************************)
(* bignum_t of bignum.hpp: objects that own a BIGNUM and a BN_CTX of       *)
(* OpenSSL.  The library's numbers are integers here, its allocations      *)
(* handles; that its functions leave the target as it was when they fail   *)
(* (a division by zero) is taken from how the class uses them.             *)
(***************************************************************************)
EXTENDS Integers, FiniteSets, FiniteSetsExt

CONSTANTS Objects,    \* the variables a program has
          Values,     \* the integers the numbers are held to
          Words       \* the machine words they are combined with

VARIABLES alive,      \* the objects that are constructed
          num_,       \* object -> its BIGNUM, or Null
          numbers,    \* the BIGNUMs that are allocated
          val,        \* BIGNUM -> the integer it holds
          contexts,   \* the objects whose ctx_ is allocated
          fault       \* whether a call has stored through a null pointer

BigAssumption == IsFiniteSet(Objects) /\ Values \subseteq Int /\ Words \subseteq Nat

bigVars == <<alive, num_, numbers, val, contexts, fault>>

Null == 0
Handles == 1..Cardinality(Objects) + 1
Value(o) == val[num_[o]]
Usable(o) == o \in alive /\ num_[o] # Null
Magnitude(x) == IF x < 0 THEN -x ELSE x
Towards0(x, y) == LET q == Magnitude(x) \div Magnitude(y) IN IF (x < 0) = (y < 0) THEN q ELSE -q

-----------------------------------------------------------------------------
\* What the operators compute.

BN(op, x, y) ==
    CASE op = "+" -> x + y [] op = "-" -> x - y [] op = "*" -> x * y
      [] op = "/" -> Towards0(x, y) [] op = "%" -> x - Towards0(x, y) * y

\* a + b and the like: the result starts at zero, where a failing division leaves it.
Binary(op, x, y) == IF op \in {"/", "%"} /\ y = 0 THEN 0 ELSE BN(op, x, y)

\* The target is cleared before it is read, as without the copy.
InPlaceUncopied(op, x, y) == BN(op, 0, y)

\* a += b and the like: from a copy of a, into a.
InPlace(op, x, y) == IF op \in {"/", "%"} /\ y = 0 THEN x ELSE BN(op, x, y)

\* With a machine word, on a copy of a or on a; BN_mod_word only returns the remainder.
WithWord(op, x, w) == IF op = "%" \/ (op = "/" /\ w = 0) THEN x ELSE BN(op, x, w)

\* Shifts move the magnitude.
ShiftRight(x, bits) == Towards0(x, 2 ^ bits)
ShiftLeft(x, bits) == x * 2 ^ bits
Power(x, e) == IF e = 0 THEN 1 ELSE x ^ e
Negated(x) == -x
Gcd(x, y) == IF x = 0 /\ y = 0 THEN 0
             ELSE Max({d \in 1..Max({Magnitude(x), Magnitude(y)}) : x % d = 0 /\ y % d = 0})

-----------------------------------------------------------------------------
\* Constructors, assignments, destructor.

Born(o) == o \notin alive /\ alive' = alive \cup {o} /\ contexts' = contexts \cup {o} /\ UNCHANGED fault
Stays == UNCHANGED <<alive, contexts, fault>>

\* Object o has a BIGNUM of its own with value v, and what is in gone is freed.
Holds(o, v, gone) ==
    LET h == Min(Handles \ (numbers \ gone))
    IN /\ v \in Values /\ num_' = [num_ EXCEPT ![o] = h]
       /\ numbers' = (numbers \ gone) \cup {h} /\ val' = [val EXCEPT ![h] = v]

HoldsNull(o, gone) == num_' = [num_ EXCEPT ![o] = Null] /\ numbers' = numbers \ gone /\ UNCHANGED val

\* From nothing, a long, a text or bytes; a text that is no number gives zero.
Construct(o) == Born(o) /\ \E v \in Values : Holds(o, v, {})

\* From a BIGNUM of somebody else, who may have failed to make one.
Adopt(o) == Born(o) /\ HoldsNull(o, {})

CopyConstruct(o, p) ==
    Born(o) /\ p \in alive /\ IF num_[p] = Null THEN HoldsNull(o, {}) ELSE Holds(o, Value(p), {})

\* o takes p's number, and p.reset() gives p a new one; what is in gone is freed.
Take(o, p, gone) ==
    LET h == Min(Handles \ (numbers \ gone))
    IN /\ num_' = [num_ EXCEPT ![o] = num_[p], ![p] = h]
       /\ numbers' = (numbers \ gone) \cup {h} /\ val' = [val EXCEPT ![h] = 0]

MoveConstruct(o, p) == Born(o) /\ p \in alive /\ Take(o, p, {})

Released(o) == {num_[o]}

Destroy(o) ==
    /\ o \in alive /\ alive' = alive \ {o} /\ contexts' = contexts \ {o}
    /\ HoldsNull(o, Released(o)) /\ UNCHANGED fault

CopyAssign(o, p) ==
    /\ o \in alive /\ p \in alive \ {o} /\ Stays
    /\ IF num_[p] = Null THEN HoldsNull(o, Released(o)) ELSE Holds(o, Value(p), Released(o))

\* The source keeps its pointer, as without from.reset().
MoveAssignShared(o, p) ==
    /\ o \in alive /\ p \in alive /\ Stays
    /\ num_' = [num_ EXCEPT ![o] = num_[p]] /\ numbers' = numbers \ Released(o) /\ UNCHANGED val

\* A move to itself is not tested for and leaves zero.
MoveAssign(o, p) == o \in alive /\ p \in alive /\ Stays /\ Take(o, p, Released(o))

\* operator=(long) stores through the pointer that release() has just cleared.
AssignLong(o) ==
    /\ o \in alive /\ HoldsNull(o, Released(o)) /\ fault' = TRUE
    /\ UNCHANGED <<alive, contexts>>

\* operator= of a text or of bytes: released, then made anew.
AssignText(o) == o \in alive /\ Stays /\ \E v \in Values : Holds(o, v, Released(o))

-----------------------------------------------------------------------------
\* Operators: the ones that return a number make a new object.

Operators == {"+", "-", "*", "/", "%"}
Make(o, v) == Born(o) /\ Holds(o, v, {})
Set(o, v) == v \in Values /\ val' = [val EXCEPT ![num_[o]] = v] /\ Stays /\ UNCHANGED <<num_, numbers>>

Combine(o, p, q) ==
    /\ Usable(p) /\ Usable(q)
    /\ \/ \E op \in Operators : Make(o, Binary(op, Value(p), Value(q)))
       \/ Make(o, Gcd(Value(p), Value(q)))
       \/ Value(q) \in 0..2 /\ Make(o, Power(Value(p), Value(q)))

CombineWord(o, p) ==
    /\ Usable(p)
    /\ \/ \E op \in Operators, w \in Words : Make(o, WithWord(op, Value(p), w))
       \/ \E bits \in 0..1 : Make(o, ShiftRight(Value(p), bits)) \/ Make(o, ShiftLeft(Value(p), bits))
       \/ Make(o, Negated(Value(p))) \/ Make(o, Magnitude(Value(p)))

Update(o, q) == Usable(o) /\ Usable(q) /\ \E op \in Operators : Set(o, InPlace(op, Value(o), Value(q)))

UpdateWord(o) == Usable(o) /\ \E op \in Operators, w \in Words : Set(o, WithWord(op, Value(o), w))

\* ++a and --a; a++ and a--, whose copy of the old number becomes object c.
Increment(o) == Usable(o) /\ \E d \in {-1, 1} : Set(o, Value(o) + d)
PostIncrement(o, c) ==
    /\ Usable(o) /\ Born(c)
    /\ \E d \in {-1, 1} :
          LET h == Min(Handles \ numbers)
          IN /\ Value(o) + d \in Values /\ num_' = [num_ EXCEPT ![c] = h] /\ numbers' = numbers \cup {h}
             /\ val' = [val EXCEPT ![h] = Value(o), ![num_[o]] = Value(o) + d]

clear(o) == Usable(o) /\ Set(o, 0)

-----------------------------------------------------------------------------

BigInit ==
    /\ alive = {} /\ num_ = [o \in Objects |-> Null] /\ numbers = {}
    /\ val = [h \in Handles |-> 0] /\ contexts = {} /\ fault = FALSE

BigNext ==
    /\ ~fault
    /\ \/ \E o \in Objects : \/ Construct(o) \/ Adopt(o) \/ Destroy(o) \/ AssignLong(o) \/ AssignText(o)
                             \/ UpdateWord(o) \/ Increment(o) \/ clear(o)
       \/ \E o, p \in Objects :
             \/ CopyConstruct(o, p) \/ MoveConstruct(o, p) \/ CopyAssign(o, p) \/ MoveAssign(o, p)
             \/ CombineWord(o, p) \/ Update(o, p) \/ PostIncrement(o, p)
             \/ \E q \in Objects : Combine(o, p, q)

BigSpec == BigInit /\ [][BigNext]_bigVars

-----------------------------------------------------------------------------

\* Through every copy, move and operator each object has a BIGNUM and a context of its
\* own, both of them allocated, and nothing is allocated that no object has.
NumbersOwned ==
    /\ \A o, p \in alive : num_[o] = num_[p] /\ num_[o] # Null => o = p
    /\ numbers = {num_[o] : o \in alive} \ {Null} /\ contexts = alive
=============================================================================
