-------------------------------- MODULE Args --------------------------------
(***************************************************************************)
(* args of args.hpp: parse() walks the argument list, one argument or one  *)
(* option letter at a time, and throws at the first argument it cannot     *)
(* take.  An argument is what parse() tells apart: a word, "--" or "-" by  *)
(* itself, or one dash or two with a name, perhaps "=" and a value, read   *)
(* as an id and, with one dash, also as letters.                           *)
(***************************************************************************)
EXTENDS Naturals, Sequences, FiniteSets

CONSTANTS Options,            \* the registered options, numbered in their order
          Id, Code, Counter, Usage,    \* Id[o], Code[o]; sets of options
          Arguments, MaxArgs, \* what may be given, and how many of them
          MaxSets             \* calls of set() and set_if_unset()

VARIABLES list, at,           \* the arguments, and how many have been read
          letters,            \* letters of the current argument still to be read
          parsing,            \* "before", "options", "letters", "done" or "thrown"
          value_,             \* value_[o]: [index, flag, num, str]
          argv_,
          role,               \* history: role[i]: what argument i was taken for
          sets                \* history: set() and set_if_unset() calls so far

\* An option that counts takes no value.
ArgsAssumption ==
    /\ Options \subseteq Nat /\ Counter \subseteq Options /\ Usage \subseteq Options
    /\ Counter \cap Usage = {}
    /\ \A given \in Arguments : given.letters \in Seq(STRING)

argsVars == <<list, at, letters, parsing, value_, argv_, role, sets>>

NoValue == [index |-> 0, flag |-> FALSE, num |-> 0, str |-> 0]

ArgsInit ==
    /\ list = <<>> /\ at = 0 /\ letters = <<>> /\ parsing = "before"
    /\ value_ = [o \in Options |-> NoValue] /\ argv_ = <<>> /\ role = <<>> /\ sets = 0

\* operator bool of an option.
IsSet(o) == value_[o].index > 0 \/ value_[o].flag

Count(o) == IF IsSet(o) THEN value_[o].num ELSE 0

\* The first option with that id, or with that letter.
ById(id) == {o \in Options : Id[o] = id /\ \A p \in Options : Id[p] = id => o <= p}
ByCode(c) == {o \in Options : Code[o] = c /\ \A p \in Options : Code[p] = c => o <= p}

Parse(given) ==
    /\ parsing' = "options"
    /\ list' = given /\ role' = [i \in 1..Len(given) |-> "none"]
    /\ UNCHANGED <<at, letters, value_, argv_, sets>>

More == at < Len(list)

\* op->value_ = 1U the first time, and one more from then on.
Counted(o) == [value_[o] EXCEPT !.index = 1,
                                !.num = IF value_[o].index < 1 THEN 1 ELSE Count(o) + 1]

Throw ==
    /\ parsing' = "thrown"
    /\ UNCHANGED <<list, at, letters, value_, argv_, role, sets>>

-----------------------------------------------------------------------------
(* Mutated forms of definitions below. *)

NeverRepeated(o) == FALSE

-----------------------------------------------------------------------------

\* A second use of an option that does not count is refused.
Repeated(o) == o \notin Counter /\ IsSet(o)

\* A word, or "--" or "-": everything from there on is positional.
EndOptions ==
    /\ parsing = "options"
    /\ More => list[at + 1].kind \in {"word", "stop"}
    /\ LET skip == IF More /\ list[at + 1].kind = "stop" THEN 1 ELSE 0
       IN /\ argv_' = [i \in 1..(Len(list) - at - skip) |-> at + skip + i]
          /\ role' = [i \in 1..Len(list) |-> IF i <= at THEN role[i]
                         ELSE IF i <= at + skip THEN "end" ELSE "positional"]
    /\ at' = Len(list) /\ parsing' = "done"
    /\ UNCHANGED <<list, letters, value_, sets>>

\* Argument i names option o: count it, flag it, or take "=value" or the next argument.
TakeById(i, o) ==
    LET arg == list[i]
        gives == [value_[o] EXCEPT !.index = 2]
    IN IF Repeated(o) \/ (o \notin Counter /\ o \notin Usage /\ arg.eq)
          \/ (o \in Usage /\ ~arg.eq /\ i = Len(list))
       THEN Throw
       ELSE /\ value_' = [value_ EXCEPT ![o] =
                  IF o \in Counter THEN Counted(o)
                  ELSE IF o \notin Usage THEN [@ EXCEPT !.index = 0, !.flag = TRUE]
                  ELSE [gives EXCEPT !.str = IF arg.eq THEN i ELSE i + 1]]
            /\ at' = IF o \in Usage /\ ~arg.eq THEN i + 1 ELSE i
            /\ role' = [j \in 1..Len(list) |->
                  IF j = i THEN "option" ELSE IF j = at' THEN "value" ELSE role[j]]
            /\ UNCHANGED <<list, letters, parsing, argv_, sets>>

\* An argument with a dash: by id, else by letters if it has one dash.
ReadArgument ==
    /\ parsing = "options" /\ More /\ list[at + 1].kind \in {"long", "dash"}
    /\ LET arg == list[at + 1]
       IN IF ById(arg.id) # {}
          THEN TakeById(at + 1, CHOOSE o \in ById(arg.id) : TRUE)
          ELSE IF arg.kind = "long" THEN Throw
          ELSE /\ at' = at + 1 /\ letters' = arg.letters /\ parsing' = "letters"
               /\ role' = [role EXCEPT ![at + 1] = "option"]
               /\ UNCHANGED <<list, value_, argv_, sets>>

\* One letter; an option with a value takes the next argument, whatever letters follow.
ReadLetter ==
    /\ parsing = "letters" /\ letters # <<>>
    /\ IF ByCode(Head(letters)) = {} THEN Throw
       ELSE LET o == CHOOSE q \in ByCode(Head(letters)) : TRUE
            IN IF Repeated(o) \/ (o \in Usage /\ ~More) THEN Throw
               ELSE /\ letters' = Tail(letters)
                    /\ value_' = [value_ EXCEPT ![o] =
                          IF o \in Counter THEN Counted(o)
                          ELSE IF o \in Usage THEN [@ EXCEPT !.index = 2, !.str = at + 1]
                          ELSE [@ EXCEPT !.flag = TRUE]]
                    /\ at' = IF o \in Usage THEN at + 1 ELSE at
                    /\ role' = IF o \in Usage THEN [role EXCEPT ![at + 1] = "value"] ELSE role
                    /\ UNCHANGED <<list, parsing, argv_, sets>>

LettersDone ==
    /\ parsing = "letters" /\ letters = <<>> /\ parsing' = "options"
    /\ UNCHANGED <<list, at, letters, value_, argv_, role, sets>>

\* option::set(n) and set_if_unset(n), before or after parse().
Outside == parsing \in {"before", "done"} /\ sets < MaxSets /\ sets' = sets + 1

SetNumber(o, n) ==
    /\ Outside
    /\ value_' = [value_ EXCEPT ![o] =
          [@ EXCEPT !.flag = IF value_[o].index < 1 THEN n > 0 ELSE @,
                    !.num = IF value_[o].index < 2 THEN n ELSE @]]
    /\ UNCHANGED <<list, at, letters, parsing, argv_, role>>

SetIfUnset(o, n) ==
    /\ Outside /\ ~IsSet(o)
    /\ value_' = [value_ EXCEPT ![o].flag = (n > 0), ![o].num = n]
    /\ UNCHANGED <<list, at, letters, parsing, argv_, role>>

\* set() and set_if_unset() of a text (0 stands for it): refused without a usage.
SetText(o, always) ==
    /\ Outside /\ o \in Usage /\ (always \/ value_[o].index < 1)
    /\ value_' = [value_ EXCEPT ![o].index = 2, ![o].str = 0]
    /\ UNCHANGED <<list, at, letters, parsing, argv_, role>>

ArgsNext ==
    \/ parsing = "before" /\ \E n \in 0..MaxArgs : \E given \in [1..n -> Arguments] : Parse(given)
    \/ EndOptions \/ ReadArgument \/ ReadLetter \/ LettersDone
    \/ \E o \in Options : \/ \E n \in 0..1 : SetNumber(o, n) \/ SetIfUnset(o, n)
                          \/ \E always \in BOOLEAN : SetText(o, always)

ArgsSpec == ArgsInit /\ [][ArgsNext]_argsVars

-----------------------------------------------------------------------------

\* How often the arguments read as options mention o, by id or by letter.
Mentions(o) ==
    LET options == {i \in 1..Len(list) : role[i] = "option"}
        named == {i \in options : ById(list[i].id) = {o}}
        spelt == UNION {{<<i, j>> : j \in {l \in 1..Len(list[i].letters) : ByCode(list[i].letters[l]) = {o}}} :
                          i \in {k \in options : ById(list[k].id) = {}}}
    IN Cardinality(named) + Cardinality(spelt)

(* When parse() returns, every argument had one use: as an option, as the    *)
(* value of the one option before it, as the end mark, or as a positional    *)
(* one, and the positional ones are the rest of the list.  A counter counts  *)
(* all its mentions; any other option was mentioned at most once, is set if  *)
(* it was, and has the value that was meant for it.                          *)
EachArgumentOnce ==
    parsing = "done" /\ sets = 0 =>
        /\ \A i \in 1..Len(list) : role[i] # "none"
        /\ \A i \in 1..Len(argv_) : role[argv_[i]] = "positional"
        /\ {i \in 1..Len(list) : role[i] = "positional"} = {argv_[i] : i \in 1..Len(argv_)}
        /\ \A o \in Counter : Count(o) = Mentions(o)
        /\ \A o \in Options \ Counter : Mentions(o) <= 1 /\ (IsSet(o) <=> Mentions(o) = 1)
        /\ \A i \in 1..Len(list) : role[i] = "value" =>
               Cardinality({o \in Usage : value_[o].index = 2 /\ value_[o].str = i}) = 1
=============================================================================
