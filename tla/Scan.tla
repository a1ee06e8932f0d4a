-------------------------------- MODULE Scan --------------------------------
(***************************************************************************)
(* The readers of scan.hpp: numbers, durations, truth values and quoted    *)
(* text out of a string_view.  A text is a sequence of characters; what a  *)
(* scan function leaves unread is its rest.  An exception is Throw.  The   *)
(* integer types keep their wrap-around but are scaled down: IntMax stands *)
(* for 2^31 - 1, UInt for 2^32 and ULong for 2^64.                         *)
(***************************************************************************)
EXTENDS Integers, Sequences, SequencesExt, TLC

CONSTANTS IntMax,   \* the largest int32_t
          ULong,    \* the values of uint64_t
          Requests  \* the calls: [fn, text, after, size, min, max, says], after being the byte
                    \* behind the text, size the sizeof(T), says what the text was made from

VARIABLES call,     \* the call that is made
          answer    \* what it returns

UInt == 2 * (IntMax + 1)
Ok(v) == [ok |-> TRUE, value |-> v]
Throw == [ok |-> FALSE, value |-> "invalid"]
Wild == [ok |-> FALSE, value |-> "reads beyond the text"]
NoCall == [fn |-> "none"]
Pending == [ok |-> FALSE, value |-> "pending"]

Drop(text, n) == SubSeq(text, n + 1, Len(text))
Read(v, text) == [value |-> v, rest |-> text]

Digit == [c \in {"0", "1", "2", "3", "4", "5", "6", "7", "8", "9"} |->
            CASE c = "0" -> 0 [] c = "1" -> 1 [] c = "2" -> 2 [] c = "3" -> 3 [] c = "4" -> 4
              [] c = "5" -> 5 [] c = "6" -> 6 [] c = "7" -> 7 [] c = "8" -> 8 [] c = "9" -> 9]
HexDigit == Digit @@ ("a" :> 10 @@ "b" :> 11 @@ "c" :> 12 @@ "d" :> 13 @@ "e" :> 14 @@ "f" :> 15)
Lower == "A" :> "a" @@ "E" :> "e" @@ "F" :> "f" @@ "M" :> "m" @@ "N" :> "n" @@ "O" :> "o"
         @@ "T" :> "t" @@ "Y" :> "y"
tolower(c) == IF c \in DOMAIN Lower THEN Lower[c] ELSE c

\* A test for a digit at the front: isdigit(text.front()) of a text that is not empty.
AtDigit(text) == text # <<>> /\ Head(text) \in DOMAIN Digit
At(text, c) == text # <<>> /\ Head(text) = c

-----------------------------------------------------------------------------
\* The functions of namespace scan.

count(text, code) == Len(SelectSeq(text, LAMBDA ch : ch = code))

\* (Mutated form of pow: multiplied where it is squared.)
powLinear(base, exp) == IF exp = 0 THEN 1 ELSE base * exp

RECURSIVE pow(_, _)
pow(base, exp) ==
    IF exp = 0 THEN 1
    ELSE (IF exp % 2 = 1 THEN base ELSE 1) * (IF exp \div 2 = 0 THEN 1 ELSE pow(base * base, exp \div 2))

RECURSIVE HexFrom(_, _, _)
HexFrom(text, val, digits) ==
    IF digits = 0 \/ text = <<>> \/ tolower(Head(text)) \notin DOMAIN HexDigit THEN Read(val, text)
    ELSE HexFrom(Tail(text), val * 16 + HexDigit[tolower(Head(text))], digits - 1)

hex(text, digits) == IF digits > 8 THEN Read(0, text) ELSE HexFrom(text, 0, digits)

RECURSIVE ValueFrom(_, _, _)
ValueFrom(text, val, max) ==
    IF ~AtDigit(text) THEN Read(val, text)
    ELSE LET next == (val * 10 + Digit[Head(text)]) % ULong
         IN IF next > max THEN Read(next \div 10, text) ELSE ValueFrom(Tail(text), next, max)

\* The limit is tested before the digit is added, as when the loop checked first.
ValueUnchecked(text, max) == ValueFrom(text, 0, max * 10 + 9)

value(text, max) == ValueFrom(text, 0, max)

\* A number with a fraction: mantissa and power of ten, without rounding.
RECURSIVE Fraction(_, _, _)
Fraction(text, m, e) ==
    IF AtDigit(text) THEN Fraction(Tail(text), m * 10 + Digit[Head(text)], e - 1)
    ELSE Read(<<m, e>>, text)

decimal(text, max) ==
    LET int == value(text, max)
    IN IF At(int.rest, ".") THEN Fraction(Tail(int.rest), int.value, 0) ELSE Read(<<int.value, 0>>, int.rest)

real(text, max) ==
    LET number == decimal(text, max)
        signed == Tail(number.rest)
        negative == At(signed, "-")
        exponent == value(IF At(signed, "+") \/ negative THEN Tail(signed) ELSE signed, IntMax)
    IN IF At(number.rest, "e") \/ At(number.rest, "E")
       THEN Read(<<number.value[1], number.value[2] + (IF negative THEN -exponent.value ELSE exponent.value)>>,
                 exponent.rest)
       ELSE number

match(text, find, insensitive) ==
    /\ Len(text) >= Len(find)
    /\ \A i \in 1..Len(find) :
          text[i] = find[i] \/ (insensitive /\ tolower(text[i]) = tolower(find[i]))

Quotes == {"single", "double", "back"}
Escape == "n" :> "newline" @@ "e" :> "escape" @@ "t" :> "tab" @@ "b" :> "backspace" @@ "s" :> " "
          @@ "r" :> "return" @@ "f" :> "feed" @@ [c \in Quotes \cup {"%", "slash"} |-> c]

\* Up to the quote, or to the end; the last character of an unclosed quote stays unread.
RECURSIVE TextFrom(_, _, _, _)
TextFrom(t, result, quote, quoted) ==
    IF t = <<>> THEN Read(result, t)
    ELSE IF Head(t) = quote THEN Read(result, Tail(t))
    ELSE IF quote # "" /\ Len(t) = 1 THEN Read(Append(result, Head(t)), t)
    ELSE IF (quoted \/ quote = "double") /\ Head(t) = "slash"
    THEN IF Len(t) < 2 THEN Read(<<>>, t)
         ELSE IF t[2] \notin DOMAIN Escape THEN Read(result, t)
         ELSE TextFrom(Drop(t, 2), Append(result, Escape[t[2]]), quote, quoted)
    ELSE TextFrom(Tail(t), Append(result, Head(t)), quote, quoted)

scanText(text, quoted) ==
    IF quoted \/ text = <<>> \/ text[1] \notin Quotes THEN TextFrom(text, <<>>, "", quoted)
    ELSE IF Len(text) < 2 THEN Read(<<>>, text)
    ELSE TextFrom(Tail(text), <<>>, Head(text), FALSE)

-----------------------------------------------------------------------------
\* The functions of namespace tycho.

Whole(read) == IF read.rest = <<>> THEN Ok(read.value) ELSE Throw

get_string(text, quoted) == Whole(scanText(text, quoted))

Between(text, quote) == Len(text) > 1 /\ Head(text) = Last(text) /\ Head(text) = quote

get_quoted(text, quote) == Whole(scanText(text, ~Between(text, quote)))

get_lower(text, quote) ==
    LET all == get_quoted(text, quote)
    IN IF all.ok THEN Ok([i \in 1..Len(all.value) |-> tolower(all.value[i])]) ELSE all

get_literal(text, quote) ==
    Ok(IF Between(text, quote) THEN SubSeq(text, 2, Len(text) - 1) ELSE text)

Negate(answered) == IF answered.ok THEN Ok(<<-answered.value[1], answered.value[2]>>) ELSE answered

get_decimal(text) ==
    IF At(text, "-") THEN Negate(Whole(decimal(Tail(text), IntMax))) ELSE Whole(decimal(text, IntMax))

get_real(text) ==
    IF At(text, "-") THEN Negate(Whole(real(Tail(text), IntMax))) ELSE Whole(real(text, IntMax))

Int32(v) == ((v + IntMax + 1) % UInt) - (IntMax + 1)

get_value(text, min, max) ==
    LET neg == min < 0 /\ At(text, "-")
        digits == IF neg THEN Tail(text) ELSE text
        read == value(digits, max % ULong)
        v == Int32(read.value)
    IN IF ~AtDigit(digits) \/ read.rest # <<>> THEN Throw
       ELSE IF neg THEN IF -v < min THEN Throw ELSE Ok(-v)
       ELSE IF min >= 0 /\ v < min THEN Throw ELSE Ok(v)

get_integer(text, min, max) == get_value(text, Int32(min), Int32(max))

Unit == "s" :> 1 @@ "m" :> 60 @@ "h" :> 3600 @@ "d" :> 86400 @@ "w" :> 604800

\* A unit that is none is taken off the text before front() looks at it again: what
\* front() finds is the byte behind the text, and removing that leaves a wild view.
RECURSIVE get_duration(_, _, _)
get_duration(text, after, ms) ==
    LET read == value(text, IntMax)
        t == read.rest
        v == read.value % UInt
        colons == count(t, ":")
    IN IF ~AtDigit(text) \/ AtDigit(t) THEN Throw
       ELSE IF t = <<>> \/ (ms /\ t = <<"m", "s">>) THEN Ok(v)
       ELSE IF Len(t) = 1 /\ tolower(t[1]) \in DOMAIN Unit
       THEN Ok((v * Unit[tolower(t[1])] * (IF ms THEN 1000 ELSE 1)) % UInt)
       ELSE IF Len(t) = 1 THEN IF after = ":" /\ ~ms THEN Wild ELSE Throw
       ELSE IF t[1] = ":" /\ ~ms /\ colons < 4
       THEN LET rest == get_duration(Tail(t), after, FALSE)
            IN IF rest.ok THEN Ok((((v * pow(60, colons)) % UInt) + rest.value) % UInt) ELSE rest
       ELSE Throw

Words == <<[word |-> <<"t", "r", "u", "e">>, means |-> TRUE],
           [word |-> <<"f", "a", "l", "s", "e">>, means |-> FALSE],
           [word |-> <<"y", "e", "s">>, means |-> TRUE], [word |-> <<"n", "o">>, means |-> FALSE],
           [word |-> <<"t">>, means |-> TRUE], [word |-> <<"f">>, means |-> FALSE],
           [word |-> <<"o", "n">>, means |-> TRUE], [word |-> <<"o", "f", "f">>, means |-> FALSE]>>

\* A word that matches is taken off the text even when something follows it.
RECURSIVE BoolFrom(_, _)
BoolFrom(text, i) ==
    IF i > Len(Words) THEN Throw
    ELSE IF ~match(text, Words[i].word, TRUE) THEN BoolFrom(text, i + 1)
    ELSE IF Len(text) = Len(Words[i].word) THEN Ok(Words[i].means)
    ELSE BoolFrom(Drop(text, Len(Words[i].word)), i + 1)

get_bool(text) == BoolFrom(text, 1)

\* size is sizeof(T): two digits for each byte.
get_hex(text, size, min, max) ==
    LET body == IF match(text, <<"0", "x">>, FALSE) THEN Drop(text, 2)
                ELSE IF At(text, "$") THEN Tail(text) ELSE text
        read == hex(body, size * 2)
    IN IF read.rest # <<>> \/ read.value < min \/ read.value > max THEN Throw ELSE Ok(read.value)

get_unsigned(text, size, min, max) ==
    LET read == value(text, max)
    IN IF ~AtDigit(text) THEN Throw
       ELSE IF match(text, <<"0", "x">>, FALSE) THEN get_hex(Drop(text, 2), size, min, max)
       ELSE IF read.rest # <<>> \/ read.value < min THEN Throw ELSE Ok(read.value)

\* get_value_or and the like: an exception becomes the value that the caller gave.
OrElse(answered, or_else) == IF answered.ok THEN answered ELSE Ok(or_else)

-----------------------------------------------------------------------------

Answer(c) ==
    CASE c.fn = "value" -> get_value(c.text, c.min, c.max)
      [] c.fn = "integer_or" -> OrElse(get_integer(c.text, c.min, c.max), 0)
      [] c.fn = "unsigned" -> get_unsigned(c.text, c.size, c.min, c.max)
      [] c.fn = "hex" -> get_hex(c.text, c.size, c.min, c.max)
      [] c.fn = "decimal" -> get_decimal(c.text)
      [] c.fn = "real" -> get_real(c.text)
      [] c.fn = "seconds" -> get_duration(c.text, c.after, FALSE)
      [] c.fn = "timeout" -> get_duration(c.text, c.after, TRUE)
      [] c.fn = "bool" -> get_bool(c.text)
      [] c.fn = "string" -> get_string(c.text, FALSE)
      [] c.fn \in {"quoted", "spelled"} -> get_quoted(c.text, "double")
      [] c.fn = "lower" -> get_lower(c.text, "double")
      [] c.fn = "literal" -> get_literal(c.text, "double")

ScanInit == call = NoCall /\ answer = Pending

\* A caller makes one call.
ScanNext == call = NoCall /\ call' \in Requests /\ answer' = Answer(call')

ScanSpec == ScanInit /\ [][ScanNext]_<<call, answer>>

-----------------------------------------------------------------------------

Answered(fn) == call.fn = fn /\ answer # Pending
Body == IF At(call.text, "-") THEN Tail(call.text) ELSE call.text
Digits(text) == text # <<>> /\ \A i \in 1..Len(text) : text[i] \in DOMAIN Digit
Number(text) == FoldLeft(LAMBDA n, c : n * 10 + Digit[c], 0, text)
IsHex(text) == \A i \in 1..Len(text) : tolower(text[i]) \in DOMAIN HexDigit
HexNumber(text) == FoldLeft(LAMBDA n, c : n * 16 + HexDigit[tolower(c)], 0, text)

\* What get_value promises: a number in its range, negative only where the range is;
\* the magnitude of a negative number is held to the upper bound as well.
InRange ==
    /\ Digits(Body) /\ Number(Body) <= call.max
    /\ IF Body = call.text THEN call.min < 0 \/ Number(Body) >= call.min
       ELSE call.min < 0 /\ -Number(Body) >= call.min
Signed == IF Body = call.text THEN Number(Body) ELSE -Number(Body)

\* get_value, get_integer_or, get_unsigned and get_hex: a text is read exactly when all
\* of it is one number within the bounds, and then as that number.  Two cases escape:
\* a negative upper bound, which the conversion to uint64_t makes no bound at all, and
\* a type as wide as the accumulator, where the overflow goes unnoticed and the number
\* comes back modulo the width.
NumbersRead ==
    /\ Answered("value") /\ call.max >= 0 => answer = (IF InRange THEN Ok(Signed) ELSE Throw)
    /\ Answered("integer_or") /\ call.max >= 0 => answer = Ok(IF InRange THEN Signed ELSE 0)
    /\ Answered("unsigned") /\ Digits(call.text) =>
          LET n == IF call.max = ULong - 1 THEN Number(call.text) % ULong ELSE Number(call.text)
          IN answer = (IF n \in call.min..call.max THEN Ok(n) ELSE Throw)
    /\ Answered("hex") /\ answer.ok =>
          LET prefix == Min({n \in 0..Len(call.text) : IsHex(Drop(call.text, n))})
          IN /\ prefix <= 2 /\ answer.value = HexNumber(Drop(call.text, prefix))
             /\ answer.value \in call.min..call.max

From(text, marks) == Min({i \in 1..Len(text) : text[i] \in marks} \cup {Len(text) + 1})
Mantissa == SubSeq(Body, 1, From(Body, {"e", "E"}) - 1)
Exponent == LET text == Drop(Body, Len(Mantissa) + 1)
            IN IF At(text, "-") THEN -Number(Tail(text)) ELSE Number(SelectSeq(text, LAMBDA c : c # "+"))

\* get_decimal and get_real: what is accepted has at most one point and one exponent,
\* and is read with the digits, the point and the exponent it has, whichever are left
\* out.
FractionsRead ==
    (Answered("decimal") \/ Answered("real")) /\ answer.ok =>
       LET digits == SelectSeq(Mantissa, LAMBDA c : c # ".")
           n == Number(digits)
       IN /\ count(Mantissa, ".") <= 1 /\ (call.fn = "decimal" => Mantissa = Body)
          /\ answer.value = <<IF Body = call.text THEN n ELSE -n,
                              Exponent - Len(Drop(Mantissa, From(Mantissa, {"."})))>>

Clock(text) ==
    LET read == FoldLeft(LAMBDA r, c : IF c = ":" THEN [sum |-> (r.sum + r.field) * 60, field |-> 0]
                                       ELSE [r EXCEPT !.field = r.field * 10 + Digit[c]],
                         [sum |-> 0, field |-> 0], text)
    IN (read.sum + read.field) % UInt

\* get_duration: hours, minutes and seconds between colons are summed up as a clock
\* says them, modulo unsigned; the text is refused, and no byte behind it looked at,
\* unless the last field has a unit that is none.
DurationsRead ==
    Answered("seconds") =>
       /\ answer.ok /\ (\A i \in 1..Len(call.text) : call.text[i] \in DOMAIN Digit \cup {":"})
          => answer.value = Clock(call.text)
       /\ answer = Wild => call.after = ":" /\ Last(call.text) \notin DOMAIN Digit \cup DOMAIN Unit

Chain(s) == FlattenSeq([i \in 1..Len(Words) |-> IF i \in s THEN Words[i].word ELSE <<>>])

\* get_bool: every word that is accepted means what it says, in any case; what is
\* accepted besides is a chain of such words, and the last one counts.
BoolsRead ==
    Answered("bool") =>
       LET low == [i \in 1..Len(call.text) |-> tolower(call.text[i])]
           chains == {s \in SUBSET (1..Len(Words)) : s # {} /\ Chain(s) = low}
       IN answer.ok = (chains # {}) /\ \A s \in chains : answer.value = Words[Max(s)].means

\* get_string and get_quoted: what was spelled with escapes reads back as it was, text
\* without quotes is returned whole, and a text that opens a quote is accepted only
\* when it ends with that quote or with an escape.
TextsRead ==
    /\ Answered("spelled") => answer = Ok(call.says)
    /\ Answered("string") =>
          /\ call.text # <<>> /\ Head(call.text) \notin Quotes => answer = Ok(call.text)
          /\ answer.ok /\ call.text # <<>> /\ Head(call.text) \in Quotes =>
                \/ Last(call.text) = Head(call.text)
                \/ Head(call.text) = "double" /\ call.text[Len(call.text) - 1] = "slash"
=============================================================================
