------------------------------ MODULE Encoding ------------------------------
(***************************************************************************)
(* Bytes to text and back: the base64 and hex functions of encoding.hpp.   *)
(* Data is a sequence of bytes.  A base64 character is the six bits it     *)
(* stands for, Pad, or another character; a hex character its four bits,   *)
(* or one of the others strtoul() knows.                                   *)
(***************************************************************************)
EXTENDS Integers, Sequences, SequencesExt

CONSTANTS Inputs,   \* what may be encoded: pairs of a codec and its data
          Texts,    \* what may be decoded although nothing encoded it, likewise
          Rooms,    \* the sizes of the buffer that is decoded to
          SizeT     \* the values of size_t

VARIABLES codec,    \* "b64" or "hex"
          source,   \* the data that was encoded, or None
          coded,    \* the text
          decoded,  \* None, or [count, bytes, room]: the result, what was written, the buffer
          stepped   \* what is done: "none", "encode" or "decode"

None == [none |-> TRUE]
Pad == 64
Other == 65
Space == 16
Minus == 17
Nul == 18

Byte(data, n) == IF n <= Len(data) THEN data[n] ELSE 0
Sub(a, b) == (a - b) % SizeT

\* (Mutated form of Group: four characters whatever is left of the data.)
FourOf(data, i) ==
    LET c == Byte(data, i + 1) * 65536 + Byte(data, i + 2) * 256 + Byte(data, i + 3)
    IN <<c \div 262144, (c \div 4096) % 64, (c \div 64) % 64, c % 64>>

\* The characters of the group that starts at i; the third and the fourth depend on
\* comparisons with size - 1 and size - 2 in size_t.
Group(data, i) ==
    LET c == Byte(data, i + 1) * 65536 + Byte(data, i + 2) * 256 + Byte(data, i + 3)
        size == Len(data)
    IN <<c \div 262144, (c \div 4096) % 64>>
       \o (IF i < Sub(size, 1) THEN <<(c \div 64) % 64>> ELSE <<>>)
       \o (IF i < Sub(size, 2) THEN <<c % 64>> ELSE <<>>)

to_b64(data) ==
    FlattenSeq([g \in 1..((Len(data) + 2) \div 3) |-> Group(data, 3 * (g - 1))])
    \o (CASE Len(data) % 3 = 1 -> <<Pad, Pad>> [] Len(data) % 3 = 2 -> <<Pad>> [] OTHER -> <<>>)

base64_index(c) == IF c < 64 THEN c ELSE -1

\* The index of the last character before the padding says how much is decoded.
size_b64(from) ==
    LET last == CHOOSE n \in 0..Len(from) - 1 :
                   /\ n = 0 \/ from[n + 1] # Pad
                   /\ \A m \in n + 1..Len(from) - 1 : from[m + 1] = Pad
        out == (last \div 4) * 3 + 3
    IN IF from = <<>> THEN 0
       ELSE CASE last % 4 = 0 -> out [] last % 4 = 1 -> out - 2 [] last % 4 = 2 -> out - 1 [] OTHER -> 0

\* A byte is complete after every eight bits; characters with no index are skipped.
from_b64(from, maxsize) ==
    LET out == size_b64(from)
        bits == SelectSeq(from, LAMBDA c : base64_index(c) >= 0)
        Whole(n) == LET at == 8 * (n - 1)
                        c == at \div 6
                        two == bits[c + 1] * 64 + bits[c + 2]
                    IN (two \div (2 ^ (4 - (at % 6)))) % 256
        count == IF out > maxsize THEN 0
                 ELSE Min({out, (Len(bits) * 6) \div 8})
    IN [count |-> count, bytes |-> [n \in 1..count |-> Whole(n)], room |-> maxsize]

to_hex(from) == FlattenSeq([n \in 1..Len(from) |-> <<from[n] \div 16, from[n] % 16>>])

\* strtoul() of two characters: the number, or -1 where it stops before the end.
strtoul(a, b) ==
    CASE a < 16 /\ b < 16 -> a * 16 + b
      [] a < 16 /\ b = Nul -> a
      [] a = Space /\ b < 16 -> b
      [] a = Minus /\ b < 16 -> (-b) % 256
      [] OTHER -> -1

\* A text of odd length is read one character beyond its end, which is behind.
from_hex(from, behind, size) ==
    LET maxsize == Min({Len(from), size * 2})
        Second(n) == IF 2 * n <= Len(from) THEN from[2 * n] ELSE behind
        Pair(n) == strtoul(from[2 * n - 1], Second(n))
        pairs == 1..((maxsize + 1) \div 2)
        bad == {n \in pairs : Pair(n) = -1}
        good == IF bad = {} THEN Cardinality(pairs) ELSE Min(bad) - 1
    IN [count |-> IF bad = {} THEN maxsize \div 2 ELSE good,
        bytes |-> [n \in 1..good |-> Pair(n)], room |-> size]

-----------------------------------------------------------------------------

EncodingInit == codec = "none" /\ source = None /\ coded = <<>> /\ decoded = None /\ stepped = "none"

\* A text that somebody else made.
Obtain ==
    /\ stepped = "none" /\ stepped' = "encode"
    /\ \E text \in Texts : codec' = text[1] /\ coded' = text[2]
    /\ UNCHANGED <<source, decoded>>

Encode ==
    /\ stepped = "none" /\ stepped' = "encode"
    /\ \E input \in Inputs :
          /\ codec' = input[1] /\ source' = [data |-> input[2]]
          /\ coded' = IF input[1] = "b64" THEN to_b64(input[2]) ELSE to_hex(input[2])
    /\ UNCHANGED decoded

Decode ==
    /\ stepped = "encode" /\ stepped' = "decode"
    /\ \E room \in Rooms :
          \/ codec = "b64" /\ decoded' = from_b64(coded, room)
          \/ codec = "hex" /\ \E behind \in {Nul, 10, Other} : decoded' = from_hex(coded, behind, room)
    /\ UNCHANGED <<codec, source, coded>>

EncodingNext == Obtain \/ Encode \/ Decode

EncodingSpec == EncodingInit /\ [][EncodingNext]_<<codec, source, coded, decoded, stepped>>

-----------------------------------------------------------------------------

\* Data that fits the buffer comes back from its encoding as it was, and nothing comes
\* back where it does not fit in base64.  In base64 this fails at two sizes: the
\* comparison with size - 2 wraps for a single byte, which comes back with a zero
\* behind it, and size_b64 takes a text without padding for an empty one, so that data
\* of a multiple of three bytes does not come back at all.
ComesBack ==
    stepped = "decode" /\ source # None =>
       LET data == source.data
           size == Len(data)
       IN IF codec = "hex"
          THEN decoded.bytes = SubSeq(data, 1, Min({size, decoded.room})) /\ decoded.count = Len(decoded.bytes)
          ELSE decoded.bytes = CASE size = 1 /\ decoded.room >= 2 -> data \o <<0>>
                                 [] (size = 1 /\ decoded.room < 2) \/ size % 3 = 0 \/ size > decoded.room -> <<>>
                                 [] OTHER -> data

\* Whatever text is decoded, the buffer is not overrun, and what is counted was written;
\* a hex text of odd length writes one byte that is not counted.
StaysInRoom ==
    stepped = "decode" =>
       /\ Len(decoded.bytes) <= decoded.room /\ decoded.count <= Len(decoded.bytes)
       /\ codec = "b64" \/ Len(coded) % 2 = 0 => decoded.count = Len(decoded.bytes)
=============================================================================
