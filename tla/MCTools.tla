------------------------------ MODULE MCTools -------------------------------
(***************************************************************************)
(* The readers and writers of text of scan.hpp and encoding.hpp, one of    *)
(* them per behaviour, and the classes of MCData with them.                *)
(***************************************************************************)
EXTENDS MCData, SequencesExt

CONSTANTS t1, t2, t3, k1, k2                 \* the users and keys of the data structures

VARIABLES scanned, answer,
          codec, source, coded, decoded, stepped

-----------------------------------------------------------------------------
\* The options and arguments of args, and the hashes of hash64_ring.

Token(kind, id, eq, letters_) == [kind |-> kind, id |-> id, eq |-> eq, letters |-> letters_]

\* A flag, a counter and an option with a value; by id, by letter and wrongly.
Tokens ==
    {Token("word", "", FALSE, <<>>), Token("stop", "", FALSE, <<>>),
     Token("long", "flag", FALSE, <<>>), Token("long", "verbose", TRUE, <<>>),
     Token("long", "out", FALSE, <<>>), Token("long", "out", TRUE, <<>>),
     Token("long", "other", FALSE, <<>>), Token("dash", "out", FALSE, <<"o", "u", "t">>)}
    \cup {Token("dash", "letters", FALSE, l) :
            l \in {<<"f">>, <<"v", "v">>, <<"o", "f">>, <<"f", "x">>, <<"o">>}}

OptionIds == <<"flag", "verbose", "out">>
OptionCodes == <<"f", "v", "o">>

\* Three nodes of two virtual nodes; every way the third may collide with the others.
Fixed == <<"a", 1>> :> 1 @@ <<"a", 2>> :> 4 @@ <<"b", 1>> :> 2
Places == {Fixed @@ (<<"b", 2>> :> p @@ <<"c", 1>> :> q @@ <<"c", 2>> :> r) :
             p \in {1, 5}, q \in 1..6, r \in 1..6}

\* The integers a bignum_t is held to.
SmallIntegers == -3..3

\* Two algorithms, with and without a tag.
KeyLengths == "gcm" :> 2 @@ "des" :> 1
Tags == "gcm" :> 1 @@ "des" :> 0

-----------------------------------------------------------------------------
\* The calls of the readers.

Request(fn, text, after, size, bounds, says) ==
    [fn |-> fn, text |-> text, after |-> after, size |-> size,
     min |-> bounds[1], max |-> bounds[2], says |-> says]
Plain(fns, texts) == {Request(f, t, a, 1, <<0, 0>>, <<>>) : f \in fns, t \in texts, a \in {"", ":"}}
Ranged(fns, texts, size, bounds) == {Request(f, t, "", size, b, <<>>) : f \in fns, t \in texts, b \in bounds}

Nines(n) == [i \in 1..n |-> "9"]
Truths == {<<>>, <<"T", "r", "u", "e">>, <<"f", "a", "l", "s", "e">>, <<"Y", "e", "s">>, <<"n", "o">>,
           <<"t">>, <<"f">>, <<"O", "n">>, <<"o", "f", "f">>, <<"x">>}
Spell(c) == IF c = "newline" THEN <<"slash", "n">> ELSE IF c = "a" THEN <<c>> ELSE <<"slash", c>>
Spelled(body) == <<"double">> \o FlattenSeq([i \in 1..Len(body) |-> Spell(body[i])]) \o <<"double">>

\* Ranges with both signs, one that only holds negative numbers, and the whole type.
Ranges == {<<1, 25>>, <<-25, 25>>, <<-25, 9>>, <<-1024, 1023>>, <<-20, -10>>}

Readers ==
    Ranged({"value", "integer_or"}, BoundedSeq({"-", "1", "9", "x"}, 4), 4, Ranges)
    \cup Ranged({"unsigned"}, BoundedSeq({"-", "1", "9", "x"}, 4), 1, {<<0, 255>>, <<10, 99>>})
    \cup Ranged({"unsigned", "hex"}, {Nines(n) : n \in {0, 4, 6, 7, 8}}, 8, {<<0, 1048575>>})
    \cup Ranged({"unsigned", "hex"}, BoundedSeq({"0", "x", "F", "$"}, 4), 1, {<<0, 255>>, <<16, 175>>})
    \cup Plain({"decimal", "real"}, BoundedSeq({"-", "1", ".", "e"}, 4) \cup {<<"1", "E", "+", "1">>})
    \cup Plain({"seconds", "timeout"}, BoundedSeq({"1", "9", ":", "M", "x"}, 4)
                                       \cup [1..7 -> {"1", ":"}] \cup {<<"9", "m", "s">>})
    \cup Plain({"bool"}, {p \o q : p, q \in Truths})
    \cup Plain({"string", "quoted"}, BoundedSeq({"single", "double", "slash", "n"}, 4))
    \cup Plain({"lower", "literal"}, BoundedSeq({"double", "T"}, 3))
    \cup {Request("spelled", Spelled(b), "", 1, <<0, 0>>, b) :
            b \in BoundedSeq({"newline", "double", "slash", "a"}, 3)}

Scan == INSTANCE Scan WITH
    IntMax <- 1023, ULong <- 1048576, Requests <- Readers, call <- scanned

\* Data of up to six bytes; texts with padding and strangers anywhere.
Codec == INSTANCE Encoding WITH
    Inputs <- {"b64", "hex"} \X (BoundedSeq({0, 77, 255}, 5) \cup [1..6 -> {90, 201}]),
    Texts <- ({"b64"} \X BoundedSeq({0, 63, 64, 65}, 5)) \cup ({"hex"} \X BoundedSeq({1, 15, 16, 17, 65}, 4)),
    Rooms <- {0, 1, 2, 6}, SizeT <- 256

-----------------------------------------------------------------------------

Tools == {"scan", "encoding"}

scanV == <<scanned, answer>>
codecV == <<codec, source, coded, decoded, stepped>>
toolsV == <<scanV, codecV>>

ToolsNext ==
    \/ focus = "scan" /\ Scan!ScanNext /\ UNCHANGED <<focus, codecV>>
    \/ focus = "encoding" /\ Codec!EncodingNext /\ UNCHANGED <<focus, scanV>>

Init ==
    /\ focus \in Tools \cup Structures \cup CryptoClasses
    /\ Scan!ScanInit /\ Codec!EncodingInit /\ DataInit /\ CryptoInit

Next ==
    \/ ToolsNext /\ UNCHANGED <<dataV, cryptoV>>
    \/ DataNext /\ UNCHANGED <<toolsV, cryptoV>>
    \/ CryptoNext /\ UNCHANGED <<toolsV, dataV>>

allVars == <<focus, toolsV, dataV, cryptoV>>

Spec == Init /\ [][Next]_allVars

-----------------------------------------------------------------------------

\* scan.hpp and encoding.hpp: numbers, fractions, durations, truth values and quoted
\* text are read as what they say or refused, and encoded bytes come back as they were
\* and within their buffer, at every length and bound but the ones named with each.
TextRead ==
    /\ Scan!NumbersRead /\ Scan!FractionsRead /\ Scan!DurationsRead /\ Scan!BoolsRead /\ Scan!TextsRead
    /\ Codec!ComesBack /\ Codec!StaysInRoom
=============================================================================
