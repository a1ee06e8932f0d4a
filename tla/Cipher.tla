------------------------------- MODULE Cipher -------------------------------
(***************************************************************************)
(* keyphrase_t, decrypt_t and encrypt_t of cipher.hpp.  An algorithm has a *)
(* key length and a tag size; a cipher context of the library is allocated *)
(* or freed and is keyed with a phrase's key.  What the library may refuse *)
(* (memory, a key) is a choice.                                            *)
(***************************************************************************)
EXTENDS Integers, FiniteSets, FiniteSetsExt

CONSTANTS Phrases,    \* the keyphrase_t variables
          Decrypts, Encrypts,  \* the decrypt_t and the encrypt_t variables
          Algos,      \* the algorithms
          KeyLength,  \* algorithm -> the length of its key
          Tag,        \* algorithm -> the size of its tag, 0 for none
          Salts,      \* the lengths of salts
          SaltSize,   \* the one length that is accepted
          MaxLive     \* how many of the objects there are at a time

VARIABLES phrase,     \* keyphrase_t -> [cipher, size, algo]: cipher_, size_, and the algorithm
                      \* its data_ and iv_ were made for
          live,       \* the decrypt_t and encrypt_t objects that are constructed
          ctx_,       \* object -> its EVP_CIPHER_CTX, or Null
          algo_,      \* object -> its algorithm, or NoAlgo
          tag_,       \* object -> its tag size
          heap,       \* the contexts that are allocated
          keyed,      \* context -> the keyphrase_t value it was keyed with
          burnt,      \* the objects that the library refused a key
          crashed     \* whether the length of the key of no cipher was asked for

CipherAssumption ==
    /\ MaxLive \in Nat /\ KeyLength \in [Algos -> Nat] /\ Tag \in [Algos -> Nat]

cipherVars == <<phrase, live, ctx_, algo_, tag_, heap, keyed, burnt, crashed>>

NoAlgo == "none"
Null == 0
Ciphers == Decrypts \cup Encrypts
Contexts == 1..MaxLive + 1
NoPhrase == [cipher |-> NoAlgo, size |-> 0, algo |-> NoAlgo]
Length(algo) == IF algo = NoAlgo THEN 0 ELSE KeyLength[algo]
get_tag_size(algo) == IF algo = NoAlgo THEN 0 ELSE Tag[algo]
objectsV == <<live, ctx_, algo_, tag_, heap, keyed, burnt>>

-----------------------------------------------------------------------------
\* keyphrase_t.

is_salt(salt) == salt = SaltSize

\* The key made for algo, or none: a salt of another length or a derivation that fails.
SizeFor(algo, salt) == IF is_salt(salt) THEN {0, Length(algo)} ELSE {0}

\* The constructors from a phrase and from a key.
MakePhrase(k, algo, salt) ==
    /\ \E size \in SizeFor(algo, salt) :
          phrase' = [phrase EXCEPT ![k] = [cipher |-> algo, size |-> size, algo |-> algo]]
    /\ UNCHANGED objectsV

\* set() makes a key for algo and leaves cipher_ as it is.
Reset(k, algo, salt) ==
    /\ \E size \in SizeFor(algo, salt) :
          phrase' = [phrase EXCEPT ![k].size = size, ![k].algo = IF is_salt(salt) THEN algo ELSE @]
    /\ UNCHANGED objectsV

\* A key without a size leaves data_ and iv_ as they are.
CopyPhrase(k, other) ==
    /\ k # other
    /\ phrase' = [phrase EXCEPT ![k] = [phrase[other] EXCEPT !.algo = IF phrase[other].size = 0 THEN phrase[k].algo ELSE @]]
    /\ UNCHANGED objectsV

-----------------------------------------------------------------------------
\* decrypt_t and encrypt_t.

NewContext(used) == Min(Contexts \ used)
Becomes(o, c, algo, tag) ==
    /\ ctx_' = [ctx_ EXCEPT ![o] = c] /\ algo_' = [algo_ EXCEPT ![o] = algo]
    /\ tag_' = [tag_ EXCEPT ![o] = tag] /\ UNCHANGED phrase
Keyed(c, gone, k) ==
    keyed' = [d \in Contexts |-> IF d = c THEN phrase[k] ELSE IF d \in gone THEN NoPhrase ELSE keyed[d]]
Frees(gone) == heap' = heap \ gone /\ keyed' = [d \in Contexts |-> IF d \in gone THEN NoPhrase ELSE keyed[d]]
Appears(o) == o \notin live /\ Cardinality(live) < MaxLive /\ live' = live \cup {o}

\* Without a key there is an algorithm and no context.
Construct(o, algo) ==
    /\ Appears(o) /\ Becomes(o, Null, algo, 0)
    /\ UNCHANGED <<heap, keyed, burnt>>

\* o is keyed by a new context, what is in gone being freed.
Succeeds(o, k, tag, gone) ==
    LET c == NewContext(heap \ gone)
    IN /\ Becomes(o, c, phrase[k].cipher, tag) /\ heap' = (heap \ gone) \cup {c} /\ Keyed(c, gone, k)
       /\ burnt' = burnt \ {o}

\* o has no context, and none is left over.
Declines(o, algo, tag, gone) ==
    /\ Becomes(o, Null, algo, tag) /\ Frees(gone) /\ burnt' = burnt \ {o}

\* The new context is freed and the pointer to it stays: whatever is done with o next
\* goes to freed memory, and the model leaves o alone.
Burns(o, algo, tag, gone) ==
    /\ Becomes(o, NewContext(heap \ gone), algo, tag) /\ Frees(gone)
    /\ burnt' = burnt \cup {o}

\* The key's length is not looked at.
DecryptUnchecked(o, k) ==
    /\ o \in Decrypts /\ Appears(o) /\ phrase[k].cipher # NoAlgo
    /\ Succeeds(o, k, get_tag_size(phrase[k].cipher), {})

\* decrypt_t(key): no memory, a key of the wrong length or a refusal leave no context.
DecryptFrom(o, k) ==
    /\ o \in Decrypts /\ Appears(o)
    /\ LET algo == phrase[k].cipher
       IN \/ Declines(o, algo, 0, {})
          \/ algo # NoAlgo /\ Declines(o, algo, get_tag_size(algo), {})
          \/ algo # NoAlgo /\ phrase[k].size = Length(algo) /\ Succeeds(o, k, get_tag_size(algo), {})

\* encrypt_t(key): a refusal frees the context and keeps the pointer.
EncryptFrom(o, k) ==
    /\ o \in Encrypts /\ Appears(o)
    /\ LET algo == phrase[k].cipher
       IN \/ Declines(o, algo, 0, {})
          \/ /\ algo # NoAlgo /\ phrase[k].size = Length(algo)
             /\ Succeeds(o, k, get_tag_size(algo), {}) \/ Burns(o, algo, get_tag_size(algo), {})

\* operator=(key) of both: another algorithm throws, the old context goes first.
Rekey(o, k) ==
    /\ o \in live \ burnt /\ phrase[k].cipher = algo_[o] /\ algo_[o] # NoAlgo /\ UNCHANGED live
    /\ LET algo == algo_[o]
           gone == {ctx_[o]}
       IN \/ Declines(o, algo, tag_[o], gone)
          \/ /\ phrase[k].size = Length(algo)
             /\ Succeeds(o, k, get_tag_size(algo), gone) \/ Burns(o, algo, get_tag_size(algo), gone)

\* A keyphrase_t that was default-constructed has no cipher, whatever set() has made of
\* it: keysize() of an object that takes it, when constructed or because it has none
\* either, reads through the null pointer.
NullCipher(o, k) ==
    /\ phrase[k].cipher = NoAlgo
    /\ (o \notin live /\ Cardinality(live) < MaxLive) \/ (o \in live \ burnt /\ algo_[o] = NoAlgo)
    /\ crashed' = TRUE /\ UNCHANGED <<phrase, objectsV>>

DecryptRekey(o, k) == o \in Decrypts /\ Rekey(o, k)
EncryptRekey(o, k) == o \in Encrypts /\ Rekey(o, k)

\* A source without a context gives neither that nor its algorithm.
Moved(o, other, gone, algo, tag) ==
    /\ IF ctx_[other] = Null
       THEN ctx_' = [ctx_ EXCEPT ![o] = Null] /\ algo_' = [algo_ EXCEPT ![o] = algo]
            /\ tag_' = [tag_ EXCEPT ![o] = tag]
       ELSE /\ ctx_' = [ctx_ EXCEPT ![o] = ctx_[other], ![other] = Null]
            /\ algo_' = [algo_ EXCEPT ![o] = algo_[other]] /\ tag_' = [tag_ EXCEPT ![o] = tag_[other]]
    /\ Frees(gone) /\ UNCHANGED <<phrase, burnt>>

MoveConstruct(o, other) == other \in live \ burnt /\ Appears(o) /\ Moved(o, other, {}, NoAlgo, 0)

\* The context the target had is not freed.
MoveAssignLeaks(o, other) ==
    /\ o # other /\ {o, other} \subseteq live \ burnt /\ UNCHANGED live
    /\ Moved(o, other, {}, algo_[o], tag_[o])

MoveAssign(o, other) ==
    /\ o # other /\ {o, other} \subseteq live \ burnt /\ UNCHANGED live
    /\ Moved(o, other, {ctx_[o]}, algo_[o], tag_[o])

DecryptMove(o, other) ==
    {o, other} \subseteq Decrypts /\ (MoveConstruct(o, other) \/ MoveAssign(o, other))
EncryptMoveConstruct(o, other) == {o, other} \subseteq Encrypts /\ MoveConstruct(o, other)
EncryptMoveAssign(o, other) == {o, other} \subseteq Encrypts /\ MoveAssign(o, other)

\* finish() of both uses the context up.
DecryptFinish(o) ==
    /\ o \in (live \cap Decrypts) \ burnt /\ ctx_[o] # Null /\ Becomes(o, Null, algo_[o], tag_[o])
    /\ Frees({ctx_[o]}) /\ UNCHANGED <<live, burnt>>

EncryptFinish(o) ==
    /\ o \in (live \cap Encrypts) \ burnt /\ ctx_[o] # Null /\ Becomes(o, Null, algo_[o], tag_[o])
    /\ Frees({ctx_[o]}) /\ UNCHANGED <<live, burnt>>

Destroy(o) ==
    /\ o \in live \ burnt /\ live' = live \ {o} /\ Becomes(o, Null, NoAlgo, 0)
    /\ Frees({ctx_[o]}) /\ UNCHANGED burnt

-----------------------------------------------------------------------------

CipherInit ==
    /\ phrase = [k \in Phrases |-> NoPhrase] /\ live = {} /\ ctx_ = [o \in Ciphers |-> Null]
    /\ algo_ = [o \in Ciphers |-> NoAlgo] /\ tag_ = [o \in Ciphers |-> 0]
    /\ heap = {} /\ keyed = [c \in Contexts |-> NoPhrase] /\ burnt = {} /\ crashed = FALSE

ObjectsNext ==
    \/ \E k \in Phrases, algo \in Algos, salt \in Salts : MakePhrase(k, algo, salt) \/ Reset(k, algo, salt)
    \/ \E k, other \in Phrases : CopyPhrase(k, other)
    \/ \E o \in Ciphers, algo \in Algos : Construct(o, algo)
    \/ \E o \in Ciphers, k \in Phrases : \/ DecryptFrom(o, k) \/ EncryptFrom(o, k)
                                         \/ DecryptRekey(o, k) \/ EncryptRekey(o, k)
    \/ \E o, other \in Ciphers : \/ DecryptMove(o, other) \/ EncryptMoveConstruct(o, other)
                                 \/ EncryptMoveAssign(o, other)
    \/ \E o \in Ciphers : DecryptFinish(o) \/ EncryptFinish(o) \/ Destroy(o)

CipherNext ==
    /\ ~crashed
    /\ \/ ObjectsNext /\ UNCHANGED crashed
       \/ \E o \in Ciphers, k \in Phrases : NullCipher(o, k)

CipherSpec == CipherInit /\ [][CipherNext]_cipherVars

-----------------------------------------------------------------------------

\* The contexts are those of the objects, each of one, except where the library refused
\* a key: there the object points to a context that is freed.
ContextsOwned ==
    /\ heap = {ctx_[o] : o \in live \ burnt} \ {Null}
    /\ \A o, p \in live \ burnt : ctx_[o] = ctx_[p] /\ ctx_[o] # Null => o = p

\* Whatever happened to the phrases since, an object with a context works with a key of
\* the length its own algorithm has, from a phrase of that algorithm, and knows its tag.
KeyedForAlgo ==
    \A o \in live \ burnt : ctx_[o] # Null =>
       /\ keyed[ctx_[o]].cipher = algo_[o] /\ keyed[ctx_[o]].size = Length(algo_[o])
       /\ tag_[o] = get_tag_size(algo_[o])
=============================================================================
