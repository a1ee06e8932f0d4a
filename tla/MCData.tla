------------------------------- MODULE MCData -------------------------------
(***************************************************************************)
(* The data structures of atomics.hpp, memory.hpp, args.hpp and hash.hpp,  *)
(* and the classes over OpenSSL of bignum.hpp, digest.hpp, cipher.hpp,     *)
(* x509.hpp, sign.hpp and eckey.hpp, one of them per behaviour: focus says *)
(* which.  They share no state, so that a run over all of them, and over   *)
(* the classes that MCTools adds, is the sum of the runs over each.        *)
(***************************************************************************)
EXTENDS Integers, Sequences, FiniteSets, TLC

CONSTANTS Threads,                           \* of the words and of the stack
          Width, MaxOps,
          S, MaxPush, MaxPop,
          BufferS, BufferMaxPush, MaxPull,
          Mappers, MapKeys, EmptiesOnMove, EmptyKey, MaxNodes, MaxMapOps,   \* dictionary_t
          Pagers, PageSize, PtrSize, HeaderSize, Requests, MaxPages, MaxBlocks,
          Pools, Size, MaxArrays, MaxObjects,
          Sharers, Sizes, MaxShared,         \* shared_mem
          Options, Id, Code, Counter, Usage, Arguments, MaxArgs, MaxSets,     \* args
          RingNodes, Vnodes, RingPoints, RingHashes, MaxRingCalls, ULong,     \* hash64_ring
          Numbers, NumberValues, NumberWords,                                 \* bignum_t
          Certs, Pubs, Ecs, Signers, Verifiers, EvpKeys, X509s, MaxUp, MaxLeaks,
          Digests, Pieces, MaxPieces,                                         \* digest_t
          Phrases, Decrypts, Encrypts, Algos, KeyLength, Tag, Salts, SaltSize, MaxLive

VARIABLES focus,
          cell, wordPc, local, wordOps, drawn, wins, resets, net,
          stackCount, stackData, stackPc, index, item, npush, npop, stored, taken,
          head, tail, bufferData, ppc, ptail, cpc, chead, ctail, pushed, pulls, pulled,
          table, next, key, dictCount, dictFreed, dictPc, op, arg, cur, prev, dictMade,
          nodes, dictOps, live, there, overlap, doubled, broken, missed,
          current_, used, pagesMade, pagesFreed, blocks, lost,
          ptr_, dynamic_, used_, free_, arrays, deleted, held, cleared,
          spare, objects, alive, twice,
          array, memSize, memPc, memMade, written, wiped, memFreed, raced,
          list, at, letters, parsing, value_, argv_, role, sets,
          ring_, ringSize, hash_, joined, listed, called, ringCalls,
          bigs, bigNum, numbers, bigVal, contexts, bigFault,
          keyUp, cert_, xrefs, xkey, key_, refs, aes, signCtx, signSize, leaked, keyFault,
          digests, digestCtx, digestSize, data_, since,
          phrase, ciphers, cipherCtx, algo_, tag_, cipherHeap, keyed, burnt, crashed

Word == INSTANCE AtomicWord WITH kind <- focus, pc <- wordPc, ops <- wordOps

Stack == INSTANCE Stack WITH count <- stackCount, data <- stackData, pc <- stackPc

Buffer == INSTANCE Buffer WITH S <- BufferS, MaxPush <- BufferMaxPush, data <- bufferData

Dict == INSTANCE Dictionary WITH
    Threads <- Mappers, Keys <- MapKeys, MaxOps <- MaxMapOps, count <- dictCount,
    freed <- dictFreed, pc <- dictPc, made <- dictMade, ops <- dictOps

Pager == INSTANCE MemPager WITH made <- pagesMade, freed <- pagesFreed

Pool == INSTANCE MemPool

Mem == INSTANCE SharedMem WITH
    Handles <- Sharers, MaxBlocks <- MaxShared, size_ <- memSize, pc <- memPc, made <- memMade,
    freed <- memFreed

Args == INSTANCE Args

Ring == INSTANCE HashRing WITH
    Nodes <- RingNodes, Points <- RingPoints, Hashes <- RingHashes, size_ <- ringSize

Big == INSTANCE BigNum WITH
    Objects <- Numbers, Values <- NumberValues, Words <- NumberWords,
    alive <- bigs, num_ <- bigNum, val <- bigVal, fault <- bigFault

Held == INSTANCE KeyHandles WITH
    Keys <- EvpKeys, up <- keyUp, ctx <- signCtx, size_ <- signSize

Hash == INSTANCE Digest WITH made <- digests, ctx_ <- digestCtx

Crypt == INSTANCE Cipher WITH live <- ciphers, ctx_ <- cipherCtx, heap <- cipherHeap

ASSUME DataAssumption == /\ Word!WordAssumption /\ Stack!StackAssumption /\ Buffer!BufferAssumption
                         /\ Dict!DictAssumption /\ Pager!PagerAssumption /\ Pool!PoolAssumption /\ Mem!MemAssumption
                         /\ Args!ArgsAssumption /\ Ring!RingAssumption

ASSUME CryptoAssumption == Big!BigAssumption /\ Held!KeyAssumption /\ Crypt!CipherAssumption

\* The three classes that are one word.
Words == {"sequence", "once", "ref"}

Structures == Words \cup {"stack", "buffer", "dictionary", "pager", "pool", "reuse", "memory", "args", "ring"}

DataInit ==
    /\ IF focus \in Words THEN Word!WordInit
       ELSE /\ cell = 0 /\ wordPc = <<>> /\ local = <<>> /\ wordOps = 0 /\ drawn = <<>>
            /\ wins = 0 /\ resets = 0 /\ net = 0
    /\ Stack!StackInit /\ Buffer!BufferInit /\ Dict!DictInit /\ Pager!PagerInit
    /\ Pool!PoolInit /\ Mem!MemInit /\ Args!ArgsInit /\ Ring!RingInit

wordV == <<cell, wordPc, local, wordOps, drawn, wins, resets, net>>
stackV == <<stackCount, stackData, stackPc, index, item, npush, npop, stored, taken>>
bufferV == <<head, tail, bufferData, ppc, ptail, cpc, chead, ctail, pushed, pulls, pulled>>
dictV == <<table, next, key, dictCount, dictFreed, dictPc, op, arg, cur, prev, dictMade,
           nodes, dictOps, live, there, overlap, doubled, broken, missed>>
pagerV == <<current_, used, pagesMade, pagesFreed, blocks, lost>>
poolV == <<ptr_, dynamic_, used_, free_, arrays, deleted, held, cleared,
           spare, objects, alive, twice>>
memV == <<array, memSize, memPc, memMade, written, wiped, memFreed, raced>>
argsV == <<list, at, letters, parsing, value_, argv_, role, sets>>
ringV == <<ring_, ringSize, hash_, joined, listed, called, ringCalls>>

dataV == <<wordV, stackV, bufferV, dictV, pagerV, poolV, memV, argsV, ringV>>

DataNext ==
    \/ focus \in Words /\ Word!WordNext
       /\ UNCHANGED <<stackV, bufferV, dictV, pagerV, poolV, memV, argsV, ringV>>
    \/ focus = "stack" /\ Stack!StackNext
       /\ UNCHANGED <<focus, wordV, bufferV, dictV, pagerV, poolV, memV, argsV, ringV>>
    \/ focus = "buffer" /\ Buffer!BufferNext
       /\ UNCHANGED <<focus, wordV, stackV, dictV, pagerV, poolV, memV, argsV, ringV>>
    \/ focus = "dictionary" /\ Dict!DictNext
       /\ UNCHANGED <<focus, wordV, stackV, bufferV, pagerV, poolV, memV, argsV, ringV>>
    \/ focus = "pager" /\ Pager!PagerNext
       /\ UNCHANGED <<focus, wordV, stackV, bufferV, dictV, poolV, memV, argsV, ringV>>
    \/ focus = "pool" /\ Pool!PoolNext
       /\ UNCHANGED <<focus, wordV, stackV, bufferV, dictV, pagerV, memV, argsV, ringV>>
    \/ focus = "reuse" /\ Pool!ReuseNext
       /\ UNCHANGED <<focus, wordV, stackV, bufferV, dictV, pagerV, memV, argsV, ringV>>
    \/ focus = "memory" /\ Mem!MemNext
       /\ UNCHANGED <<focus, wordV, stackV, bufferV, dictV, pagerV, poolV, argsV, ringV>>
    \/ focus = "args" /\ Args!ArgsNext
       /\ UNCHANGED <<focus, wordV, stackV, bufferV, dictV, pagerV, poolV, memV, ringV>>
    \/ focus = "ring" /\ Ring!RingNext
       /\ UNCHANGED <<focus, wordV, stackV, bufferV, dictV, pagerV, poolV, memV, argsV>>

DataSpec == focus \in Structures /\ DataInit /\ [][DataNext]_<<focus, dataV>>

-----------------------------------------------------------------------------

\* The classes over OpenSSL.
CryptoClasses == {"bignum", "keys", "digest", "cipher"}

CryptoInit == Big!BigInit /\ Held!KeyInit /\ Hash!DigestInit /\ Crypt!CipherInit

bigV == <<bigs, bigNum, numbers, bigVal, contexts, bigFault>>
heldV == <<keyUp, cert_, xrefs, xkey, key_, refs, aes, signCtx, signSize, leaked, keyFault>>
hashV == <<digests, digestCtx, digestSize, data_, since>>
cryptV == <<phrase, ciphers, cipherCtx, algo_, tag_, cipherHeap, keyed, burnt, crashed>>

cryptoV == <<bigV, heldV, hashV, cryptV>>

CryptoNext ==
    \/ focus = "bignum" /\ Big!BigNext /\ UNCHANGED <<focus, heldV, hashV, cryptV>>
    \/ focus = "keys" /\ Held!KeyNext /\ UNCHANGED <<focus, bigV, hashV, cryptV>>
    \/ focus = "digest" /\ Hash!DigestNext /\ UNCHANGED <<focus, bigV, heldV, cryptV>>
    \/ focus = "cipher" /\ Crypt!CipherNext /\ UNCHANGED <<focus, bigV, heldV, hashV>>

CryptoSpec == focus \in CryptoClasses /\ CryptoInit /\ [][CryptoNext]_<<focus, cryptoV>>

-----------------------------------------------------------------------------

\* sequence_t never hands out the same value twice between stores, until it has
\* wrapped; once_t answers true at most once per arming; a word updated through
\* atomic_ref by several threads loses no update.
WordKept == focus \in Words => Word!TicketsUnique /\ Word!WordKept

\* stack_t and buffer_t: whatever the threads do, the corrections of failed calls
\* cancel no claim, nothing is written outside the array, and a slot is read only
\* after it was written.
ClaimsBalance == Stack!ClaimsBalance /\ Buffer!DeliversWritten

\* dictionary_t: as long as remove() and clear() run alone, inserts and searches of
\* any threads lose no node, touch no deleted one, miss no key that was there all
\* along, and double a key only where two threads insert it at once or try_emplace()
\* has moved from it before it looks for it.
DictionaryKept == Dict!ListIsLive /\ Dict!NeverMisses /\ Dict!OneNodePerKey

\* mempager, mempool, memreuse and shared_mem: through any moves a page, a slot or an
\* object is handed out to one user at a time and given back once, and shared memory
\* is wiped by its last user and under nobody else.
MemoryKept ==
    /\ Pager!BlocksDisjoint /\ Pool!SlotsHandedOnce /\ Pool!SparesAreDead
    /\ Mem!WipedWhenLast

\* args::parse: every argument is used exactly once, and every option has the value
\* that was meant for it.
EachArgumentOnce == Args!EachArgumentOnce

\* hash64_ring: a node that joins or leaves moves only the keys it takes over or gives
\* up, however the virtual nodes collide; without collisions the ring depends on its
\* members only, not on the order they came and went in.
RingKept == Ring!MovesOnlyItsKeys /\ []Ring!RingOfMembers

\* The classes over OpenSSL: through every copy, move, assignment and failure what an
\* object holds is allocated, is freed once and is not shared but by a counted
\* reference; a digest and a cipher context belong to what their object was given, and
\* bytes that were derived to the pair it has, whatever failed unnoticed.
CryptoHeld ==
    /\ Big!NumbersOwned /\ Held!RefsBalanced /\ Held!DerivedFromOwn
    /\ Hash!DigestOfAll /\ Crypt!ContextsOwned /\ Crypt!KeyedForAlgo
=============================================================================
