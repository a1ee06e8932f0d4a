---------------------------- MODULE CryptoProofs ----------------------------
(***************************************************************************)
(* Proofs about the classes over OpenSSL as MCData puts them side by side, *)
(* with any objects, values, keys and algorithms: digest_t (Digest.tla),   *)
(* bignum_t (BigNum.tla), keyphrase_t, decrypt_t and encrypt_t             *)
(* (Cipher.tla), and the classes that count references to keys and         *)
(* certificates (KeyHandles.tla).                                          *)
(***************************************************************************)
EXTENDS MCData, FiniteSetTheorems, WellFoundedInduction, TLAPS

\* Of things with numbers some has the least.
LEMMA RankLow ==
    ASSUME NEW X, X # {}, NEW f, \A x \in X : f[x] \in Nat
    PROVE  \E x \in X : \A y \in X : f[x] <= f[y]
<1> DEFINE R == OpToRel(<, Nat)
           Y == {f[x] : x \in X}
<1>1. IsWellFoundedOn(R, Nat)
  BY NatLessThanWellFounded, Zenon
<1>2. \A x, y \in Nat : <<y, x>> \in R <=> y < x
  BY DEF OpToRel
<1>3. Y \subseteq Nat /\ Y # {}
  OBVIOUS
<1> HIDE DEF R
<1>4. PICK low \in Y : \A y \in Y : ~(<<y, low>> \in R)
  <2> HIDE DEF Y
  <2> QED BY <1>1, <1>3, WFMin, Zenon
<1>5. PICK x \in X : low = f[x]
  BY <1>4
<1>6. ASSUME NEW y \in X PROVE f[x] <= f[y]
  <2>1. ~(f[y] < low) /\ f[y] \in Nat /\ low \in Nat
    BY <1>2, <1>3, <1>4
  <2> QED BY <1>5, <2>1
<1> QED BY <1>6

LEMMA CountsMore ==
    ASSUME NEW X, NEW Y, NEW x, IsFiniteSet(X), Y = X \cup {x}, x \notin X
    PROVE  IsFiniteSet(Y) /\ Cardinality(Y) = Cardinality(X) + 1 /\ Cardinality(X) \in Nat
BY FS_AddElement, FS_CardinalityType

-----------------------------------------------------------------------------
(* digest_t. *)

DigestContext == [fed : Seq(Pieces), final : BOOLEAN, null : BOOLEAN]

DigestTypes ==
    /\ digests \subseteq Digests
    /\ digestCtx \in [Digests -> DigestContext] /\ digestSize \in [Digests -> {0, 1}]
    /\ data_ \in [Digests -> Seq(Pieces)] /\ since \in [Digests -> Seq(Pieces)]

\* What DigestOfAll says of a context c, a size, a digest and what was fed.
DigestTells(c, size, data, fed) ==
    c # Hash!None => (size # 0 => data = fed) /\ (c.final <=> size # 0) /\ c.fed = fed

DigestInv ==
    DigestTypes /\ \A d \in digests : DigestTells(digestCtx[d], digestSize[d], data_[d], since[d])

\* One object is set; the others are as they were.
LEMMA DigestSets ==
    ASSUME DigestInv, NEW d \in Digests, NEW c \in DigestContext, NEW size \in {0, 1}, NEW data \in Seq(Pieces),
           NEW fed \in Seq(Pieces), Hash!Sets(d, c, size, data, fed), digests' \subseteq digests \cup {d},
           d \in digests' => DigestTells(c, size, data, fed)
    PROVE  DigestInv'
<1>1. /\ digestCtx' = [digestCtx EXCEPT ![d] = c] /\ digestSize' = [digestSize EXCEPT ![d] = size]
      /\ data_' = [data_ EXCEPT ![d] = data] /\ since' = [since EXCEPT ![d] = fed]
  BY DEF Hash!Sets
<1>2. DigestTypes'
  BY <1>1 DEF DigestInv, DigestTypes
<1>3. ASSUME NEW e \in digests' PROVE DigestTells(digestCtx'[e], digestSize'[e], data_'[e], since'[e])
  <2>0. e \in Digests
    BY <1>2 DEF DigestTypes
  <2>1. CASE e = d
    BY <1>1, <2>1 DEF DigestInv, DigestTypes
  <2>2. CASE e # d
    <3>1. digestCtx'[e] = digestCtx[e] /\ digestSize'[e] = digestSize[e] /\ data_'[e] = data_[e] /\ since'[e] = since[e]
      BY <1>1, <2>0, <2>2 DEF DigestInv, DigestTypes
    <3>2. e \in digests
      BY <2>2
    <3> QED BY <3>1, <3>2 DEF DigestInv
  <2> QED BY <2>1, <2>2
<1> QED BY <1>2, <1>3 DEF DigestInv

LEMMA DigestParts ==
    /\ Hash!None \in DigestContext /\ <<>> \in Seq(Pieces)
    /\ \A final \in BOOLEAN, fed \in Seq(Pieces) :
          Hash!Context(fed, final) \in DigestContext /\ Hash!Context(fed, final) # Hash!None
BY DEF Hash!None, Hash!Context, DigestContext

LEMMA DigestStarts == ASSUME Hash!DigestInit PROVE DigestInv
BY DigestParts DEF Hash!DigestInit, DigestInv, DigestTypes

LEMMA DigestFresh ==
    ASSUME DigestInv, NEW d \in Digests, Hash!Make(d) \/ Hash!Destroy(d) \/ Hash!reinit(d) PROVE DigestInv'
<1>1. DigestTells(Hash!Context(<<>>, FALSE), 0, <<>>, <<>>) /\ \A data : DigestTells(Hash!Context(<<>>, FALSE), 0, data, <<>>)
  BY DEF DigestTells, Hash!Context
<1>2. \A size, data, fed : DigestTells(Hash!None, size, data, fed)
  BY DEF DigestTells
<1>3. data_[d] \in Seq(Pieces)
  BY DEF DigestInv, DigestTypes
<1>4. CASE Hash!Make(d)
  <2>1. PICK c \in {Hash!None, Hash!Context(<<>>, FALSE)} : Hash!Sets(d, c, 0, <<>>, <<>>)
    BY <1>4 DEF Hash!Make
  <2>2. c \in DigestContext /\ DigestTells(c, 0, <<>>, <<>>)
    BY <1>1, <1>2, <2>1, DigestParts
  <2>3. digests' = digests \cup {d}
    BY <1>4 DEF Hash!Make
  <2> QED BY <2>1, <2>2, <2>3, DigestParts, DigestSets
<1>5. CASE Hash!Destroy(d)
  <2>1. Hash!Sets(d, Hash!None, 0, <<>>, <<>>) /\ digests' = digests \ {d}
    BY <1>5 DEF Hash!Destroy
  <2> QED BY <2>1, DigestParts, DigestSets
<1>6. CASE Hash!reinit(d)
  <2>1. PICK c : c = IF digestCtx[d] = Hash!None THEN Hash!None ELSE Hash!Context(<<>>, FALSE)
    OBVIOUS
  <2>2. Hash!Sets(d, c, 0, data_[d], <<>>) /\ digests' = digests
    BY <1>6, <2>1 DEF Hash!reinit
  <2>3. c \in DigestContext /\ DigestTells(c, 0, data_[d], <<>>)
    BY <1>1, <1>2, <2>1, DigestParts
  <2> QED BY <1>3, <2>2, <2>3, DigestParts, DigestSets
<1> QED BY <1>4, <1>5, <1>6

LEMMA DigestFeeds ==
    ASSUME DigestInv, NEW d \in Digests, Hash!update(d) \/ Hash!finish(d) PROVE DigestInv'
<1>1. d \in digests /\ digests' = digests /\ digestCtx[d] # Hash!None /\ digestSize[d] = 0
  BY DEF Hash!update, Hash!finish, Hash!MayUpdate
<1>2. PICK c \in DigestContext : c = digestCtx[d]
  BY DEF DigestInv, DigestTypes
<1>3. c.final = FALSE /\ c.fed = since[d] /\ c.fed \in Seq(Pieces) /\ since[d] \in Seq(Pieces) /\ data_[d] \in Seq(Pieces)
  <2>1. DigestTells(c, 0, data_[d], since[d])
    BY <1>1, <1>2 DEF DigestInv
  <2> QED BY <1>1, <1>2, <2>1 DEF DigestInv, DigestTypes, DigestTells, DigestContext
<1>4. CASE Hash!update(d)
  <2>1. PICK piece \in Pieces : Hash!Sets(d, [c EXCEPT !.fed = Append(c.fed, piece)], 0, data_[d], Append(since[d], piece))
    BY <1>1, <1>2, <1>4 DEF Hash!update
  <2>0. PICK q \in Seq(Pieces) : q = since[d]
    BY <1>3
  <2>2. PICK s : s = Append(q, piece)
    OBVIOUS
  <2>9. s \in Seq(Pieces)
    BY <2>2
  <2>3. PICK e : e = [c EXCEPT !.fed = s]
    OBVIOUS
  <2>4. e \in DigestContext /\ e.fed = s /\ e.final = FALSE
    BY <1>3, <2>3, <2>9 DEF DigestContext
  <2>5. Hash!Sets(d, e, 0, data_[d], s) /\ DigestTells(e, 0, data_[d], s)
    BY <1>3, <2>0, <2>1, <2>2, <2>3, <2>4 DEF DigestTells
  <2> QED BY <1>1, <1>3, <2>4, <2>5, <2>9, DigestSets
<1>5. CASE Hash!finish(d)
  <2>1. PICK e : e = [c EXCEPT !.final = TRUE]
    OBVIOUS
  <2>2. e \in DigestContext /\ e.fed = since[d] /\ e.final = TRUE
    BY <1>3, <2>1 DEF DigestContext
  <2>3. Hash!Sets(d, e, 1, since[d], since[d]) /\ DigestTells(e, 1, since[d], since[d])
    <3>1. Hash!Sets(d, [digestCtx[d] EXCEPT !.final = TRUE], 1, digestCtx[d].fed, since[d])
      BY <1>5 DEF Hash!finish
    <3>2. [digestCtx[d] EXCEPT !.final = TRUE] = e /\ digestCtx[d].fed = since[d]
      BY <1>2, <1>3, <2>1
    <3>3. DigestTells(e, 1, since[d], since[d])
      BY <2>2 DEF DigestTells
    <3> QED BY <3>1, <3>2, <3>3
  <2> QED BY <1>1, <1>3, <2>2, <2>3, DigestSets
<1> QED BY <1>4, <1>5

LEMMA DigestCopies ==
    ASSUME DigestInv, NEW d \in Digests, NEW from \in Digests, Hash!CopyConstruct(d, from) \/ Hash!CopyAssign(d, from)
    PROVE  DigestInv'
<1>1. /\ digests' = digests \cup {d} /\ from \in digests
      /\ DigestTells(digestCtx[from], digestSize[from], data_[from], since[from])
  BY DEF Hash!CopyConstruct, Hash!CopyAssign, DigestInv
<1>2. /\ digestCtx[from] \in DigestContext /\ data_[d] \in Seq(Pieces) /\ data_[from] \in Seq(Pieces) /\ since[from] \in Seq(Pieces)
      /\ digestSize[d] \in {0, 1} /\ digestSize[from] \in {0, 1}
  BY DEF DigestInv, DigestTypes
<1>3. PICK old \in Seq(Pieces) : old = IF d \in digests THEN data_[d] ELSE <<>>
  BY <1>2, DigestParts
<1>4. PICK c \in {Hash!None, digestCtx[from]} :
          IF c = Hash!None
          THEN \E size \in {0, 1}, data \in Seq(Pieces) : Hash!Sets(d, Hash!None, size, data, <<>>)
          ELSE Hash!Sets(d, c, digestSize[from], IF digestSize[from] = 0 THEN old ELSE data_[from], since[from])
  <2>1. CASE Hash!CopyConstruct(d, from)
    BY <1>2, <1>3, <2>1, DigestParts DEF Hash!CopyConstruct, Hash!Copied
  <2>2. CASE Hash!CopyAssign(d, from)
    <3>1. PICK c \in Hash!Copied(d, from) :
          IF c = Hash!None
          THEN Hash!Sets(d, Hash!None, digestSize[d], IF digestSize[d] = 0 THEN data_[d] ELSE data_[from], <<>>)
          ELSE Hash!Sets(d, c, digestSize[from], IF digestSize[from] = 0 THEN data_[d] ELSE data_[from], since[from])
      BY <2>2 DEF Hash!CopyAssign
    <3>2. old = data_[d]
      BY <1>3, <2>2 DEF Hash!CopyAssign
    <3> QED BY <1>2, <3>1, <3>2 DEF Hash!Copied
  <2> QED BY <2>1, <2>2
<1>5. CASE c = Hash!None
  <2>1. PICK size \in {0, 1}, data \in Seq(Pieces) : Hash!Sets(d, Hash!None, size, data, <<>>)
    BY <1>4, <1>5
  <2>2. DigestTells(Hash!None, size, data, <<>>)
    BY DEF DigestTells
  <2> QED BY <1>1, <2>1, <2>2, DigestParts, DigestSets
<1>6. CASE c # Hash!None
  <2>1. PICK data \in Seq(Pieces) : data = IF digestSize[from] = 0 THEN old ELSE data_[from]
    BY <1>2
  <2>2. Hash!Sets(d, c, digestSize[from], data, since[from]) /\ c \in DigestContext
    BY <1>2, <1>4, <1>6, <2>1
  <2>3. DigestTells(c, digestSize[from], data, since[from])
    BY <1>1, <1>4, <1>6, <2>1 DEF DigestTells
  <2> QED BY <1>1, <1>2, <2>2, <2>3, DigestSets
<1> QED BY <1>5, <1>6

LEMMA DigestMoves ==
    ASSUME DigestInv, NEW d \in Digests, NEW from \in Digests, Hash!MoveConstruct(d, from) PROVE DigestInv'
<1>1. d \notin digests /\ from \in digests /\ digests' = digests \cup {d}
  BY DEF Hash!MoveConstruct
<1>2. PICK data \in Seq(Pieces) : data = IF digestSize[from] = 0 THEN <<>> ELSE data_[from]
  BY DigestParts DEF DigestInv, DigestTypes
<1>3. /\ digestCtx' = [digestCtx EXCEPT ![d] = digestCtx[from], ![from] = Hash!None]
      /\ digestSize' = [digestSize EXCEPT ![d] = digestSize[from], ![from] = 0]
      /\ data_' = [data_ EXCEPT ![d] = data]
      /\ since' = [since EXCEPT ![d] = since[from], ![from] = <<>>]
  BY <1>2 DEF Hash!MoveConstruct
<1>4. DigestTypes'
  BY <1>1, <1>3, DigestParts DEF DigestInv, DigestTypes
<1>5. ASSUME NEW e \in digests' PROVE DigestTells(digestCtx'[e], digestSize'[e], data_'[e], since'[e])
  <2>1. CASE e = d
    <3>1. digestCtx'[e] = digestCtx[from] /\ digestSize'[e] = digestSize[from] /\ data_'[e] = data /\ since'[e] = since[from]
      BY <1>1, <1>3, <2>1 DEF DigestInv, DigestTypes
    <3>2. DigestTells(digestCtx[from], digestSize[from], data_[from], since[from])
      BY <1>1 DEF DigestInv
    <3> QED BY <1>2, <3>1, <3>2 DEF DigestTells
  <2>2. CASE e = from
    <3>1. digestCtx'[e] = Hash!None
      BY <1>3, <2>2 DEF DigestInv, DigestTypes
    <3> QED BY <3>1 DEF DigestTells
  <2>3. CASE e # d /\ e # from
    <3>1. digestCtx'[e] = digestCtx[e] /\ digestSize'[e] = digestSize[e] /\ data_'[e] = data_[e] /\ since'[e] = since[e] /\ e \in digests
      BY <1>1, <1>3, <2>3 DEF DigestInv, DigestTypes
    <3> QED BY <3>1 DEF DigestInv
  <2> QED BY <2>1, <2>2, <2>3
<1> QED BY <1>4, <1>5 DEF DigestInv

LEMMA DigestStep == ASSUME DigestInv, [Hash!DigestNext]_(Hash!digestVars) PROVE DigestInv'
<1>1. CASE UNCHANGED Hash!digestVars
  BY <1>1 DEF Hash!digestVars, DigestInv, DigestTypes
<1>2. CASE Hash!DigestNext
  BY <1>2, DigestFresh, DigestFeeds, DigestCopies, DigestMoves DEF Hash!DigestNext
<1> QED BY <1>1, <1>2

LEMMA DigestImplied == ASSUME DigestInv PROVE Hash!DigestOfAll
<1> SUFFICES ASSUME NEW d \in digests, digestCtx[d] # Hash!None
             PROVE  /\ digestSize[d] # 0 => data_[d] = since[d]
                    /\ digestCtx[d].final = (digestSize[d] # 0) /\ digestCtx[d].fed = since[d]
  BY DEF Hash!DigestOfAll
<1>1. DigestTells(digestCtx[d], digestSize[d], data_[d], since[d]) /\ digestCtx[d].final \in BOOLEAN
  BY DEF DigestInv, DigestTypes, DigestContext
<1>2. digestCtx[d].final = (digestSize[d] # 0)
  BY <1>1 DEF DigestTells
<1> QED BY <1>1, <1>2 DEF DigestTells

-----------------------------------------------------------------------------
(* bignum_t. *)

\* The least of some numbers, as Min of the library chooses it.
LEMMA LeastIs ==
    ASSUME NEW X, X \subseteq Nat, X # {}
    PROVE  (CHOOSE x \in X : \A y \in X : x =< y) \in X
<1>1. PICK f : f = [x \in X |-> x]
  OBVIOUS
<1>2. \A x \in X : f[x] \in Nat /\ f[x] = x
  BY <1>1
<1>3. \E x \in X : \A y \in X : f[x] <= f[y]
  BY <1>2, RankLow
<1>4. \E x \in X : \A y \in X : x <= y
  BY <1>2, <1>3
<1> QED BY <1>4

\* Of one more handle than there are holders some handle is free.
LEMMA HandleFree ==
    ASSUME NEW A, IsFiniteSet(A), NEW n \in Nat, Cardinality(A) <= n, NEW f, NEW U, U \subseteq {f[a] : a \in A}
    PROVE  (1..n + 1) \ U # {}
<1>1. IsFiniteSet({f[a] : a \in A}) /\ Cardinality({f[a] : a \in A}) <= Cardinality(A)
  <2>1. PICK T : T = {f[a] : a \in A}
    OBVIOUS
  <2>2. [a \in A |-> f[a]] \in Surjection(A, T)
    BY <2>1 DEF Surjection
  <2> QED BY <2>1, <2>2, FS_Surjection
<1>2. IsFiniteSet(U) /\ Cardinality(U) <= Cardinality({f[a] : a \in A})
  BY <1>1, FS_Subset
<1>3. Cardinality(U) \in Nat /\ Cardinality(A) \in Nat /\ Cardinality({f[a] : a \in A}) \in Nat
  BY <1>1, <1>2, FS_CardinalityType
<1>4. Cardinality(U) <= n
  BY <1>1, <1>2, <1>3
<1>5. IsFiniteSet(1..n + 1) /\ Cardinality(1..n + 1) = n + 1
  BY FS_Interval
<1>6. ASSUME (1..n + 1) \ U = {} PROVE FALSE
  <2>1. (1..n + 1) \in SUBSET U
    BY <1>6
  <2>2. Cardinality(1..n + 1) <= Cardinality(U)
    BY <1>2, <2>1, FS_Subset
  <2> QED BY <1>3, <1>4, <1>5, <2>2
<1> QED BY <1>6

LEMMA BigCard == \A X : Big!Cardinality(X) = Cardinality(X) /\ (Big!IsFiniteSet(X) <=> IsFiniteSet(X))
BY DEF Big!Cardinality, Cardinality, Big!IsFiniteSet, IsFiniteSet

BigTypes ==
    /\ bigs \subseteq Numbers /\ bigNum \in [Numbers -> Big!Handles \cup {0}]
    /\ numbers \subseteq Big!Handles /\ bigVal \in [Big!Handles -> Int]

\* The objects of A point with N to the numbers of B, each to one of its own.
OwnedBy(A, N, B) ==
    /\ \A o, p \in A : (N[o] = N[p] /\ N[o] # 0) => o = p
    /\ B = {N[o] : o \in A} \ {0}

BigInv == BigTypes /\ OwnedBy(bigs, bigNum, numbers) /\ contexts = bigs

LEMMA BigHandles == ASSUME Big!BigAssumption PROVE \E n \in Nat : n = Cardinality(Numbers) /\ Big!Handles = 1..n + 1
<1>1. IsFiniteSet(Numbers)
  BY BigCard DEF Big!BigAssumption
<1> QED BY <1>1, BigCard, FS_CardinalityType DEF Big!Handles

\* The handle the next allocation gets.
LEMMA BigFree ==
    ASSUME Big!BigAssumption, BigInv, NEW gone
    PROVE  /\ Big!Min(Big!Handles \ (numbers \ gone)) \in Big!Handles \ (numbers \ gone)
           /\ Big!Handles \subseteq Nat \ {0}
<1>1. PICK n \in Nat : n = Cardinality(Numbers) /\ Big!Handles = 1..n + 1
  BY BigHandles
<1>2. IsFiniteSet(bigs) /\ Cardinality(bigs) <= n
  <2>1. IsFiniteSet(Numbers)
    BY BigCard DEF Big!BigAssumption
  <2> QED BY <1>1, <2>1, FS_Subset DEF BigInv, BigTypes
<1>3. numbers \ gone \subseteq {bigNum[o] : o \in bigs}
  BY DEF BigInv, OwnedBy
<1>4. (1..n + 1) \ (numbers \ gone) # {}
  BY <1>2, <1>3, HandleFree
<1>5. PICK X : X = Big!Handles \ (numbers \ gone)
  OBVIOUS
<1>6. X \subseteq Nat /\ X # {}
  BY <1>1, <1>4, <1>5
<1>7. Big!Min(X) \in X
  BY <1>6, LeastIs DEF Big!Min
<1> QED BY <1>1, <1>5, <1>7

\* o gets a number of its own, instead of the one it had.
LEMMA OwnsFresh ==
    ASSUME NEW A, NEW N, NEW B, OwnedBy(A, N, B), NEW o, NEW h, h # 0, NEW gone,
           gone = IF o \in A THEN {N[o]} ELSE {}, h \notin B \ gone,
           NEW M, M[o] = h, \A p \in A : p # o => M[p] = N[p]
    PROVE  OwnedBy(A \cup {o}, M, (B \ gone) \cup {h})
<1>1. \A p \in A : p # o => (M[p] = N[p] /\ (N[p] # 0 => N[p] \in B \ gone))
  BY DEF OwnedBy
<1>2. \A p, q \in A \cup {o} : (M[p] = M[q] /\ M[p] # 0) => p = q
  BY <1>1 DEF OwnedBy
<1>3. \A x \in (B \ gone) : x # 0 /\ \E p \in A : p # o /\ N[p] = x
  BY DEF OwnedBy
<1>4. (B \ gone) \cup {h} = {M[p] : p \in A \cup {o}} \ {0}
  BY <1>1, <1>3
<1> QED BY <1>2, <1>4 DEF OwnedBy

\* o has none any more.
LEMMA OwnsNone ==
    ASSUME NEW A, NEW N, NEW B, OwnedBy(A, N, B), NEW o, NEW gone, gone = IF o \in A THEN {N[o]} ELSE {},
           NEW M, M[o] = 0, \A p \in A : p # o => M[p] = N[p]
    PROVE  OwnedBy(A \cup {o}, M, B \ gone) /\ OwnedBy(A \ {o}, M, B \ gone)
<1>1. \A p \in A : p # o => (M[p] = N[p] /\ (N[p] # 0 => N[p] \in B \ gone))
  BY DEF OwnedBy
<1>2. \A p, q \in A \cup {o} : (M[p] = M[q] /\ M[p] # 0) => p = q
  BY <1>1 DEF OwnedBy
<1>3. \A x \in (B \ gone) : x # 0 /\ \E p \in A : p # o /\ N[p] = x
  BY DEF OwnedBy
<1>4. (B \ gone) = {M[p] : p \in A \cup {o}} \ {0} /\ (B \ gone) = {M[p] : p \in A \ {o}} \ {0}
  BY <1>1, <1>3
<1> QED BY <1>2, <1>4 DEF OwnedBy

\* o has the one of p, which gets a new one.
LEMMA OwnsMoved ==
    ASSUME NEW A, NEW N, NEW B, OwnedBy(A, N, B), NEW o, NEW p \in A, o # p, NEW h, h # 0, NEW gone,
           gone = IF o \in A THEN {N[o]} ELSE {}, h \notin B \ gone,
           NEW M, M[o] = N[p], M[p] = h, \A q \in A : q # o /\ q # p => M[q] = N[q]
    PROVE  OwnedBy(A \cup {o}, M, (B \ gone) \cup {h})
<1>1. \A q \in A : q # o => (N[q] # 0 => N[q] \in B \ gone)
  BY DEF OwnedBy
<1>2. \A q, r \in A : (N[q] = N[r] /\ N[q] # 0) => q = r
  BY DEF OwnedBy
<1>3. \A q, r \in A \cup {o} : (M[q] = M[r] /\ M[q] # 0) => q = r
  <2> SUFFICES ASSUME NEW q \in A \cup {o}, NEW r \in A \cup {o}, M[q] = M[r], M[q] # 0 PROVE q = r
    OBVIOUS
  <2>1. CASE q = p \/ r = p
    BY <1>1, <2>1
  <2>2. CASE q # p /\ r # p
    BY <1>2, <2>2
  <2> QED BY <2>1, <2>2
<1>4. \A x \in (B \ gone) : x # 0 /\ \E q \in A : q # o /\ N[q] = x
  BY DEF OwnedBy
<1>5. \A x \in (B \ gone) : \E q \in A \cup {o} : M[q] = x
  BY <1>4
<1>6. \A q \in A \cup {o} : M[q] = 0 \/ M[q] \in (B \ gone) \cup {h}
  BY <1>1
<1>7. (B \ gone) \cup {h} = {M[q] : q \in A \cup {o}} \ {0}
  BY <1>4, <1>5, <1>6
<1> QED BY <1>3, <1>7 DEF OwnedBy

LEMMA BigHolds ==
    ASSUME Big!BigAssumption, BigInv, NEW o \in Numbers, NEW v, NEW gone,
           gone = IF o \in bigs THEN {bigNum[o]} ELSE {}, Big!Holds(o, v, gone),
           bigs' = bigs \cup {o}, contexts' = contexts \cup {o}
    PROVE  BigInv'
<1>1. PICK h : h = Big!Min(Big!Handles \ (numbers \ gone))
  OBVIOUS
<1>2. h \in Big!Handles /\ h \notin numbers \ gone /\ h # 0
  BY <1>1, BigFree
<1>3. /\ v \in Int /\ bigNum' = [bigNum EXCEPT ![o] = h]
      /\ numbers' = (numbers \ gone) \cup {h} /\ bigVal' = [bigVal EXCEPT ![h] = v]
  BY <1>1 DEF Big!Holds, Big!BigAssumption
<1>4. BigTypes'
  BY <1>2, <1>3 DEF BigInv, BigTypes
<1>5. bigNum'[o] = h /\ \A p \in bigs : p # o => bigNum'[p] = bigNum[p]
  BY <1>3 DEF BigInv, BigTypes
<1>6. OwnedBy(bigs \cup {o}, bigNum', (numbers \ gone) \cup {h})
  BY <1>2, <1>5, OwnsFresh DEF BigInv
<1> QED BY <1>3, <1>4, <1>6 DEF BigInv

LEMMA BigHoldsNull ==
    ASSUME BigInv, NEW o \in Numbers, NEW gone, gone = IF o \in bigs THEN {bigNum[o]} ELSE {}, Big!HoldsNull(o, gone),
           (bigs' = bigs \cup {o} /\ contexts' = contexts \cup {o}) \/ (bigs' = bigs \ {o} /\ contexts' = contexts \ {o})
    PROVE  BigInv'
<1>1. bigNum' = [bigNum EXCEPT ![o] = 0] /\ numbers' = numbers \ gone /\ bigVal' = bigVal
  BY DEF Big!HoldsNull, Big!Null
<1>2. BigTypes'
  BY <1>1 DEF BigInv, BigTypes
<1>3. bigNum'[o] = 0 /\ \A p \in bigs : p # o => bigNum'[p] = bigNum[p]
  BY <1>1 DEF BigInv, BigTypes
<1>4. OwnedBy(bigs \cup {o}, bigNum', numbers \ gone) /\ OwnedBy(bigs \ {o}, bigNum', numbers \ gone)
  BY <1>3, OwnsNone DEF BigInv
<1> QED BY <1>1, <1>2, <1>4 DEF BigInv

LEMMA BigTake ==
    ASSUME Big!BigAssumption, BigInv, NEW o \in Numbers, NEW p \in bigs, NEW gone,
           gone = IF o \in bigs THEN {bigNum[o]} ELSE {}, Big!Take(o, p, gone),
           bigs' = bigs \cup {o}, contexts' = contexts \cup {o}
    PROVE  BigInv'
<1>1. PICK h : h = Big!Min(Big!Handles \ (numbers \ gone))
  OBVIOUS
<1>2. h \in Big!Handles /\ h \notin numbers \ gone /\ h # 0
  BY <1>1, BigFree
<1>3. /\ bigNum' = [bigNum EXCEPT ![o] = bigNum[p], ![p] = h]
      /\ numbers' = (numbers \ gone) \cup {h} /\ bigVal' = [bigVal EXCEPT ![h] = 0]
  BY <1>1 DEF Big!Take
<1>4. BigTypes'
  BY <1>2, <1>3 DEF BigInv, BigTypes
<1>5. OwnedBy(bigs \cup {o}, bigNum', (numbers \ gone) \cup {h})
  <2>1. CASE o = p
    <3>1. bigNum'[o] = h /\ \A q \in bigs : q # o => bigNum'[q] = bigNum[q]
      BY <1>3, <2>1 DEF BigInv, BigTypes
    <3> QED BY <1>2, <3>1, OwnsFresh DEF BigInv
  <2>2. CASE o # p
    <3>1. bigNum'[o] = bigNum[p] /\ bigNum'[p] = h /\ \A q \in bigs : q # o /\ q # p => bigNum'[q] = bigNum[q]
      BY <1>3, <2>2 DEF BigInv, BigTypes
    <3>2. OwnedBy(bigs, bigNum, numbers)
      BY DEF BigInv
    <3> QED BY <1>2, <2>2, <3>1, <3>2, OwnsMoved
  <2> QED BY <2>1, <2>2
<1> QED BY <1>3, <1>4, <1>5 DEF BigInv

LEMMA BigSet ==
    ASSUME Big!BigAssumption, BigInv, NEW o, NEW v, Big!Set(o, v)
    PROVE  BigInv'
<1>1. v \in Int /\ bigVal' = [bigVal EXCEPT ![bigNum[o]] = v] /\ UNCHANGED <<bigs, contexts, bigNum, numbers>>
  BY DEF Big!Set, Big!Stays, Big!BigAssumption
<1>2. BigTypes'
  BY <1>1 DEF BigInv, BigTypes
<1> QED BY <1>1, <1>2 DEF BigInv

LEMMA BigPostIncrement ==
    ASSUME Big!BigAssumption, BigInv, NEW o \in Numbers, NEW c \in Numbers, Big!PostIncrement(o, c)
    PROVE  BigInv'
<1>1. /\ o \in bigs /\ bigNum[o] # 0 /\ c \notin bigs /\ bigs' = bigs \cup {c} /\ contexts' = contexts \cup {c}
  BY DEF Big!PostIncrement, Big!Usable, Big!Born, Big!Null
<1>2. PICK h : h = Big!Min(Big!Handles \ numbers)
  OBVIOUS
<1>3. PICK d \in {-1, 1} :
         /\ Big!Value(o) + d \in NumberValues /\ bigNum' = [bigNum EXCEPT ![c] = h] /\ numbers' = numbers \cup {h}
         /\ bigVal' = [bigVal EXCEPT ![h] = Big!Value(o), ![bigNum[o]] = Big!Value(o) + d]
  BY <1>2 DEF Big!PostIncrement
<1>4. h \in Big!Handles /\ h \notin numbers /\ h # 0
  <2>1. numbers \ {} = numbers
    OBVIOUS
  <2> QED BY <1>2, <2>1, BigFree
<1>5. bigNum[o] \in Big!Handles /\ Big!Value(o) \in Int /\ Big!Value(o) + d \in Int
  BY <1>1, <1>3 DEF BigInv, BigTypes, Big!Value, Big!BigAssumption
<1>6. BigTypes'
  BY <1>1, <1>3, <1>4, <1>5 DEF BigInv, BigTypes
<1>7. bigNum'[c] = h /\ \A p \in bigs : p # c => bigNum'[p] = bigNum[p]
  BY <1>1, <1>3 DEF BigInv, BigTypes
<1>8. OwnedBy(bigs \cup {c}, bigNum', (numbers \ {}) \cup {h})
  BY <1>1, <1>4, <1>7, OwnsFresh DEF BigInv
<1>9. numbers \ {} = numbers
  OBVIOUS
<1> QED BY <1>1, <1>3, <1>6, <1>8, <1>9 DEF BigInv

LEMMA BigStarts == ASSUME Big!BigInit PROVE BigInv
BY DEF Big!BigInit, Big!Null, BigInv, BigTypes, OwnedBy

LEMMA BigStep == ASSUME Big!BigAssumption, BigInv, [Big!BigNext]_(Big!bigVars) PROVE BigInv'
<1>1. CASE UNCHANGED Big!bigVars
  BY <1>1 DEF Big!bigVars, BigInv, BigTypes
<1>2. ASSUME NEW o \in Numbers, Big!Born(o)
      PROVE  /\ \A v : Big!Holds(o, v, {}) => BigInv'
             /\ Big!HoldsNull(o, {}) => BigInv'
             /\ \A p \in bigs : Big!Take(o, p, {}) => BigInv'
  <2>1. o \notin bigs /\ bigs' = bigs \cup {o} /\ contexts' = contexts \cup {o}
    BY <1>2 DEF Big!Born
  <2>2. {} = IF o \in bigs THEN {bigNum[o]} ELSE {}
    BY <2>1
  <2> QED BY <2>1, <2>2, BigHolds, BigHoldsNull, BigTake
<1>3. ASSUME NEW o \in bigs, bigs' = bigs, contexts' = contexts
      PROVE  /\ \A v : Big!Holds(o, v, Big!Released(o)) => BigInv'
             /\ Big!HoldsNull(o, Big!Released(o)) => BigInv'
             /\ \A p \in bigs : Big!Take(o, p, Big!Released(o)) => BigInv'
  <2>1. o \in Numbers /\ bigs' = bigs \cup {o} /\ contexts' = contexts \cup {o}
    BY <1>3 DEF BigInv, BigTypes
  <2>2. Big!Released(o) = IF o \in bigs THEN {bigNum[o]} ELSE {}
    BY DEF Big!Released
  <2> QED BY <2>1, <2>2, BigHolds, BigHoldsNull, BigTake
<1>4. ASSUME NEW o \in Numbers,
             \/ Big!Construct(o) \/ Big!Adopt(o) \/ Big!Destroy(o) \/ Big!AssignLong(o) \/ Big!AssignText(o)
             \/ Big!UpdateWord(o) \/ Big!Increment(o) \/ Big!clear(o)
      PROVE  BigInv'
  <2>1. CASE Big!Construct(o)
    BY <1>2, <2>1 DEF Big!Construct
  <2>2. CASE Big!Adopt(o)
    BY <1>2, <2>2 DEF Big!Adopt
  <2>3. CASE Big!Destroy(o)
    <3>1. Big!Released(o) = IF o \in bigs THEN {bigNum[o]} ELSE {}
      BY <2>3 DEF Big!Released, Big!Destroy
    <3> QED BY <2>3, <3>1, BigHoldsNull DEF Big!Destroy
  <2>4. CASE Big!AssignLong(o)
    BY <1>3, <2>4 DEF Big!AssignLong
  <2>5. CASE Big!AssignText(o)
    BY <1>3, <2>5 DEF Big!AssignText, Big!Stays
  <2>6. CASE Big!UpdateWord(o) \/ Big!Increment(o) \/ Big!clear(o)
    BY <2>6, BigSet DEF Big!UpdateWord, Big!Increment, Big!clear
  <2> QED BY <1>4, <2>1, <2>2, <2>3, <2>4, <2>5, <2>6
<1>5. ASSUME NEW o \in Numbers, NEW p \in Numbers,
             \/ Big!CopyConstruct(o, p) \/ Big!MoveConstruct(o, p) \/ Big!CopyAssign(o, p) \/ Big!MoveAssign(o, p)
             \/ Big!CombineWord(o, p) \/ Big!Update(o, p) \/ Big!PostIncrement(o, p)
      PROVE  BigInv'
  <2>1. CASE Big!CopyConstruct(o, p)
    BY <1>2, <2>1 DEF Big!CopyConstruct
  <2>2. CASE Big!MoveConstruct(o, p)
    BY <1>2, <2>2 DEF Big!MoveConstruct
  <2>3. CASE Big!CopyAssign(o, p)
    BY <1>3, <2>3 DEF Big!CopyAssign, Big!Stays
  <2>4. CASE Big!MoveAssign(o, p)
    BY <1>3, <2>4 DEF Big!MoveAssign, Big!Stays
  <2>5. CASE Big!CombineWord(o, p)
    BY <1>2, <2>5 DEF Big!CombineWord, Big!Make
  <2>6. CASE Big!Update(o, p)
    BY <2>6, BigSet DEF Big!Update
  <2> QED BY <1>5, <2>1, <2>2, <2>3, <2>4, <2>5, <2>6, BigPostIncrement
<1>6. ASSUME NEW o \in Numbers, NEW p \in Numbers, NEW q \in Numbers, Big!Combine(o, p, q) PROVE BigInv'
  BY <1>2, <1>6 DEF Big!Combine, Big!Make
<1> QED BY <1>1, <1>4, <1>5, <1>6 DEF Big!BigNext

LEMMA BigImplied == ASSUME Big!BigAssumption, BigInv PROVE Big!NumbersOwned
BY DEF BigInv, OwnedBy, Big!NumbersOwned, Big!Null

-----------------------------------------------------------------------------
(* keyphrase_t, decrypt_t and encrypt_t. *)

AlgoNames == Algos \cup {"none"}
PhraseType == [cipher : AlgoNames, size : Nat, algo : AlgoNames]

\* The objects that may still be used.
SoundCiphers == ciphers \ burnt

CipherTypes ==
    /\ phrase \in [Phrases -> PhraseType] /\ keyed \in [Crypt!Contexts -> PhraseType]
    /\ cipherCtx \in [Crypt!Ciphers -> Crypt!Contexts \cup {0}] /\ cipherHeap \subseteq Crypt!Contexts
    /\ algo_ \in [Crypt!Ciphers -> AlgoNames] /\ tag_ \in [Crypt!Ciphers -> Nat]

CiphersAlive == ciphers \subseteq Crypt!Ciphers /\ IsFiniteSet(ciphers) /\ Cardinality(ciphers) <= MaxLive /\ burnt \subseteq ciphers

KeyedRight(p, algo, tag) ==
    p.cipher = algo /\ p.size = Crypt!Length(algo) /\ tag = Crypt!get_tag_size(algo)

CiphersKeyed ==
    \A o \in SoundCiphers : cipherCtx[o] # 0 => KeyedRight(keyed[cipherCtx[o]], algo_[o], tag_[o])

CipherInv == CipherTypes /\ CiphersAlive /\ OwnedBy(SoundCiphers, cipherCtx, cipherHeap) /\ CiphersKeyed

LEMMA CryptCard == \A X : Crypt!Cardinality(X) = Cardinality(X)
BY DEF Crypt!Cardinality, Cardinality

LEMMA NoPhraseTyped == Crypt!NoPhrase \in PhraseType
BY DEF Crypt!NoPhrase, Crypt!NoAlgo, PhraseType, AlgoNames

LEMMA AlgoSizes ==
    ASSUME Crypt!CipherAssumption, NEW algo \in AlgoNames
    PROVE  Crypt!Length(algo) \in Nat /\ Crypt!get_tag_size(algo) \in Nat
BY DEF Crypt!CipherAssumption, Crypt!Length, Crypt!get_tag_size, Crypt!NoAlgo, AlgoNames

LEMMA CipherStarts == ASSUME Crypt!CipherAssumption, Crypt!CipherInit PROVE CipherInv
<1>1. CipherTypes
  BY NoPhraseTyped DEF Crypt!CipherInit, Crypt!Null, Crypt!NoAlgo, CipherTypes, AlgoNames
<1>2. CiphersAlive
  BY FS_EmptySet DEF Crypt!CipherInit, CiphersAlive, Crypt!CipherAssumption
<1>3. SoundCiphers = {} /\ cipherHeap = {}
  BY DEF Crypt!CipherInit, SoundCiphers
<1> QED BY <1>1, <1>2, <1>3 DEF CipherInv, OwnedBy, CiphersKeyed

\* The context the next allocation gets.
LEMMA ContextFree ==
    ASSUME Crypt!CipherAssumption, CipherInv, NEW gone
    PROVE  /\ Crypt!NewContext(cipherHeap \ gone) \in Crypt!Contexts \ (cipherHeap \ gone)
           /\ Crypt!Contexts \subseteq Nat \ {0}
<1>1. MaxLive \in Nat /\ Crypt!Contexts = 1..MaxLive + 1
  BY DEF Crypt!CipherAssumption, Crypt!Contexts
<1>2. IsFiniteSet(SoundCiphers) /\ Cardinality(SoundCiphers) <= MaxLive
  <2>1. IsFiniteSet(ciphers) /\ Cardinality(ciphers) <= MaxLive /\ SoundCiphers \in SUBSET ciphers
    BY DEF CipherInv, CiphersAlive, SoundCiphers
  <2>2. IsFiniteSet(SoundCiphers) /\ Cardinality(SoundCiphers) <= Cardinality(ciphers)
    BY <2>1, FS_Subset
  <2>3. Cardinality(SoundCiphers) \in Nat /\ Cardinality(ciphers) \in Nat
    BY <2>1, <2>2, FS_CardinalityType
  <2> QED BY <1>1, <2>1, <2>2, <2>3
<1>3. cipherHeap \ gone \subseteq {cipherCtx[o] : o \in SoundCiphers}
  BY DEF CipherInv, OwnedBy
<1>4. (1..MaxLive + 1) \ (cipherHeap \ gone) # {}
  BY <1>1, <1>2, <1>3, HandleFree
<1>5. PICK X : X = Crypt!Contexts \ (cipherHeap \ gone)
  OBVIOUS
<1>6. X \subseteq Nat /\ X # {}
  BY <1>1, <1>4, <1>5
<1>7. Crypt!Min(X) \in X
  BY <1>6, LeastIs DEF Crypt!Min
<1> QED BY <1>1, <1>5, <1>7 DEF Crypt!NewContext

\* The rest is as it was without o.
LEMMA OwnsWithout ==
    ASSUME NEW A, NEW N, NEW B, OwnedBy(A, N, B), NEW o, NEW gone, gone = IF o \in A THEN {N[o]} ELSE {},
           NEW M, \A p \in A : p # o => M[p] = N[p]
    PROVE  OwnedBy(A \ {o}, M, B \ gone)
<1>1. \A p \in A : p # o => (M[p] = N[p] /\ (N[p] # 0 => N[p] \in B \ gone))
  BY DEF OwnedBy
<1>2. \A p, q \in A \ {o} : (M[p] = M[q] /\ M[p] # 0) => p = q
  BY <1>1 DEF OwnedBy
<1>3. \A x \in (B \ gone) : x # 0 /\ \E p \in A : p # o /\ N[p] = x
  BY DEF OwnedBy
<1>4. (B \ gone) = {M[p] : p \in A \ {o}} \ {0}
  BY <1>1, <1>3
<1> QED BY <1>2, <1>4 DEF OwnedBy

\* o has the one of p, which has none then.
LEMMA OwnsHanded ==
    ASSUME NEW A, NEW N, NEW B, OwnedBy(A, N, B), NEW o, NEW p \in A, o # p, NEW gone,
           gone = IF o \in A THEN {N[o]} ELSE {},
           NEW M, M[o] = N[p], M[p] = 0, \A q \in A : q # o /\ q # p => M[q] = N[q]
    PROVE  OwnedBy(A \cup {o}, M, B \ gone)
<1>1. \A q \in A : q # o => (N[q] # 0 => N[q] \in B \ gone)
  BY DEF OwnedBy
<1>2. \A q, r \in A : (N[q] = N[r] /\ N[q] # 0) => q = r
  BY DEF OwnedBy
<1>3. \A q, r \in A \cup {o} : (M[q] = M[r] /\ M[q] # 0) => q = r
  BY <1>2
<1>4. \A x \in (B \ gone) : x # 0 /\ \E q \in A : q # o /\ N[q] = x
  BY DEF OwnedBy
<1>5. \A x \in (B \ gone) : \E q \in A \cup {o} : M[q] = x
  BY <1>4
<1>6. \A q \in A \cup {o} : M[q] = 0 \/ M[q] \in (B \ gone)
  BY <1>1
<1>7. (B \ gone) = {M[q] : q \in A \cup {o}} \ {0}
  BY <1>4, <1>5, <1>6
<1> QED BY <1>3, <1>7 DEF OwnedBy

\* What an object had goes when it gets something else.
GivenUp(o) == IF o \in SoundCiphers THEN {cipherCtx[o]} ELSE {}

\* One object is given a context, an algorithm and a tag.
LEMMA CipherBecomes ==
    ASSUME CipherInv, NEW o \in Crypt!Ciphers, NEW c \in Crypt!Contexts \cup {0}, NEW algo \in AlgoNames, NEW tag \in Nat,
           Crypt!Becomes(o, c, algo, tag), CiphersAlive', cipherHeap' \subseteq Crypt!Contexts,
           keyed' \in [Crypt!Contexts -> PhraseType], \A d \in cipherHeap \ GivenUp(o) : keyed'[d] = keyed[d],
           SoundCiphers' \subseteq SoundCiphers \cup {o}, OwnedBy(SoundCiphers', cipherCtx', cipherHeap'),
           (o \in SoundCiphers' /\ c # 0) => KeyedRight(keyed'[c], algo, tag)
    PROVE  CipherInv'
<1>1. /\ cipherCtx' = [cipherCtx EXCEPT ![o] = c] /\ algo_' = [algo_ EXCEPT ![o] = algo]
      /\ tag_' = [tag_ EXCEPT ![o] = tag] /\ phrase' = phrase
  BY DEF Crypt!Becomes
<1>2. CipherTypes'
  BY <1>1 DEF CipherInv, CipherTypes
<1>3. ASSUME NEW p \in SoundCiphers', cipherCtx'[p] # 0 PROVE KeyedRight(keyed'[cipherCtx'[p]], algo_'[p], tag_'[p])
  <2>1. p \in Crypt!Ciphers
    BY DEF CiphersAlive, SoundCiphers
  <2>2. CASE p = o
    <3>1. cipherCtx'[p] = c /\ algo_'[p] = algo /\ tag_'[p] = tag
      BY <1>1, <2>1, <2>2 DEF CipherInv, CipherTypes
    <3> QED BY <1>3, <2>2, <3>1
  <2>3. CASE p # o
    <3>1. cipherCtx'[p] = cipherCtx[p] /\ algo_'[p] = algo_[p] /\ tag_'[p] = tag_[p] /\ p \in SoundCiphers
      BY <1>1, <2>1, <2>3 DEF CipherInv, CipherTypes
    <3>2. cipherCtx[p] \in cipherHeap \ GivenUp(o)
      BY <1>3, <2>3, <3>1 DEF CipherInv, OwnedBy, GivenUp
    <3>3. KeyedRight(keyed[cipherCtx[p]], algo_[p], tag_[p])
      BY <1>3, <3>1 DEF CipherInv, CiphersKeyed
    <3> QED BY <3>1, <3>2, <3>3
  <2> QED BY <2>2, <2>3
<1> QED BY <1>2, <1>3 DEF CipherInv, CiphersKeyed

LEMMA CipherSucceeds ==
    ASSUME Crypt!CipherAssumption, CipherInv, NEW o \in Crypt!Ciphers, NEW k \in Phrases, NEW tag \in Nat,
           Crypt!Succeeds(o, k, tag, GivenUp(o)), KeyedRight(phrase[k], phrase[k].cipher, tag),
           ciphers' = ciphers \cup {o}, CiphersAlive'
    PROVE  CipherInv'
<1>1. PICK c : c = Crypt!NewContext(cipherHeap \ GivenUp(o))
  OBVIOUS
<1>2. c \in Crypt!Contexts /\ c \notin cipherHeap \ GivenUp(o) /\ c # 0
  BY <1>1, ContextFree
<1>3. /\ Crypt!Becomes(o, c, phrase[k].cipher, tag) /\ cipherHeap' = (cipherHeap \ GivenUp(o)) \cup {c}
      /\ keyed' = [d \in Crypt!Contexts |-> IF d = c THEN phrase[k] ELSE IF d \in GivenUp(o) THEN Crypt!NoPhrase ELSE keyed[d]]
      /\ burnt' = burnt \ {o}
  BY <1>1 DEF Crypt!Succeeds, Crypt!Keyed
<1>4. phrase[k] \in PhraseType /\ phrase[k].cipher \in AlgoNames
  BY DEF CipherInv, CipherTypes, PhraseType
<1>5. SoundCiphers' = SoundCiphers \cup {o}
  BY <1>3 DEF SoundCiphers, CipherInv, CiphersAlive
<1>6. /\ keyed' \in [Crypt!Contexts -> PhraseType] /\ keyed'[c] = phrase[k]
      /\ \A d \in cipherHeap \ GivenUp(o) : keyed'[d] = keyed[d]
  <2>1. \A d \in Crypt!Contexts : keyed[d] \in PhraseType
    BY DEF CipherInv, CipherTypes
  <2>2. \A d \in cipherHeap : d \in Crypt!Contexts
    BY DEF CipherInv, CipherTypes
  <2> QED BY <1>2, <1>3, <1>4, <2>1, <2>2, NoPhraseTyped
<1>7. cipherCtx'[o] = c /\ \A p \in SoundCiphers : p # o => cipherCtx'[p] = cipherCtx[p]
  BY <1>3 DEF CipherInv, CipherTypes, CiphersAlive, SoundCiphers, Crypt!Becomes
<1>8. OwnedBy(SoundCiphers \cup {o}, cipherCtx', (cipherHeap \ GivenUp(o)) \cup {c})
  BY <1>2, <1>7, OwnsFresh DEF CipherInv, GivenUp
<1>9. cipherHeap' \subseteq Crypt!Contexts
  BY <1>2, <1>3 DEF CipherInv, CipherTypes
<1>10. OwnedBy(SoundCiphers', cipherCtx', cipherHeap')
  BY <1>3, <1>5, <1>8
<1> QED BY <1>2, <1>3, <1>4, <1>5, <1>6, <1>9, <1>10, CipherBecomes

LEMMA CipherFrees ==
    ASSUME CipherInv, NEW gone, Crypt!Frees(gone)
    PROVE  /\ cipherHeap' = cipherHeap \ gone /\ cipherHeap' \subseteq Crypt!Contexts
           /\ keyed' \in [Crypt!Contexts -> PhraseType] /\ \A d \in cipherHeap \ gone : keyed'[d] = keyed[d]
<1>1. cipherHeap' = cipherHeap \ gone /\ keyed' = [d \in Crypt!Contexts |-> IF d \in gone THEN Crypt!NoPhrase ELSE keyed[d]]
  BY DEF Crypt!Frees
<1>2. \A d \in Crypt!Contexts : keyed[d] \in PhraseType
  BY DEF CipherInv, CipherTypes
<1>3. \A d \in cipherHeap : d \in Crypt!Contexts
  BY DEF CipherInv, CipherTypes
<1> QED BY <1>1, <1>2, <1>3, NoPhraseTyped

\* An object is left, or removed, without a context, or with one that is freed.
LEMMA CipherLeft ==
    ASSUME CipherInv, NEW o \in Crypt!Ciphers, NEW c \in Crypt!Contexts \cup {0}, NEW algo \in AlgoNames, NEW tag \in Nat,
           Crypt!Becomes(o, c, algo, tag), Crypt!Frees(GivenUp(o)), CiphersAlive',
           (SoundCiphers' = SoundCiphers \cup {o} /\ c = 0) \/ SoundCiphers' = SoundCiphers \ {o}
    PROVE  CipherInv'
<1>1. /\ cipherHeap' = cipherHeap \ GivenUp(o) /\ cipherHeap' \subseteq Crypt!Contexts
      /\ keyed' \in [Crypt!Contexts -> PhraseType] /\ \A d \in cipherHeap \ GivenUp(o) : keyed'[d] = keyed[d]
  BY CipherFrees
<1>2. cipherCtx'[o] = c /\ \A p \in SoundCiphers : p # o => cipherCtx'[p] = cipherCtx[p]
  BY DEF CipherInv, CipherTypes, CiphersAlive, SoundCiphers, Crypt!Becomes
<1>3. OwnedBy(SoundCiphers, cipherCtx, cipherHeap)
  BY DEF CipherInv
<1>4. CASE SoundCiphers' = SoundCiphers \cup {o} /\ c = 0
  <2>1. OwnedBy(SoundCiphers \cup {o}, cipherCtx', cipherHeap \ GivenUp(o))
    BY <1>2, <1>3, <1>4, OwnsNone DEF GivenUp
  <2>2. OwnedBy(SoundCiphers', cipherCtx', cipherHeap')
    BY <1>1, <1>4, <2>1
  <2> QED BY <1>1, <1>4, <2>2, CipherBecomes
<1>5. CASE SoundCiphers' = SoundCiphers \ {o}
  <2>1. OwnedBy(SoundCiphers \ {o}, cipherCtx', cipherHeap \ GivenUp(o))
    BY <1>2, <1>3, OwnsWithout DEF GivenUp
  <2>2. OwnedBy(SoundCiphers', cipherCtx', cipherHeap') /\ SoundCiphers' \subseteq SoundCiphers \cup {o} /\ o \notin SoundCiphers'
    BY <1>1, <1>5, <2>1
  <2> QED BY <1>1, <2>2, CipherBecomes
<1> QED BY <1>4, <1>5

LEMMA CipherAppears ==
    ASSUME Crypt!CipherAssumption, CipherInv, NEW o \in Crypt!Ciphers, Crypt!Appears(o), burnt' \subseteq burnt \cup {o}
    PROVE  CiphersAlive' /\ ciphers' = ciphers \cup {o} /\ o \notin ciphers /\ o \notin burnt /\ GivenUp(o) = {}
<1>1. o \notin ciphers /\ ciphers' = ciphers \cup {o} /\ Cardinality(ciphers) < MaxLive
  BY CryptCard DEF Crypt!Appears
<1>2. ciphers \subseteq Crypt!Ciphers /\ IsFiniteSet(ciphers) /\ burnt \subseteq ciphers
  BY DEF CipherInv, CiphersAlive
<1>3. IsFiniteSet(ciphers') /\ Cardinality(ciphers') = Cardinality(ciphers) + 1 /\ Cardinality(ciphers) \in Nat /\ MaxLive \in Nat
  BY <1>1, <1>2, FS_AddElement, FS_CardinalityType DEF Crypt!CipherAssumption
<1>4. Cardinality(ciphers') <= MaxLive
  BY <1>1, <1>3
<1> QED BY <1>1, <1>2, <1>3, <1>4 DEF CiphersAlive, GivenUp, SoundCiphers

LEMMA CiphersStay ==
    ASSUME CipherInv, NEW o \in SoundCiphers, ciphers' = ciphers, burnt' \subseteq burnt \cup {o}
    PROVE  CiphersAlive' /\ o \in Crypt!Ciphers /\ GivenUp(o) = {cipherCtx[o]}
BY DEF CipherInv, CiphersAlive, GivenUp, SoundCiphers

\* The outcomes of a constructor with a key, and of an assignment of one.
LEMMA CipherOutcomes ==
    ASSUME Crypt!CipherAssumption, CipherInv, NEW o \in Crypt!Ciphers, NEW k \in Phrases, NEW gone, gone = GivenUp(o),
           ciphers' = ciphers \cup {o}, CiphersAlive', NEW algo \in AlgoNames, algo = phrase[k].cipher,
           NEW tag \in Nat,
           \/ Crypt!Declines(o, algo, tag, gone)
           \/ /\ phrase[k].size = Crypt!Length(algo)
              /\ \/ Crypt!Succeeds(o, k, Crypt!get_tag_size(algo), gone)
                 \/ Crypt!Burns(o, algo, Crypt!get_tag_size(algo), gone)
    PROVE  CipherInv'
<1>1. Crypt!get_tag_size(algo) \in Nat
  BY AlgoSizes
<1>2. CASE Crypt!Declines(o, algo, tag, gone)
  <2>1. Crypt!Becomes(o, 0, algo, tag) /\ Crypt!Frees(GivenUp(o)) /\ burnt' = burnt \ {o}
    BY <1>2 DEF Crypt!Declines, Crypt!Null
  <2>2. SoundCiphers' = SoundCiphers \cup {o}
    BY <2>1 DEF SoundCiphers
  <2> QED BY <2>1, <2>2, CipherLeft
<1>3. CASE phrase[k].size = Crypt!Length(algo) /\ Crypt!Succeeds(o, k, Crypt!get_tag_size(algo), gone)
  <2>1. KeyedRight(phrase[k], phrase[k].cipher, Crypt!get_tag_size(algo))
    BY <1>3 DEF KeyedRight
  <2> QED BY <1>1, <1>3, <2>1, CipherSucceeds
<1>4. CASE Crypt!Burns(o, algo, Crypt!get_tag_size(algo), gone)
  <2>1. PICK c : c = Crypt!NewContext(cipherHeap \ GivenUp(o))
    OBVIOUS
  <2>2. c \in Crypt!Contexts
    BY <2>1, ContextFree
  <2>3. Crypt!Becomes(o, c, algo, Crypt!get_tag_size(algo)) /\ Crypt!Frees(GivenUp(o)) /\ burnt' = burnt \cup {o}
    BY <1>4, <2>1 DEF Crypt!Burns
  <2>4. SoundCiphers' = SoundCiphers \ {o}
    BY <2>3 DEF SoundCiphers
  <2> QED BY <1>1, <2>2, <2>3, <2>4, CipherLeft
<1> QED BY <1>2, <1>3, <1>4

LEMMA CipherFrom ==
    ASSUME Crypt!CipherAssumption, CipherInv, NEW o \in Crypt!Ciphers, NEW k \in Phrases,
           Crypt!DecryptFrom(o, k) \/ Crypt!EncryptFrom(o, k)
    PROVE  CipherInv'
<1>1. Crypt!Appears(o) /\ burnt' \subseteq burnt \cup {o}
  BY DEF Crypt!DecryptFrom, Crypt!EncryptFrom, Crypt!Declines, Crypt!Succeeds, Crypt!Burns
<1>2. CiphersAlive' /\ ciphers' = ciphers \cup {o} /\ GivenUp(o) = {}
  BY <1>1, CipherAppears
<1>3. PICK algo \in AlgoNames : algo = phrase[k].cipher
  BY DEF CipherInv, CipherTypes, PhraseType
<1>4. Crypt!get_tag_size(algo) \in Nat /\ 0 \in Nat
  BY AlgoSizes
<1>5. PICK tag \in Nat :
           \/ Crypt!Declines(o, algo, tag, {})
           \/ /\ phrase[k].size = Crypt!Length(algo)
              /\ \/ Crypt!Succeeds(o, k, Crypt!get_tag_size(algo), {})
                 \/ Crypt!Burns(o, algo, Crypt!get_tag_size(algo), {})
  BY <1>3, <1>4 DEF Crypt!DecryptFrom, Crypt!EncryptFrom
<1> QED BY <1>2, <1>3, <1>5, CipherOutcomes

LEMMA CipherRekey ==
    ASSUME Crypt!CipherAssumption, CipherInv, NEW o \in Crypt!Ciphers, NEW k \in Phrases, Crypt!Rekey(o, k)
    PROVE  CipherInv'
<1>1. o \in SoundCiphers /\ ciphers' = ciphers /\ burnt' \subseteq burnt \cup {o} /\ phrase[k].cipher = algo_[o]
  BY DEF Crypt!Rekey, Crypt!Declines, Crypt!Succeeds, Crypt!Burns, SoundCiphers
<1>2. CiphersAlive' /\ GivenUp(o) = {cipherCtx[o]} /\ ciphers' = ciphers \cup {o}
  BY <1>1, CiphersStay DEF SoundCiphers
<1>3. PICK algo \in AlgoNames : algo = phrase[k].cipher
  BY DEF CipherInv, CipherTypes, PhraseType
<1>4. PICK tag \in Nat :
           \/ Crypt!Declines(o, algo, tag, {cipherCtx[o]})
           \/ /\ phrase[k].size = Crypt!Length(algo)
              /\ \/ Crypt!Succeeds(o, k, Crypt!get_tag_size(algo), {cipherCtx[o]})
                 \/ Crypt!Burns(o, algo, Crypt!get_tag_size(algo), {cipherCtx[o]})
  <2>1. tag_[o] \in Nat
    BY DEF CipherInv, CipherTypes
  <2> QED BY <1>1, <1>3, <2>1 DEF Crypt!Rekey
<1> QED BY <1>2, <1>3, <1>4, CipherOutcomes

\* A move hands the context over with its algorithm and its tag, or leaves none.
LEMMA CipherMoved ==
    ASSUME CipherInv, NEW o \in Crypt!Ciphers, NEW other \in SoundCiphers, o # other, NEW algo \in AlgoNames, NEW tag \in Nat,
           Crypt!Moved(o, other, GivenUp(o), algo, tag), CiphersAlive', SoundCiphers' = SoundCiphers \cup {o}
    PROVE  CipherInv'
<1>1. other \in Crypt!Ciphers
  BY DEF CipherInv, CiphersAlive, SoundCiphers
<1>2. Crypt!Frees(GivenUp(o)) /\ phrase' = phrase
  BY DEF Crypt!Moved
<1>3. CASE cipherCtx[other] = 0
  <2>1. Crypt!Becomes(o, 0, algo, tag)
    BY <1>2, <1>3 DEF Crypt!Moved, Crypt!Becomes, Crypt!Null
  <2> QED BY <1>2, <2>1, CipherLeft
<1>4. CASE cipherCtx[other] # 0
  <2>1. /\ cipherCtx' = [cipherCtx EXCEPT ![o] = cipherCtx[other], ![other] = 0]
        /\ algo_' = [algo_ EXCEPT ![o] = algo_[other]] /\ tag_' = [tag_ EXCEPT ![o] = tag_[other]]
    BY <1>4 DEF Crypt!Moved, Crypt!Null
  <2>2. /\ cipherHeap' = cipherHeap \ GivenUp(o) /\ cipherHeap' \subseteq Crypt!Contexts
        /\ keyed' \in [Crypt!Contexts -> PhraseType] /\ \A d \in cipherHeap \ GivenUp(o) : keyed'[d] = keyed[d]
    BY <1>2, CipherFrees
  <2>3. CipherTypes'
    BY <1>1, <1>2, <2>1, <2>2 DEF CipherInv, CipherTypes
  <2>4. /\ cipherCtx'[o] = cipherCtx[other] /\ cipherCtx'[other] = 0 /\ algo_'[o] = algo_[other] /\ tag_'[o] = tag_[other]
        /\ \A p \in SoundCiphers : (p # o /\ p # other) =>
              cipherCtx'[p] = cipherCtx[p] /\ algo_'[p] = algo_[p] /\ tag_'[p] = tag_[p]
    BY <1>1, <2>1 DEF CipherInv, CipherTypes, CiphersAlive, SoundCiphers
  <2>5. OwnedBy(SoundCiphers \cup {o}, cipherCtx', cipherHeap \ GivenUp(o))
    <3>1. OwnedBy(SoundCiphers, cipherCtx, cipherHeap)
      BY DEF CipherInv
    <3>2. PICK A : A = SoundCiphers
      OBVIOUS
    <3>3. PICK M : M = cipherCtx'
      OBVIOUS
    <3>4. PICK gone : gone = GivenUp(o)
      OBVIOUS
    <3>5. other \in A /\ OwnedBy(A, cipherCtx, cipherHeap) /\ gone = IF o \in A THEN {cipherCtx[o]} ELSE {}
      BY <3>1, <3>2, <3>4 DEF GivenUp
    <3>6. M[o] = cipherCtx[other] /\ M[other] = 0 /\ \A q \in A : q # o /\ q # other => M[q] = cipherCtx[q]
      BY <2>4, <3>2, <3>3
    <3>7. OwnedBy(A \cup {o}, M, cipherHeap \ gone)
      BY <3>5, <3>6, OwnsHanded
    <3> QED BY <3>2, <3>3, <3>4, <3>7
  <2>6. \A p \in SoundCiphers : (p # o /\ cipherCtx[p] # 0) =>
           keyed'[cipherCtx[p]] = keyed[cipherCtx[p]] /\ KeyedRight(keyed[cipherCtx[p]], algo_[p], tag_[p])
    <3> SUFFICES ASSUME NEW p \in SoundCiphers, p # o, cipherCtx[p] # 0
                 PROVE  keyed'[cipherCtx[p]] = keyed[cipherCtx[p]] /\ KeyedRight(keyed[cipherCtx[p]], algo_[p], tag_[p])
      OBVIOUS
    <3>1. cipherCtx[p] \in cipherHeap \ GivenUp(o)
      BY DEF CipherInv, OwnedBy, GivenUp
    <3> QED BY <2>2, <3>1 DEF CipherInv, CiphersKeyed
  <2>7. ASSUME NEW p \in SoundCiphers', cipherCtx'[p] # 0 PROVE KeyedRight(keyed'[cipherCtx'[p]], algo_'[p], tag_'[p])
    <3>1. CASE p = o
      <4>1. keyed'[cipherCtx[other]] = keyed[cipherCtx[other]] /\ KeyedRight(keyed[cipherCtx[other]], algo_[other], tag_[other])
        BY <1>4, <2>6
      <4> QED BY <2>4, <3>1, <4>1
    <3>2. CASE p # o
      <4>1. p \in SoundCiphers /\ p # other
        BY <2>4, <2>7, <3>2
      <4> QED BY <2>4, <2>6, <2>7, <3>2, <4>1
    <3> QED BY <3>1, <3>2
  <2>8. OwnedBy(SoundCiphers', cipherCtx', cipherHeap')
    BY <2>2, <2>5
  <2> QED BY <2>3, <2>7, <2>8 DEF CipherInv, CiphersKeyed
<1> QED BY <1>3, <1>4

LEMMA CipherMoves ==
    ASSUME Crypt!CipherAssumption, CipherInv, NEW o \in Crypt!Ciphers, NEW other \in Crypt!Ciphers,
           Crypt!MoveConstruct(o, other) \/ Crypt!MoveAssign(o, other)
    PROVE  CipherInv'
<1>1. other \in SoundCiphers /\ burnt' = burnt
  BY DEF Crypt!MoveConstruct, Crypt!MoveAssign, Crypt!Moved, SoundCiphers
<1>2. CASE Crypt!MoveConstruct(o, other)
  <2>1. Crypt!Appears(o) /\ Crypt!Moved(o, other, {}, "none", 0)
    BY <1>2 DEF Crypt!MoveConstruct, Crypt!NoAlgo
  <2>2. CiphersAlive' /\ ciphers' = ciphers \cup {o} /\ o \notin ciphers /\ o \notin burnt /\ GivenUp(o) = {}
    BY <1>1, <2>1, CipherAppears
  <2>3. SoundCiphers' = SoundCiphers \cup {o} /\ o # other /\ "none" \in AlgoNames /\ 0 \in Nat
    BY <1>1, <2>2 DEF SoundCiphers, AlgoNames
  <2>4. Crypt!Moved(o, other, GivenUp(o), "none", 0)
    BY <2>1, <2>2
  <2> QED BY <1>1, <2>2, <2>3, <2>4, CipherMoved
<1>3. CASE Crypt!MoveAssign(o, other)
  <2>1. o # other /\ o \in SoundCiphers /\ ciphers' = ciphers /\ Crypt!Moved(o, other, {cipherCtx[o]}, algo_[o], tag_[o])
    BY <1>3 DEF Crypt!MoveAssign, SoundCiphers
  <2>2. CiphersAlive' /\ GivenUp(o) = {cipherCtx[o]}
    BY <1>1, <2>1, CiphersStay
  <2>3. SoundCiphers' = SoundCiphers \cup {o} /\ algo_[o] \in AlgoNames /\ tag_[o] \in Nat
    BY <1>1, <2>1 DEF SoundCiphers, CipherInv, CipherTypes
  <2>4. Crypt!Moved(o, other, GivenUp(o), algo_[o], tag_[o])
    BY <2>1, <2>2
  <2> QED BY <1>1, <2>1, <2>2, <2>3, <2>4, CipherMoved
<1> QED BY <1>2, <1>3

LEMMA CipherEnds ==
    ASSUME Crypt!CipherAssumption, CipherInv, NEW o \in Crypt!Ciphers, Crypt!DecryptFinish(o) \/ Crypt!EncryptFinish(o) \/ Crypt!Destroy(o)
    PROVE  CipherInv'
<1>1. o \in SoundCiphers /\ burnt' = burnt /\ Crypt!Frees({cipherCtx[o]})
  BY DEF Crypt!DecryptFinish, Crypt!EncryptFinish, Crypt!Destroy, SoundCiphers
<1>2. GivenUp(o) = {cipherCtx[o]} /\ algo_[o] \in AlgoNames /\ tag_[o] \in Nat /\ "none" \in AlgoNames
  BY <1>1 DEF GivenUp, CipherInv, CipherTypes, AlgoNames
<1>3. CASE Crypt!DecryptFinish(o) \/ Crypt!EncryptFinish(o)
  <2>1. ciphers' = ciphers /\ Crypt!Becomes(o, 0, algo_[o], tag_[o])
    BY <1>3 DEF Crypt!DecryptFinish, Crypt!EncryptFinish, Crypt!Null
  <2>2. CiphersAlive' /\ SoundCiphers' = SoundCiphers \cup {o}
    BY <1>1, <2>1, CiphersStay DEF SoundCiphers
  <2> QED BY <1>1, <1>2, <2>1, <2>2, CipherLeft
<1>4. CASE Crypt!Destroy(o)
  <2>1. ciphers' = ciphers \ {o} /\ Crypt!Becomes(o, 0, "none", 0)
    BY <1>4 DEF Crypt!Destroy, Crypt!Null, Crypt!NoAlgo
  <2>2. SoundCiphers' = SoundCiphers \ {o} /\ ciphers' \in SUBSET ciphers /\ burnt' \subseteq ciphers'
    BY <1>1, <2>1 DEF SoundCiphers, CipherInv, CiphersAlive
  <2>3. IsFiniteSet(ciphers') /\ Cardinality(ciphers') <= Cardinality(ciphers) /\ Cardinality(ciphers') \in Nat /\ Cardinality(ciphers) \in Nat
    BY <2>2, FS_Subset, FS_CardinalityType DEF CipherInv, CiphersAlive
  <2>4. Cardinality(ciphers') <= MaxLive
    BY <2>3 DEF CipherInv, CiphersAlive, Crypt!CipherAssumption
  <2>5. CiphersAlive'
    BY <2>2, <2>3, <2>4 DEF CipherInv, CiphersAlive
  <2> QED BY <1>1, <1>2, <2>1, <2>2, <2>5, CipherLeft
<1> QED BY <1>3, <1>4

\* A phrase may change in any way: the contexts keep the key they were given.
LEMMA PhraseChanges ==
    ASSUME Crypt!CipherAssumption, CipherInv, NEW k \in Phrases,
           \/ \E algo \in Algos, salt \in Salts : Crypt!MakePhrase(k, algo, salt) \/ Crypt!Reset(k, algo, salt)
           \/ \E other \in Phrases : Crypt!CopyPhrase(k, other)
    PROVE  CipherInv'
<1>1. UNCHANGED <<ciphers, cipherCtx, algo_, tag_, cipherHeap, keyed, burnt>>
  BY DEF Crypt!MakePhrase, Crypt!Reset, Crypt!CopyPhrase, Crypt!objectsV
<1>2. \A algo \in Algos : algo \in AlgoNames /\ \A salt : \A size \in Crypt!SizeFor(algo, salt) : size \in Nat
  BY AlgoSizes DEF AlgoNames, Crypt!SizeFor
<1>3. phrase' \in [Phrases -> PhraseType]
  <2>1. phrase \in [Phrases -> PhraseType]
    BY DEF CipherInv, CipherTypes
  <2>2. ASSUME NEW w \in PhraseType, phrase' = [phrase EXCEPT ![k] = w] PROVE phrase' \in [Phrases -> PhraseType]
    BY <2>1, <2>2
  <2>3. ASSUME NEW algo \in Algos, NEW salt \in Salts, Crypt!MakePhrase(k, algo, salt) PROVE phrase' \in [Phrases -> PhraseType]
    <3>1. PICK size \in Crypt!SizeFor(algo, salt) : phrase' = [phrase EXCEPT ![k] = [cipher |-> algo, size |-> size, algo |-> algo]]
      BY <2>3 DEF Crypt!MakePhrase
    <3>2. [cipher |-> algo, size |-> size, algo |-> algo] \in PhraseType
      BY <1>2 DEF PhraseType
    <3> QED BY <2>2, <3>1, <3>2
  <2>4. ASSUME NEW algo \in Algos, NEW salt \in Salts, Crypt!Reset(k, algo, salt) PROVE phrase' \in [Phrases -> PhraseType]
    <3>1. PICK size \in Crypt!SizeFor(algo, salt) :
             phrase' = [phrase EXCEPT ![k].size = size, ![k].algo = IF Crypt!is_salt(salt) THEN algo ELSE @]
      BY <2>4 DEF Crypt!Reset
    <3>2. size \in Nat /\ algo \in AlgoNames /\ phrase[k] \in PhraseType
      BY <1>2, <2>1
    <3> QED BY <2>1, <3>1, <3>2 DEF PhraseType
  <2>5. ASSUME NEW other \in Phrases, Crypt!CopyPhrase(k, other) PROVE phrase' \in [Phrases -> PhraseType]
    <3>1. phrase' = [phrase EXCEPT ![k] = [phrase[other] EXCEPT !.algo = IF phrase[other].size = 0 THEN phrase[k].algo ELSE @]]
      BY <2>5 DEF Crypt!CopyPhrase
    <3>2. phrase[other] \in PhraseType /\ phrase[k] \in PhraseType
      BY <2>1
    <3>3. [phrase[other] EXCEPT !.algo = IF phrase[other].size = 0 THEN phrase[k].algo ELSE @] \in PhraseType
      BY <3>2 DEF PhraseType
    <3> QED BY <2>2, <3>1, <3>3
  <2> QED BY <2>3, <2>4, <2>5
<1> QED BY <1>1, <1>3 DEF CipherInv, CipherTypes, CiphersAlive, SoundCiphers, CiphersKeyed

LEMMA CipherStep == ASSUME Crypt!CipherAssumption, CipherInv, [Crypt!CipherNext]_(Crypt!cipherVars) PROVE CipherInv'
<1>1. CASE UNCHANGED Crypt!cipherVars
  BY <1>1 DEF Crypt!cipherVars, CipherInv, CipherTypes, CiphersAlive, SoundCiphers, CiphersKeyed
<1>2. ASSUME NEW o \in Crypt!Ciphers, NEW algo \in Algos, Crypt!Construct(o, algo) PROVE CipherInv'
  <2>1. Crypt!Appears(o) /\ Crypt!Becomes(o, 0, algo, 0) /\ UNCHANGED <<cipherHeap, keyed, burnt>>
    BY <1>2 DEF Crypt!Construct, Crypt!Null
  <2>2. CiphersAlive' /\ ciphers' = ciphers \cup {o} /\ o \notin ciphers /\ o \notin burnt /\ GivenUp(o) = {}
    BY <2>1, CipherAppears
  <2>3. Crypt!Frees(GivenUp(o))
    BY <2>1, <2>2 DEF Crypt!Frees, CipherInv, CipherTypes
  <2>4. SoundCiphers' = SoundCiphers \cup {o} /\ algo \in AlgoNames
    BY <2>1, <2>2 DEF SoundCiphers, AlgoNames
  <2> QED BY <2>1, <2>2, <2>3, <2>4, CipherLeft
<1>3. ASSUME NEW o \in Crypt!Ciphers, NEW k \in Phrases,
             Crypt!DecryptFrom(o, k) \/ Crypt!EncryptFrom(o, k) \/ Crypt!DecryptRekey(o, k) \/ Crypt!EncryptRekey(o, k)
      PROVE  CipherInv'
  BY <1>3, CipherFrom, CipherRekey DEF Crypt!DecryptRekey, Crypt!EncryptRekey
<1>4. ASSUME NEW o \in Crypt!Ciphers, NEW other \in Crypt!Ciphers,
             Crypt!DecryptMove(o, other) \/ Crypt!EncryptMoveConstruct(o, other) \/ Crypt!EncryptMoveAssign(o, other)
      PROVE  CipherInv'
  BY <1>4, CipherMoves DEF Crypt!DecryptMove, Crypt!EncryptMoveConstruct, Crypt!EncryptMoveAssign
<1>5. ASSUME NEW o \in Crypt!Ciphers, NEW k \in Phrases, Crypt!NullCipher(o, k) PROVE CipherInv'
  BY <1>5 DEF Crypt!NullCipher, Crypt!objectsV, CipherInv, CipherTypes, CiphersAlive, SoundCiphers, CiphersKeyed
<1> QED BY <1>1, <1>2, <1>3, <1>4, <1>5, PhraseChanges, CipherEnds DEF Crypt!CipherNext, Crypt!ObjectsNext

LEMMA CipherImplied == ASSUME CipherInv PROVE Crypt!ContextsOwned /\ Crypt!KeyedForAlgo
BY DEF CipherInv, OwnedBy, CiphersKeyed, KeyedRight, SoundCiphers, Crypt!ContextsOwned, Crypt!KeyedForAlgo, Crypt!Null

-----------------------------------------------------------------------------
(* x509_t, pubkey_t, eckey_t, sign_t and verify_t. *)

LEMMA HeldCard == \A X : Held!Cardinality(X) = Cardinality(X) /\ (Held!IsFiniteSet(X) <=> IsFiniteSet(X))
BY DEF Held!Cardinality, Cardinality, Held!IsFiniteSet, IsFiniteSet

\* How many members of A have k by f.
HaveIt(f, A, k) == Cardinality({a \in A : f[a] = k})
OneIf(x, y) == IF x = y THEN 1 ELSE 0
\* What the count of k gains when n comes for m.
Gain(n, m, k) == OneIf(n, k) - OneIf(m, k)

\* Where only a changes, the count follows what it gets and what it had.
OnlyAt(a, f, g, A) == a \in A /\ \A b \in A : b # a => g[b] = f[b]

LEMMA HaveItChanged ==
    ASSUME NEW A, IsFiniteSet(A), NEW f, NEW g, NEW a, OnlyAt(a, f, g, A), NEW k
    PROVE  HaveIt(f, A, k) \in Nat /\ HaveIt(g, A, k) = HaveIt(f, A, k) + Gain(g[a], f[a], k)
<1> USE DEF OnlyAt
<1>1. PICK R : R = {b \in A : b # a /\ f[b] = k}
  OBVIOUS
<1>2. PICK F : F = {b \in A : f[b] = k}
  OBVIOUS
<1>3. PICK G : G = {b \in A : g[b] = k}
  OBVIOUS
<1>4. IsFiniteSet(R) /\ Cardinality(R) \in Nat /\ a \notin R
  <2>1. R \subseteq A
    BY <1>1
  <2> QED BY <1>1, <2>1, FS_Subset, FS_CardinalityType
<1>5. Cardinality(F) = Cardinality(R) + OneIf(f[a], k)
  <2>1. CASE f[a] = k
    <3>1. F = R \cup {a}
      BY <1>1, <1>2, <2>1
    <3> QED BY <1>4, <2>1, <3>1, CountsMore DEF OneIf
  <2>2. CASE f[a] # k
    <3>1. F = R
      BY <1>1, <1>2, <2>2
    <3> QED BY <1>4, <2>2, <3>1 DEF OneIf
  <2> QED BY <2>1, <2>2
<1>6. Cardinality(G) = Cardinality(R) + OneIf(g[a], k)
  <2>1. CASE g[a] = k
    <3>1. G = R \cup {a}
      BY <1>1, <1>3, <2>1
    <3> QED BY <1>4, <2>1, <3>1, CountsMore DEF OneIf
  <2>2. CASE g[a] # k
    <3>1. G = R
      BY <1>1, <1>3, <2>2
    <3> QED BY <1>4, <2>2, <3>1 DEF OneIf
  <2> QED BY <2>1, <2>2
<1>7. HaveIt(f, A, k) = Cardinality(F) /\ HaveIt(g, A, k) = Cardinality(G)
  BY <1>2, <1>3 DEF HaveIt
<1> QED BY <1>4, <1>5, <1>6, <1>7 DEF OneIf, Gain

LEMMA HaveItSame ==
    ASSUME NEW A, NEW f, NEW g, \A b \in A : g[b] = f[b], NEW k
    PROVE  HaveIt(g, A, k) = HaveIt(f, A, k)
<1>1. {b \in A : g[b] = k} = {b \in A : f[b] = k}
  OBVIOUS
<1> QED BY <1>1 DEF HaveIt

LEMMA HaveItNat == ASSUME NEW A, IsFiniteSet(A), NEW f, NEW k PROVE HaveIt(f, A, k) \in Nat
<1>1. PICK F : F = {b \in A : f[b] = k}
  OBVIOUS
<1>2. IsFiniteSet(F)
  BY <1>1, FS_Subset
<1> QED BY <1>1, <1>2, FS_CardinalityType DEF HaveIt

EvpKey == EvpKeys \cup {0}

\* What an eckey_t may have derived.
Derived == [own : EvpKey, peer : EvpKey, given : {"none", "made", "ignored"}]

KeyTypes ==
    /\ cert_ \in [Certs -> X509s \cup {0}] /\ xkey \in [X509s -> EvpKey]
    /\ key_ \in [Held!Holders -> EvpKey] /\ leaked \in [EvpKeys -> Nat]
    /\ aes \in [Ecs -> Derived]

KeysCounted ==
    refs = [k \in EvpKeys |-> HaveIt(key_, Held!Holders, k) + HaveIt(xkey, X509s, k) + leaked[k]]

CertsCounted ==
    /\ xrefs = [x \in X509s |-> HaveIt(cert_, Certs, x)]
    /\ \A x \in X509s : xrefs[x] = 0 => xkey[x] = 0

\* An object that is not there has nothing.
Vacant ==
    /\ \A c \in Certs \ keyUp : cert_[c] = 0
    /\ \A h \in Held!Holders \ keyUp : key_[h] = 0
    /\ \A e \in Ecs \ keyUp : aes[e] = Held!None

KeyInv == KeyTypes /\ KeysCounted /\ CertsCounted /\ Vacant /\ Held!DerivedFromOwn

LEMMA KeySets ==
    ASSUME Held!KeyAssumption
    PROVE  /\ IsFiniteSet(Certs) /\ IsFiniteSet(X509s) /\ IsFiniteSet(Held!Holders)
           /\ EvpKeys \subseteq Nat /\ 0 \notin EvpKeys /\ X509s \subseteq Nat /\ 0 \notin X509s
<1>1. IsFiniteSet(Certs) /\ IsFiniteSet(Pubs) /\ IsFiniteSet(Ecs) /\ IsFiniteSet(Signers) /\ IsFiniteSet(Verifiers)
      /\ IsFiniteSet(X509s)
  BY HeldCard DEF Held!KeyAssumption
<1>2. IsFiniteSet(Pubs \cup Ecs) /\ IsFiniteSet(Signers \cup Verifiers)
  BY <1>1, FS_Union
<1>3. IsFiniteSet(Held!Holders)
  BY <1>2, FS_Union DEF Held!Holders, Held!Users
<1> QED BY <1>1, <1>3 DEF Held!KeyAssumption

LEMMA KeyStarts == ASSUME Held!KeyAssumption, Held!KeyInit PROVE KeyInv
<1> USE DEF Held!KeyInit, Held!Null, Held!None
<1>1. KeyTypes
  BY DEF KeyTypes, EvpKey, Derived
<1>2. ASSUME NEW A, NEW f, NEW k, k # 0, f = [a \in A |-> 0] PROVE HaveIt(f, A, k) = 0
  <2>1. {a \in A : f[a] = k} = {}
    BY <1>2
  <2> QED BY <2>1, FS_EmptySet DEF HaveIt
<1>3. KeysCounted
  <2>1. \A k \in EvpKeys : HaveIt(key_, Held!Holders, k) = 0 /\ HaveIt(xkey, X509s, k) = 0 /\ leaked[k] = 0
    BY <1>2, KeySets
  <2> QED BY <2>1 DEF KeysCounted
<1>4. CertsCounted
  <2>1. \A x \in X509s : HaveIt(cert_, Certs, x) = 0
    BY <1>2, KeySets
  <2> QED BY <2>1 DEF CertsCounted
<1>5. Vacant
  BY DEF Vacant, Held!Holders
<1>6. Held!DerivedFromOwn
  BY DEF Held!DerivedFromOwn
<1> QED BY <1>1, <1>3, <1>4, <1>5, <1>6 DEF KeyInv

LEMMA KeyImplied == ASSUME Held!KeyAssumption, KeyInv PROVE Held!RefsBalanced /\ Held!DerivedFromOwn
<1>1. \A x \in X509s : xrefs[x] \in Nat /\ xrefs[x] = HaveIt(cert_, Certs, x)
  BY KeySets, HaveItNat DEF KeyInv, CertsCounted
<1>2. ASSUME NEW k \in EvpKeys
      PROVE  {x \in X509s : xrefs[x] > 0 /\ xkey[x] = k} = {x \in X509s : xkey[x] = k}
  <2>1. k # 0
    BY KeySets
  <2>2. \A x \in X509s : xkey[x] = k => xrefs[x] > 0
    BY <1>1, <2>1 DEF KeyInv, CertsCounted
  <2> QED BY <2>2
<1>3. ASSUME NEW k \in EvpKeys
      PROVE  refs[k] = Cardinality({h \in Held!Holders : key_[h] = k})
                       + Cardinality({x \in X509s : xrefs[x] > 0 /\ xkey[x] = k}) + leaked[k]
  BY <1>2 DEF KeyInv, KeysCounted, HaveIt
<1>4. \A o \in Held!Holders \ keyUp : key_[o] = 0
  BY DEF KeyInv, Vacant
<1>5. \A x \in X509s : xrefs[x] = Cardinality({c \in Certs : cert_[c] = x})
  BY <1>1 DEF HaveIt
<1>6. Held!RefsBalanced
  BY <1>3, <1>4, <1>5, HeldCard, Zenon DEF Held!RefsBalanced, Held!Null
<1> QED BY <1>6 DEF KeyInv

\* What Counted makes of at most one reference more and one less.
LEMMA KeyCounted ==
    ASSUME Held!KeyAssumption, KeyInv, NEW n, NEW m
    PROVE  /\ Held!Counted(<<n>>, <<m>>) = [k \in EvpKeys |-> refs[k] + Gain(n, m, k)]
           /\ Held!Counted(<<n>>, <<>>) = [k \in EvpKeys |-> refs[k] + Gain(n, 0, k)]
           /\ Held!Counted(<<>>, <<m>>) = [k \in EvpKeys |-> refs[k] + Gain(0, m, k)]
           /\ Held!Counted(<<>>, <<>>) = [k \in EvpKeys |-> refs[k] + Gain(0, 0, k)]
<1>1. ASSUME NEW y, NEW k PROVE Held!Cardinality({i \in DOMAIN <<y>> : <<y>>[i] = k}) = OneIf(y, k)
  <2>1. CASE y = k
    <3>1. {i \in DOMAIN <<y>> : <<y>>[i] = k} = {1}
      BY <2>1
    <3> QED BY <2>1, <3>1, HeldCard, FS_Singleton DEF OneIf
  <2>2. CASE y # k
    <3>1. {i \in DOMAIN <<y>> : <<y>>[i] = k} = {}
      BY <2>2
    <3> QED BY <2>2, <3>1, HeldCard, FS_EmptySet DEF OneIf
  <2> QED BY <2>1, <2>2
<1>2. ASSUME NEW k PROVE Held!Cardinality({i \in DOMAIN << >> : << >>[i] = k}) = 0
  <2>1. {i \in DOMAIN << >> : << >>[i] = k} = {}
    OBVIOUS
  <2> QED BY <2>1, HeldCard, FS_EmptySet
<1>3. \A k \in EvpKeys : OneIf(0, k) = 0
  BY KeySets DEF OneIf
<1> QED BY <1>1, <1>2, <1>3 DEF Held!Counted, Gain

\* A key no object has, for the library to make.
LEMMA KeyFresh ==
    ASSUME Held!KeyAssumption, KeyInv, \E k \in EvpKeys : refs[k] = 0
    PROVE  Held!NewKey \in EvpKeys
<1>1. PICK X : X = {k \in EvpKeys : refs[k] = 0}
  OBVIOUS
<1>2. X \subseteq Nat /\ X # {}
  BY <1>1, KeySets
<1>3. Held!Min(X) \in X
  BY <1>2, LeastIs DEF Held!Min
<1> QED BY <1>1, <1>3 DEF Held!NewKey

\* h gets n instead of what it had, with a reference more and a reference less.
Swapped(h, n) ==
    /\ key_' = [key_ EXCEPT ![h] = n]
    /\ refs' = [k \in EvpKeys |-> refs[k] + Gain(n, key_[h], k)]

LEMMA KeySwapped ==
    ASSUME Held!KeyAssumption, KeyInv, NEW h \in Held!Holders, NEW n \in EvpKey
    PROVE  /\ Held!Gets(h, n, <<n>>, <<key_[h]>>) => Swapped(h, n)
           /\ (h \notin keyUp /\ Held!Gets(h, n, <<n>>, <<>>)) => Swapped(h, n)
           /\ Held!Gets(h, 0, <<>>, <<key_[h]>>) => Swapped(h, 0)
           /\ (h \notin keyUp /\ Held!Gets(h, 0, <<>>, <<>>)) => Swapped(h, 0)
<1>1. h \notin keyUp => key_[h] = 0
  BY DEF KeyInv, Vacant
<1>2. Held!Counted(<<n>>, <<key_[h]>>) = [k \in EvpKeys |-> refs[k] + Gain(n, key_[h], k)]
  BY KeyCounted, Zenon
<1>3. Held!Counted(<<n>>, <<>>) = [k \in EvpKeys |-> refs[k] + Gain(n, 0, k)]
  BY KeyCounted, Zenon
<1>4. Held!Counted(<<>>, <<key_[h]>>) = [k \in EvpKeys |-> refs[k] + Gain(0, key_[h], k)]
  BY KeyCounted, Zenon
<1>5. Held!Counted(<<>>, <<>>) = [k \in EvpKeys |-> refs[k] + Gain(0, 0, k)]
  BY KeyCounted, Zenon
<1> QED BY <1>1, <1>2, <1>3, <1>4, <1>5, Zenon DEF Held!Gets, Swapped

\* The counts stay right, and so do the certificates.
LEMMA SwapCounted ==
    ASSUME Held!KeyAssumption, KeyInv, NEW h \in Held!Holders, NEW n \in EvpKey, Swapped(h, n),
           cert_' = cert_, xrefs' = xrefs, xkey' = xkey, leaked' = leaked
    PROVE  KeysCounted' /\ CertsCounted'
<1>1. key_'[h] = n /\ \A g \in Held!Holders : g # h => key_'[g] = key_[g]
  BY DEF Swapped, KeyInv, KeyTypes
<1>2. ASSUME NEW k \in EvpKeys
      PROVE  refs'[k] = HaveIt(key_', Held!Holders, k) + HaveIt(xkey', X509s, k) + leaked'[k]
  <2>1. HaveIt(key_, Held!Holders, k) \in Nat
        /\ HaveIt(key_', Held!Holders, k) = HaveIt(key_, Held!Holders, k) + Gain(n, key_[h], k)
    <3>1. PICK g : g = key_'
      OBVIOUS
    <3>2. g[h] = n /\ OnlyAt(h, key_, g, Held!Holders)
      BY <1>1, <3>1 DEF OnlyAt
    <3>3. IsFiniteSet(Held!Holders)
      BY KeySets
    <3>4. HaveIt(key_, Held!Holders, k) \in Nat
          /\ HaveIt(g, Held!Holders, k) = HaveIt(key_, Held!Holders, k) + Gain(g[h], key_[h], k)
      BY <3>2, <3>3, HaveItChanged
    <3> QED BY <3>1, <3>2, <3>4
  <2>2. HaveIt(xkey, X509s, k) \in Nat /\ leaked[k] \in Nat
    BY KeySets, HaveItNat DEF KeyInv, KeyTypes
  <2>3. refs[k] = HaveIt(key_, Held!Holders, k) + HaveIt(xkey, X509s, k) + leaked[k]
    BY DEF KeyInv, KeysCounted
  <2>4. refs'[k] = refs[k] + Gain(n, key_[h], k)
    BY DEF Swapped
  <2> QED BY <2>1, <2>2, <2>3, <2>4 DEF OneIf, Gain
<1>3. KeysCounted'
  BY <1>2 DEF KeysCounted, Swapped
<1> QED BY <1>3 DEF KeyInv, CertsCounted

\* a was made with the pair k, or with none and unnoticed.
MadeWith(a, k) == a.own \in {0, k} /\ (a.given = "made" => a.own # 0)

LEMMA AllMadeWith == ASSUME KeyInv PROVE \A f \in Ecs : MadeWith(aes[f], key_[f])
<1>1. Held!DerivedFromOwn
  BY DEF KeyInv
<1> QED BY <1>1 DEF Held!DerivedFromOwn, Held!Null, MadeWith

\* Such a step keeps the invariant where what was derived goes with the pair.
LEMMA SwapKeeps ==
    ASSUME Held!KeyAssumption, KeyInv, NEW h \in Held!Holders, NEW n \in EvpKey, Swapped(h, n),
           cert_' = cert_, xrefs' = xrefs, xkey' = xkey, leaked' = leaked,
           (keyUp' = keyUp \cup {h}) \/ (keyUp' = keyUp \ {h} /\ n = 0),
           \/ (h \notin Ecs \/ h \notin keyUp) /\ aes' = aes
           \/ h \in Ecs /\ aes' = [aes EXCEPT ![h] = Held!None]
           \/ /\ h \in Ecs /\ keyUp' = keyUp \cup {h}
              /\ \E f \in Ecs : aes' = [aes EXCEPT ![h] = aes[f]] /\ n = key_[f]
    PROVE  KeyInv'
<1>1. h \notin Certs
  BY DEF Held!KeyAssumption, Held!Holders, Held!Users
<1>2. key_' \in [Held!Holders -> EvpKey] /\ key_'[h] = n /\ \A g \in Held!Holders : g # h => key_'[g] = key_[g]
  BY DEF Swapped, KeyInv, KeyTypes
<1>3. /\ aes' \in [Ecs -> Derived]
      /\ \A e \in Ecs : e # h => aes'[e] = aes[e]
      /\ h \in Ecs => \/ aes'[h] = Held!None
                      \/ keyUp' = keyUp \cup {h} /\ \E f \in Ecs : aes'[h] = aes[f] /\ n = key_[f]
  <2>1. CASE (h \notin Ecs \/ h \notin keyUp) /\ aes' = aes
    BY <2>1 DEF KeyInv, KeyTypes, Vacant
  <2>2. CASE h \in Ecs /\ aes' = [aes EXCEPT ![h] = Held!None]
    BY <2>2 DEF KeyInv, KeyTypes, Held!None, Held!Null, EvpKey, Derived
  <2>3. CASE /\ h \in Ecs /\ keyUp' = keyUp \cup {h}
             /\ \E f \in Ecs : aes' = [aes EXCEPT ![h] = aes[f]] /\ n = key_[f]
    BY <2>3 DEF KeyInv, KeyTypes
  <2> QED BY <2>1, <2>2, <2>3
<1>4. KeyTypes'
  BY <1>2, <1>3 DEF KeyInv, KeyTypes
<1>5. Vacant'
  <2>1. \A c \in Certs \ keyUp' : cert_'[c] = 0
    BY <1>1 DEF KeyInv, Vacant
  <2>2. \A g \in Held!Holders \ keyUp' : key_'[g] = 0
    BY <1>2 DEF KeyInv, Vacant
  <2>3. \A e \in Ecs \ keyUp' : aes'[e] = Held!None
    BY <1>3 DEF KeyInv, Vacant
  <2>4. Held!None' = Held!None
    BY DEF Held!None, Held!Null
  <2> QED BY <2>1, <2>2, <2>3, <2>4 DEF Vacant
<1>6. Held!DerivedFromOwn'
  <2> SUFFICES ASSUME NEW e \in Ecs PROVE MadeWith(aes'[e], key_'[e])
    BY DEF Held!DerivedFromOwn, Held!Null, MadeWith
  <2>1. e \in Held!Holders /\ \A f \in Ecs : MadeWith(aes[f], key_[f])
    BY AllMadeWith DEF Held!Holders
  <2>2. CASE e = h
    <3>1. MadeWith(Held!None, n)
      BY DEF MadeWith, Held!None, Held!Null
    <3> QED BY <1>2, <1>3, <2>1, <2>2, <3>1
  <2>3. CASE e # h
    BY <1>2, <1>3, <2>1, <2>3
  <2> QED BY <2>2, <2>3
<1>7. KeysCounted' /\ CertsCounted'
  BY SwapCounted
<1> QED BY <1>4, <1>5, <1>6, <1>7 DEF KeyInv

\* The certificate of c is n instead of what it was: how often each is counted.
LEMMA CertSwapped ==
    ASSUME Held!KeyAssumption, KeyInv, NEW c \in Certs, NEW n, cert_' = [cert_ EXCEPT ![c] = n], NEW x \in X509s
    PROVE  xrefs[x] \in Nat /\ HaveIt(cert_', Certs, x) = xrefs[x] + Gain(n, cert_[c], x)
<1>1. PICK g : g = cert_'
  OBVIOUS
<1>2. g[c] = n /\ OnlyAt(c, cert_, g, Certs)
  BY <1>1 DEF KeyInv, KeyTypes, OnlyAt
<1>3. IsFiniteSet(Certs)
  BY KeySets
<1>4. HaveIt(cert_, Certs, x) \in Nat /\ HaveIt(g, Certs, x) = HaveIt(cert_, Certs, x) + Gain(g[c], cert_[c], x)
  BY <1>2, <1>3, HaveItChanged
<1>5. xrefs[x] = HaveIt(cert_, Certs, x)
  BY DEF KeyInv, CertsCounted
<1> QED BY <1>1, <1>2, <1>4, <1>5

\* A certificate x has k instead of the key it had.
LEMMA CertKeySwapped ==
    ASSUME Held!KeyAssumption, KeyInv, NEW x \in X509s, NEW n, xkey'[x] = n, \A y \in X509s : y # x => xkey'[y] = xkey[y],
           refs' = [k \in EvpKeys |-> refs[k] + Gain(n, xkey[x], k)], key_' = key_, leaked' = leaked
    PROVE  KeysCounted'
<1>1. PICK g : g = xkey'
  OBVIOUS
<1>2. g[x] = n /\ OnlyAt(x, xkey, g, X509s)
  BY <1>1 DEF OnlyAt
<1>3. IsFiniteSet(X509s)
  BY KeySets
<1>4. ASSUME NEW k \in EvpKeys
      PROVE  refs'[k] = HaveIt(key_', Held!Holders, k) + HaveIt(xkey', X509s, k) + leaked'[k]
  <2>1. HaveIt(xkey, X509s, k) \in Nat /\ HaveIt(g, X509s, k) = HaveIt(xkey, X509s, k) + Gain(g[x], xkey[x], k)
    BY <1>2, <1>3, HaveItChanged
  <2>2. HaveIt(key_, Held!Holders, k) \in Nat /\ leaked[k] \in Nat
    BY KeySets, HaveItNat DEF KeyInv, KeyTypes
  <2>3. refs[k] = HaveIt(key_, Held!Holders, k) + HaveIt(xkey, X509s, k) + leaked[k]
    BY DEF KeyInv, KeysCounted
  <2>4. refs'[k] = refs[k] + Gain(n, xkey[x], k)
    OBVIOUS
  <2> QED BY <1>1, <1>2, <2>1, <2>2, <2>3, <2>4 DEF OneIf, Gain
<1> QED BY <1>4 DEF KeysCounted

\* Where the keys of the certificates stay.
LEMMA CertKeysSame ==
    ASSUME KeyInv, \A y \in X509s : xkey'[y] = xkey[y], refs' = refs, key_' = key_, leaked' = leaked
    PROVE  KeysCounted'
<1>1. PICK g : g = xkey'
  OBVIOUS
<1>2. \A k \in EvpKeys : HaveIt(g, X509s, k) = HaveIt(xkey, X509s, k)
  BY <1>1, HaveItSame
<1> QED BY <1>1, <1>2 DEF KeyInv, KeysCounted

\* What a step of an x509_t leaves to the other conjuncts.
LEMMA CertRest ==
    ASSUME Held!KeyAssumption, KeyInv, NEW c \in Certs, NEW n \in X509s \cup {0}, cert_' = [cert_ EXCEPT ![c] = n],
           (keyUp' = keyUp \cup {c}) \/ (keyUp' = keyUp \ {c} /\ n = 0),
           key_' = key_, aes' = aes, leaked' = leaked, xkey' \in [X509s -> EvpKey]
    PROVE  KeyTypes' /\ Vacant' /\ Held!DerivedFromOwn'
<1>1. c \notin Held!Holders /\ c \notin Ecs
  BY DEF Held!KeyAssumption, Held!Holders, Held!Users
<1>2. KeyTypes'
  BY DEF KeyInv, KeyTypes
<1>3. Vacant'
  <2>1. \A d \in Certs \ keyUp' : cert_'[d] = 0
    BY DEF KeyInv, KeyTypes, Vacant
  <2>2. Held!None' = Held!None
    BY DEF Held!None, Held!Null
  <2> QED BY <1>1, <2>1, <2>2 DEF KeyInv, Vacant
<1>4. Held!DerivedFromOwn'
  BY DEF KeyInv, Held!DerivedFromOwn, Held!None, Held!Null
<1> QED BY <1>2, <1>3, <1>4

LEMMA CertRecounted ==
    ASSUME Held!KeyAssumption, KeyInv, NEW c \in Certs, NEW n \in X509s \cup {0}, cert_' = [cert_ EXCEPT ![c] = n],
           (keyUp' = keyUp \cup {c}) \/ (keyUp' = keyUp \ {c} /\ n = 0),
           Held!Recount(n, cert_[c]),
           key_' = key_, aes' = aes, leaked' = leaked
    PROVE  KeyInv'
<1>1. PICK b : b = cert_[c]
  OBVIOUS
<1>2. b \in X509s \cup {0} /\ 0 \notin X509s
  BY <1>1, KeySets DEF KeyInv, KeyTypes
<1>3. PICK counts : counts = [x \in X509s |-> xrefs[x] + (IF x = n THEN 1 ELSE 0) - (IF x = b THEN 1 ELSE 0)]
  OBVIOUS
<1>4. /\ xrefs' = counts
      /\ refs' = IF b # 0 /\ counts[b] = 0 THEN Held!Counted(<<>>, <<xkey[b]>>) ELSE refs
      /\ xkey' = [x \in X509s |-> IF counts[x] = 0 THEN 0 ELSE xkey[x]]
  BY <1>1, <1>3 DEF Held!Recount, Held!Null
<1>5. ASSUME NEW x \in X509s PROVE counts[x] = HaveIt(cert_', Certs, x) /\ xrefs[x] \in Nat
  <2>1. xrefs[x] \in Nat /\ HaveIt(cert_', Certs, x) = xrefs[x] + Gain(n, b, x)
    BY <1>1, CertSwapped
  <2> QED BY <1>3, <2>1 DEF Gain, OneIf
<1>6. CertsCounted'
  <2>1. xrefs' = [x \in X509s |-> HaveIt(cert_', Certs, x)]
    BY <1>3, <1>4, <1>5
  <2>2. \A x \in X509s : xrefs'[x] = 0 => xkey'[x] = 0
    BY <1>4
  <2> QED BY <2>1, <2>2 DEF CertsCounted
<1>7. ASSUME NEW x \in X509s, x # b PROVE xkey'[x] = xkey[x]
  <2>1. counts[x] = 0 => xrefs[x] = 0
    BY <1>3, <1>5, <1>7
  <2> QED BY <1>4, <2>1 DEF KeyInv, CertsCounted
<1>8. KeysCounted'
  <2>1. CASE b # 0 /\ counts[b] = 0
    <3>1. b \in X509s /\ xkey'[b] = 0
      BY <1>2, <1>4, <2>1
    <3>2. PICK m : m = xkey[b]
      OBVIOUS
    <3>3. Held!Counted(<<>>, <<m>>) = [k \in EvpKeys |-> refs[k] + Gain(0, m, k)]
      BY KeyCounted, Zenon
    <3>4. refs' = [k \in EvpKeys |-> refs[k] + Gain(0, m, k)]
      BY <1>4, <2>1, <3>2, <3>3, Zenon
    <3> QED BY <1>7, <3>1, <3>2, <3>4, CertKeySwapped
  <2>2. CASE ~(b # 0 /\ counts[b] = 0)
    <3>1. refs' = refs
      BY <1>4, <2>2, Zenon
    <3>2. \A y \in X509s : xkey'[y] = xkey[y]
      BY <1>2, <1>4, <1>7, <2>2
    <3> QED BY <3>1, <3>2, CertKeysSame
  <2> QED BY <2>1, <2>2
<1>9. xkey' \in [X509s -> EvpKey]
  BY <1>4 DEF KeyInv, KeyTypes, EvpKey
<1> QED BY <1>6, <1>8, <1>9, CertRest DEF KeyInv

LEMMA CertMade == ASSUME Held!KeyAssumption, KeyInv, NEW c \in Certs, Held!MakeCert(c) PROVE KeyInv'
<1>1. c \notin keyUp /\ keyUp' = keyUp \cup {c} /\ key_' = key_ /\ aes' = aes /\ leaked' = leaked
  BY DEF Held!MakeCert, Held!Born
<1>2. cert_[c] = 0
  BY <1>1 DEF KeyInv, Vacant
<1>3. CASE cert_' = [cert_ EXCEPT ![c] = Held!Null] /\ UNCHANGED <<xrefs, xkey, refs>>
  <2>1. cert_' = [cert_ EXCEPT ![c] = 0] /\ cert_' = cert_
    BY <1>2, <1>3 DEF Held!Null, KeyInv, KeyTypes
  <2>2. KeyTypes' /\ Vacant' /\ Held!DerivedFromOwn'
    BY <1>1, <1>3, <2>1, CertRest DEF KeyInv, KeyTypes
  <2>3. KeysCounted' /\ CertsCounted'
    BY <1>1, <1>3, <2>1 DEF KeyInv, KeysCounted, CertsCounted
  <2> QED BY <2>2, <2>3 DEF KeyInv
<1>4. CASE /\ (\E x \in X509s : xrefs[x] = 0) /\ \E k \in EvpKeys : refs[k] = 0
           /\ LET x == Held!Min({y \in X509s : xrefs[y] = 0})
              IN /\ cert_' = [cert_ EXCEPT ![c] = x] /\ xrefs' = [xrefs EXCEPT ![x] = 1]
                 /\ xkey' = [xkey EXCEPT ![x] = Held!NewKey]
           /\ refs' = Held!Counted(<<Held!NewKey>>, <<>>)
  <2>1. PICK x : x = Held!Min({y \in X509s : xrefs[y] = 0})
    OBVIOUS
  <2>2. x \in X509s /\ xrefs[x] = 0
    <3>1. PICK X : X = {y \in X509s : xrefs[y] = 0}
      OBVIOUS
    <3>2. X \subseteq Nat /\ X # {}
      BY <1>4, <3>1, KeySets
    <3>3. Held!Min(X) \in X
      BY <3>2, LeastIs DEF Held!Min
    <3> QED BY <2>1, <3>1, <3>3
  <2>3. PICK n : n = Held!NewKey
    OBVIOUS
  <2>4. n \in EvpKeys
    BY <1>4, <2>3, KeyFresh
  <2>5. /\ cert_' = [cert_ EXCEPT ![c] = x] /\ xrefs' = [xrefs EXCEPT ![x] = 1]
        /\ xkey' = [xkey EXCEPT ![x] = n] /\ refs' = Held!Counted(<<n>>, <<>>)
    BY <1>4, <2>1, <2>3
  <2>6. xkey[x] = 0 /\ xrefs[x] = 0 /\ x # 0
    BY <2>2, KeySets DEF KeyInv, CertsCounted
  <2>7. xkey' \in [X509s -> EvpKey] /\ xkey'[x] = n /\ \A y \in X509s : y # x => xkey'[y] = xkey[y]
    BY <2>2, <2>4, <2>5 DEF KeyInv, KeyTypes, EvpKey
  <2>8. refs' = [k \in EvpKeys |-> refs[k] + Gain(n, xkey[x], k)]
    <3>1. Held!Counted(<<n>>, <<>>) = [k \in EvpKeys |-> refs[k] + Gain(n, 0, k)]
      BY KeyCounted, Zenon
    <3> QED BY <2>5, <2>6, <3>1
  <2>9. KeysCounted'
    BY <1>1, <2>2, <2>7, <2>8, CertKeySwapped
  <2>10. ASSUME NEW y \in X509s PROVE xrefs'[y] = HaveIt(cert_', Certs, y) /\ (xrefs'[y] = 0 => xkey'[y] = 0)
    <3>1. xrefs[y] \in Nat /\ HaveIt(cert_', Certs, y) = xrefs[y] + Gain(x, 0, y) /\ y # 0
      BY <1>2, <2>5, CertSwapped, KeySets
    <3>2. xrefs'[y] = IF y = x THEN 1 ELSE xrefs[y]
      BY <2>2, <2>5 DEF KeyInv, CertsCounted
    <3>3. xrefs'[y] = HaveIt(cert_', Certs, y)
      BY <2>6, <3>1, <3>2 DEF Gain, OneIf
    <3>4. xrefs'[y] = 0 => xkey'[y] = 0
      BY <2>7, <3>2 DEF KeyInv, CertsCounted
    <3> QED BY <3>3, <3>4
  <2>11. CertsCounted'
    <3>1. xrefs' = [y \in X509s |-> xrefs'[y]]
      BY <2>5 DEF KeyInv, CertsCounted
    <3> QED BY <2>10, <3>1 DEF CertsCounted
  <2>12. KeyTypes' /\ Vacant' /\ Held!DerivedFromOwn'
    BY <1>1, <2>2, <2>5, <2>7, CertRest
  <2> QED BY <2>9, <2>11, <2>12 DEF KeyInv
<1> QED BY <1>3, <1>4 DEF Held!MakeCert

LEMMA CertChanges ==
    ASSUME Held!KeyAssumption, KeyInv, NEW c \in Certs, NEW d \in Certs,
           Held!DestroyCert(c) \/ Held!CopyCert(c, d) \/ Held!AssignCert(c, d)
    PROVE  KeyInv'
<1>1. cert_[c] \in X509s \cup {0} /\ cert_[d] \in X509s \cup {0}
  BY DEF KeyInv, KeyTypes
<1>2. CASE Held!DestroyCert(c)
  BY <1>2, CertRecounted DEF Held!DestroyCert, Held!Null
<1>3. CASE Held!CopyCert(c, d)
  <2>1. cert_[c] = 0
    BY <1>3 DEF Held!CopyCert, Held!Born, KeyInv, Vacant
  <2> QED BY <1>1, <1>3, <2>1, CertRecounted DEF Held!CopyCert, Held!Born, Held!Null
<1>4. CASE Held!AssignCert(c, d)
  <2>1. keyUp' = keyUp \cup {c}
    BY <1>4 DEF Held!AssignCert
  <2> QED BY <1>1, <1>4, <2>1, CertRecounted DEF Held!AssignCert
<1> QED BY <1>2, <1>3, <1>4

LEMMA PubChanges ==
    ASSUME Held!KeyAssumption, KeyInv, NEW p \in Pubs,
           \/ Held!MakePub(p) \/ Held!MakePubFromData(p) \/ Held!Destroy(p)
           \/ \E c \in Certs : Held!PubFromCert(p, c)
           \/ \E q \in Pubs : Held!CopyPub(p, q) \/ Held!AssignPub(p, q)
    PROVE  KeyInv'
<1>1. p \in Held!Holders /\ p \notin Ecs /\ 0 \in EvpKey
  BY DEF Held!KeyAssumption, Held!Holders, EvpKey
<1>2. ASSUME NEW n \in EvpKey, Swapped(p, n), Held!Unsigned, aes' = aes,
             (keyUp' = keyUp \cup {p}) \/ (keyUp' = keyUp \ {p} /\ n = 0)
      PROVE  KeyInv'
  BY <1>1, <1>2, SwapKeeps DEF Held!Unsigned, Held!certV
<1>3. CASE Held!MakePub(p) \/ Held!MakePubFromData(p)
  <2>1. p \notin keyUp /\ keyUp' = keyUp \cup {p} /\ Held!Unsigned /\ aes' = aes
    BY <1>3 DEF Held!MakePub, Held!MakePubFromData, Held!Born
  <2>2. CASE Held!Gets(p, Held!Null, <<>>, <<>>)
    BY <1>1, <1>2, <2>1, <2>2, KeySwapped DEF Held!Null
  <2>3. CASE (\E k \in EvpKeys : refs[k] = 0) /\ Held!Gets(p, Held!NewKey, <<Held!NewKey>>, <<>>)
    <3>1. PICK n : n = Held!NewKey
      OBVIOUS
    <3>2. n \in EvpKey
      BY <2>3, <3>1, KeyFresh DEF EvpKey
    <3>3. Held!Gets(p, n, <<n>>, <<>>)
      BY <2>3, <3>1
    <3> QED BY <1>1, <1>2, <2>1, <3>2, <3>3, KeySwapped
  <2> QED BY <1>3, <2>2, <2>3 DEF Held!MakePub, Held!MakePubFromData
<1>4. CASE Held!Destroy(p)
  BY <1>1, <1>2, <1>4, KeySwapped DEF Held!Destroy, Held!Null
<1>5. ASSUME NEW c \in Certs, Held!PubFromCert(p, c) PROVE KeyInv'
  <2>1. PICK n : n = IF cert_[c] = 0 THEN 0 ELSE xkey[cert_[c]]
    OBVIOUS
  <2>2. n \in EvpKey
    BY <1>1, <2>1 DEF KeyInv, KeyTypes
  <2>3. p \notin keyUp /\ keyUp' = keyUp \cup {p} /\ Held!Unsigned /\ aes' = aes /\ Held!Gets(p, n, <<n>>, <<>>)
    BY <1>5, <2>1 DEF Held!PubFromCert, Held!Born, Held!Null
  <2> QED BY <1>1, <1>2, <2>2, <2>3, KeySwapped
<1>6. ASSUME NEW q \in Pubs, Held!CopyPub(p, q) \/ Held!AssignPub(p, q) PROVE KeyInv'
  <2>1. PICK n : n = key_[q]
    OBVIOUS
  <2>2. n \in EvpKey
    BY <2>1 DEF KeyInv, KeyTypes, Held!Holders
  <2>3. /\ Held!Unsigned /\ aes' = aes /\ keyUp' = keyUp \cup {p}
        /\ (p \notin keyUp /\ Held!Gets(p, n, <<n>>, <<>>)) \/ Held!Gets(p, n, <<n>>, <<key_[p]>>)
    BY <1>6, <2>1 DEF Held!CopyPub, Held!AssignPub, Held!Born
  <2> QED BY <1>1, <1>2, <2>2, <2>3, KeySwapped
<1> QED BY <1>3, <1>4, <1>5, <1>6

LEMMA EcChanges ==
    ASSUME Held!KeyAssumption, KeyInv, NEW e \in Ecs,
           Held!MakeEc(e) \/ Held!Destroy(e) \/ \E f \in Ecs : Held!CopyEc(e, f) \/ Held!AssignEc(e, f)
    PROVE  KeyInv'
<1>1. e \in Held!Holders /\ 0 \in EvpKey
  BY DEF Held!Holders, EvpKey
<1>2. CASE Held!MakeEc(e)
  <2>1. e \notin keyUp /\ keyUp' = keyUp \cup {e} /\ Held!Unsigned /\ aes' = aes
    BY <1>2 DEF Held!MakeEc, Held!Born
  <2>2. ASSUME NEW n \in EvpKey, Swapped(e, n) PROVE KeyInv'
    BY <1>1, <2>1, <2>2, SwapKeeps DEF Held!Unsigned, Held!certV
  <2>3. CASE Held!Gets(e, Held!Null, <<>>, <<>>)
    BY <1>1, <2>1, <2>2, <2>3, KeySwapped DEF Held!Null
  <2>4. CASE (\E k \in EvpKeys : refs[k] = 0) /\ Held!Gets(e, Held!NewKey, <<Held!NewKey>>, <<>>)
    <3>1. PICK n : n = Held!NewKey
      OBVIOUS
    <3>2. n \in EvpKey
      BY <2>4, <3>1, KeyFresh DEF EvpKey
    <3>3. Held!Gets(e, n, <<n>>, <<>>)
      BY <2>4, <3>1
    <3> QED BY <1>1, <2>1, <2>2, <3>2, <3>3, KeySwapped
  <2> QED BY <1>2, <2>3, <2>4 DEF Held!MakeEc
<1>3. CASE Held!Destroy(e)
  <2>1. Swapped(e, 0)
    BY <1>1, <1>3, KeySwapped DEF Held!Destroy, Held!Null
  <2>2. Held!Unsigned /\ keyUp' = keyUp \ {e} /\ aes' = [aes EXCEPT ![e] = Held!None]
    BY <1>3 DEF Held!Destroy
  <2> QED BY <1>1, <2>1, <2>2, SwapKeeps DEF Held!Unsigned, Held!certV
<1>4. ASSUME NEW f \in Ecs, Held!CopyEc(e, f) \/ Held!AssignEc(e, f) PROVE KeyInv'
  <2>1. PICK n : n = key_[f]
    OBVIOUS
  <2>2. n \in EvpKey
    BY <2>1 DEF KeyInv, KeyTypes, Held!Holders
  <2>3. /\ Held!Unsigned /\ aes' = [aes EXCEPT ![e] = aes[f]] /\ keyUp' = keyUp \cup {e}
        /\ (e \notin keyUp /\ Held!Gets(e, n, <<n>>, <<>>)) \/ Held!Gets(e, n, <<n>>, <<key_[e]>>)
    BY <1>4, <2>1 DEF Held!CopyEc, Held!AssignEc, Held!Born
  <2>4. Swapped(e, n)
    BY <1>1, <2>2, <2>3, KeySwapped
  <2> QED BY <1>1, <2>1, <2>2, <2>3, <2>4, SwapKeeps DEF Held!Unsigned, Held!certV
<1> QED BY <1>2, <1>3, <1>4

\* derive() loses the reference it was given, and counts it.
LEMMA EcDerives ==
    ASSUME Held!KeyAssumption, KeyInv, NEW e \in Ecs, NEW h \in Pubs \cup Ecs, Held!Derive(e, h)
    PROVE  KeyInv'
<1>1. PICK n : n = key_[h]
  OBVIOUS
<1>2. PICK own : own = key_[e]
  OBVIOUS
<1>3. n \in EvpKeys /\ own \in EvpKey
  BY <1>1, <1>2 DEF Held!Derive, Held!Null, KeyInv, KeyTypes, Held!Holders, EvpKey
<1>4. /\ keyUp' = keyUp /\ cert_' = cert_ /\ xrefs' = xrefs /\ xkey' = xkey /\ key_' = key_ /\ e \in keyUp
      /\ refs' = Held!Counted(<<n>>, <<>>) /\ leaked' = [leaked EXCEPT ![n] = @ + 1]
      /\ \/ own # 0 /\ \E left \in Held!Leaves(e, n) : aes' = [aes EXCEPT ![e] = left]
         \/ aes' = aes
  BY <1>1, <1>2 DEF Held!Derive, Held!certV, Held!Null
<1>5. ASSUME NEW k \in EvpKeys
      PROVE  refs'[k] = HaveIt(key_', Held!Holders, k) + HaveIt(xkey', X509s, k) + leaked'[k] /\ leaked'[k] \in Nat
  <2>1. HaveIt(key_, Held!Holders, k) \in Nat /\ HaveIt(xkey, X509s, k) \in Nat /\ leaked[k] \in Nat
    BY KeySets, HaveItNat DEF KeyInv, KeyTypes
  <2>2. refs[k] = HaveIt(key_, Held!Holders, k) + HaveIt(xkey, X509s, k) + leaked[k]
    BY DEF KeyInv, KeysCounted
  <2>3. leaked'[k] = IF k = n THEN leaked[k] + 1 ELSE leaked[k]
    BY <1>3, <1>4 DEF KeyInv, KeyTypes
  <2>4. Held!Counted(<<n>>, <<>>) = [j \in EvpKeys |-> refs[j] + Gain(n, 0, j)]
    BY KeyCounted, Zenon
  <2>5. refs'[k] = refs[k] + Gain(n, 0, k) /\ k # 0
    BY <1>4, <2>4, KeySets
  <2> QED BY <1>4, <2>1, <2>2, <2>3, <2>5 DEF Gain, OneIf
<1>6. KeysCounted'
  <2>1. refs' = [k \in EvpKeys |-> refs'[k]]
    BY <1>4 DEF Held!Counted
  <2> QED BY <1>5, <2>1 DEF KeysCounted
<1>7. /\ aes' \in [Ecs -> Derived]
      /\ \A f \in Ecs : f # e => aes'[f] = aes[f]
      /\ MadeWith(aes'[e], own)
  <2>1. aes \in [Ecs -> Derived] /\ aes[e] \in Derived /\ MadeWith(aes[e], own)
    BY <1>2, AllMadeWith DEF KeyInv, KeyTypes
  <2>2. CASE aes' = aes
    BY <2>1, <2>2
  <2>3. ASSUME NEW left \in Held!Leaves(e, n), aes' = [aes EXCEPT ![e] = left], own # 0
        PROVE  /\ aes' \in [Ecs -> Derived]
               /\ \A f \in Ecs : f # e => aes'[f] = aes[f]
               /\ MadeWith(aes'[e], own)
    <3>1. PICK a \in Derived : a = aes[e]
      BY <2>1
    <3>2. left \in Derived /\ MadeWith(left, own)
      BY <1>2, <1>3, <2>1, <2>3, <3>1 DEF Held!Leaves, Held!None, Held!Null, Derived, MadeWith, EvpKey
    <3> QED BY <2>1, <2>3, <3>2
  <2> QED BY <1>4, <2>2, <2>3
<1>8. KeyTypes'
  BY <1>4, <1>5, <1>7 DEF KeyInv, KeyTypes
<1>9. Vacant'
  <2>1. Held!None' = Held!None
    BY DEF Held!None, Held!Null
  <2> QED BY <1>4, <1>7, <2>1 DEF KeyInv, Vacant
<1>10. CertsCounted'
  BY <1>4 DEF KeyInv, CertsCounted
<1>11. Held!DerivedFromOwn'
  <2>1. \A f \in Ecs : MadeWith(aes[f], key_[f])
    BY AllMadeWith
  <2>2. \A f \in Ecs : MadeWith(aes'[f], key_'[f])
    BY <1>2, <1>4, <1>7, <2>1
  <2> QED BY <2>2 DEF Held!DerivedFromOwn, Held!Null, MadeWith
<1> QED BY <1>6, <1>8, <1>9, <1>10, <1>11 DEF KeyInv

LEMMA UserSets ==
    ASSUME Held!KeyAssumption, NEW s \in Held!Users
    PROVE  s \in Held!Holders /\ s \notin Ecs /\ s \notin Certs
BY DEF Held!KeyAssumption, Held!Holders, Held!Users

LEMMA UserChanges ==
    ASSUME Held!KeyAssumption, KeyInv, NEW s \in Held!Users,
           Held!Close(s) \/ Held!Finish(s) \/ \E h \in Pubs \cup Ecs : Held!Open(s, h)
    PROVE  KeyInv'
<1>1. CASE Held!Close(s)
  <2>1. Swapped(s, 0) /\ 0 \in EvpKey
    BY <1>1, UserSets, KeySwapped DEF Held!Close, Held!Null, EvpKey
  <2>2. keyUp' = keyUp \ {s} /\ cert_' = cert_ /\ xrefs' = xrefs /\ xkey' = xkey /\ aes' = aes /\ leaked' = leaked
    BY <1>1 DEF Held!Close, Held!certV
  <2> QED BY <2>1, <2>2, UserSets, SwapKeeps
<1>2. CASE Held!Finish(s)
  BY <1>2 DEF Held!Finish, Held!certV, KeyInv, KeyTypes, KeysCounted, CertsCounted, Vacant, Held!DerivedFromOwn, Held!None, Held!Null
<1>3. ASSUME NEW h \in Pubs \cup Ecs, Held!Open(s, h) PROVE KeyInv'
  <2>1. PICK n : n = key_[h]
    OBVIOUS
  <2>2. n \in EvpKey
    BY <2>1 DEF KeyInv, KeyTypes, Held!Holders
  <2>3. s \notin keyUp /\ keyUp' = keyUp \cup {s} /\ Held!Gets(s, n, <<n>>, <<>>)
    BY <1>3, <2>1 DEF Held!Open, Held!Born
  <2>4. cert_' = cert_ /\ xrefs' = xrefs /\ xkey' = xkey /\ aes' = aes /\ leaked' = leaked
    BY <1>3 DEF Held!Open, Held!certV
  <2>5. Swapped(s, n)
    BY <2>2, <2>3, UserSets, KeySwapped
  <2> QED BY <2>2, <2>3, <2>4, <2>5, UserSets, SwapKeeps
<1> QED BY <1>1, <1>2, <1>3

\* A move is two changes of one object each.
LEMMA UserMoves ==
    ASSUME Held!KeyAssumption, KeyInv, NEW s \in Held!Users, NEW t \in Held!Users, Held!HandOver(s, t)
    PROVE  KeyInv'
<1>1. /\ s \notin keyUp /\ t \in keyUp /\ keyUp' = keyUp \cup {s} /\ key_' = [key_ EXCEPT ![s] = key_[t], ![t] = 0]
      /\ cert_' = cert_ /\ xrefs' = xrefs /\ xkey' = xkey /\ refs' = refs /\ aes' = aes /\ leaked' = leaked
  BY DEF Held!HandOver, Held!Born, Held!certV, Held!Null
<1>2. key_[s] = 0 /\ s # t /\ key_ \in [Held!Holders -> EvpKey]
  BY <1>1, UserSets DEF KeyInv, KeyTypes, Vacant
<1>3. key_' \in [Held!Holders -> EvpKey] /\ \A g \in Held!Holders : key_'[g] = IF g = s THEN key_[t] ELSE IF g = t THEN 0 ELSE key_[g]
  BY <1>1, <1>2, UserSets DEF EvpKey
<1>4. PICK g : g = key_'
  OBVIOUS
<1>5. PICK f : f = [key_ EXCEPT ![s] = key_[t]]
  OBVIOUS
<1>6. /\ OnlyAt(s, key_, f, Held!Holders) /\ OnlyAt(t, f, g, Held!Holders)
      /\ f[s] = key_[t] /\ f[t] = key_[t] /\ g[t] = 0
  BY <1>2, <1>3, <1>4, <1>5, UserSets DEF OnlyAt
<1>7. IsFiniteSet(Held!Holders)
  BY KeySets
<1>8. ASSUME NEW k \in EvpKeys PROVE HaveIt(g, Held!Holders, k) = HaveIt(key_, Held!Holders, k)
  <2>1. HaveIt(key_, Held!Holders, k) \in Nat /\ HaveIt(f, Held!Holders, k) = HaveIt(key_, Held!Holders, k) + Gain(f[s], key_[s], k)
    BY <1>6, <1>7, HaveItChanged
  <2>2. HaveIt(f, Held!Holders, k) \in Nat /\ HaveIt(g, Held!Holders, k) = HaveIt(f, Held!Holders, k) + Gain(g[t], f[t], k)
    BY <1>6, <1>7, HaveItChanged
  <2> QED BY <1>2, <1>6, <2>1, <2>2 DEF Gain, OneIf
<1>9. KeysCounted'
  BY <1>1, <1>4, <1>8 DEF KeyInv, KeysCounted
<1>10. KeyTypes' /\ CertsCounted'
  BY <1>1, <1>3 DEF KeyInv, KeyTypes, CertsCounted
<1>11. Held!None' = Held!None
  BY DEF Held!None, Held!Null
<1>12. Vacant'
  <2>1. \A h \in Held!Holders \ keyUp' : key_'[h] = 0
    BY <1>1, <1>3 DEF KeyInv, Vacant
  <2> QED BY <1>1, <1>11, <2>1 DEF KeyInv, Vacant
<1>13. Held!DerivedFromOwn'
  <2>1. \A e \in Ecs : key_'[e] = key_[e]
    BY <1>3, UserSets DEF Held!Holders
  <2> QED BY <1>1, <2>1 DEF KeyInv, Held!DerivedFromOwn, Held!Null
<1> QED BY <1>9, <1>10, <1>12, <1>13 DEF KeyInv

LEMMA KeyStep == ASSUME Held!KeyAssumption, KeyInv, [Held!KeyNext]_(Held!keyVars) PROVE KeyInv'
<1>1. CASE UNCHANGED Held!keyVars
  BY <1>1 DEF Held!keyVars, KeyInv, KeyTypes, KeysCounted, CertsCounted, Vacant, Held!DerivedFromOwn, Held!None, Held!Null
<1>2. ASSUME NEW c \in Certs,
             Held!MakeCert(c) \/ Held!DestroyCert(c) \/ \E d \in Certs : Held!CopyCert(c, d) \/ Held!AssignCert(c, d)
      PROVE  KeyInv'
  BY <1>2, CertMade, CertChanges
<1>3. ASSUME NEW e \in Ecs, \/ Held!MakeEc(e) \/ Held!Destroy(e)
                            \/ \E f \in Ecs : Held!CopyEc(e, f) \/ Held!AssignEc(e, f)
                            \/ \E h \in Pubs \cup Ecs : Held!Derive(e, h)
      PROVE  KeyInv'
  BY <1>3, EcChanges, EcDerives
<1>4. ASSUME NEW s \in Signers, Held!Finish(s) \/ Held!DestroySigner(s) \/ \E t \in Signers : Held!MoveSigner(s, t)
      PROVE  KeyInv'
  BY <1>4, UserChanges, UserMoves DEF Held!DestroySigner, Held!MoveSigner, Held!Users
<1>5. ASSUME NEW v \in Verifiers, Held!DestroyVerifier(v) \/ \E w \in Verifiers : Held!MoveVerifier(v, w)
      PROVE  KeyInv'
  BY <1>5, UserChanges, UserMoves DEF Held!DestroyVerifier, Held!MoveVerifier, Held!Users
<1>6. ASSUME NEW h \in Pubs \cup Ecs, NEW u \in Held!Users, Held!MakeSigner(u, h) \/ Held!MakeVerifier(u, h)
      PROVE  KeyInv'
  BY <1>6, UserChanges DEF Held!MakeSigner, Held!MakeVerifier
<1> QED BY <1>1, <1>2, <1>3, <1>4, <1>5, <1>6, PubChanges DEF Held!KeyNext

-----------------------------------------------------------------------------
(* The classes over OpenSSL together. *)

LEMMA StepOfCrypto ==
    ASSUME [CryptoNext]_<<focus, cryptoV>>
    PROVE  /\ [Big!BigNext]_(Big!bigVars) /\ [Held!KeyNext]_(Held!keyVars)
           /\ [Hash!DigestNext]_(Hash!digestVars) /\ [Crypt!CipherNext]_(Crypt!cipherVars)
<1> USE DEF cryptoV, bigV, heldV, hashV, cryptV, Big!bigVars, Held!keyVars, Hash!digestVars, Crypt!cipherVars
<1>1. CASE UNCHANGED <<focus, cryptoV>>
  BY <1>1
<1>2. CASE CryptoNext
  BY <1>2 DEF CryptoNext
<1> QED BY <1>1, <1>2

CryptoInv == BigInv /\ KeyInv /\ DigestInv /\ CipherInv

\* Through every copy, move, assignment, destruction and failed call of bignum_t, digest_t,
\* keyphrase_t, decrypt_t, encrypt_t, x509_t, pubkey_t, eckey_t, sign_t and verify_t: each
\* number and context is owned once and freed once, each key and certificate has as many
\* references as it has owners and derive() has lost, a digest is of all that was fed, what
\* derived() hands out was never made with a pair its object does not have, also where a
\* derivation failed and nobody noticed, and a cipher is keyed for its algorithm, but for
\* the object whose key the library refused.  For any objects, values, pieces, keys and
\* algorithms.
THEOREM CryptoCorrect == CryptoSpec => []CryptoHeld
<1>1. Big!BigAssumption /\ Held!KeyAssumption /\ Crypt!CipherAssumption
  BY CryptoAssumption
<1>2. CryptoInit => CryptoInv
  BY <1>1, BigStarts, KeyStarts, DigestStarts, CipherStarts DEF CryptoInit, CryptoInv
<1>3. CryptoInv /\ [CryptoNext]_<<focus, cryptoV>> => CryptoInv'
  BY <1>1, StepOfCrypto, BigStep, KeyStep, DigestStep, CipherStep DEF CryptoInv
<1>4. CryptoInv => CryptoHeld
  BY <1>1, BigImplied, KeyImplied, DigestImplied, CipherImplied DEF CryptoInv, CryptoHeld
<1> QED BY <1>2, <1>3, <1>4, PTL DEF CryptoSpec
=============================================================================
