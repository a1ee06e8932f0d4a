----------------------------- MODULE KeyHandles -----------------------------
(***************************************************************************)
(* The classes that share certificates and keys of OpenSSL by reference    *)
(* counts: x509_t of x509.hpp, pubkey_t, sign_t and verify_t of sign.hpp   *)
(* and eckey_t of eckey.hpp.  A pointer that a class converts to is one    *)
(* counted reference more, which its receiver has to give back.            *)
(***************************************************************************)
EXTENDS Integers, FiniteSets, FiniteSetsExt, Functions

CONSTANTS Certs, Pubs, Ecs, Signers, Verifiers,  \* the variables of each class
          Keys,      \* the EVP_PKEYs, numbered from 1
          X509s,     \* the X509s, likewise
          MaxUp,     \* how many objects there are at a time
          MaxLeaks   \* how many references may get lost

VARIABLES up,       \* the objects that are constructed
          cert_,    \* x509_t -> its X509, or Null
          xrefs,    \* X509 -> its references
          xkey,     \* X509 -> the key it certifies
          key_,     \* pubkey_t, eckey_t, sign_t or verify_t -> its EVP_PKEY, or Null
          refs,     \* EVP_PKEY -> its references
          aes,      \* eckey_t -> [own, peer, given]: the keys its aes_key was made from, Null
                    \* where it has no secret in it, and what its aes_size says: "none" for
                    \* 0, else whether the key was "made" or a failure "ignored"
          ctx,      \* sign_t or verify_t -> the EVP_MD_CTX: "none", "open" or "final"
          size_,    \* sign_t -> the length of its signature
          leaked,   \* EVP_PKEY -> the references that nobody will give back
          keyFault  \* whether a null pointer was counted

\* The variables are variables of one class, and there are only so many.
KeyAssumption ==
    /\ IsFiniteSet(Certs) /\ IsFiniteSet(Pubs) /\ IsFiniteSet(Ecs) /\ IsFiniteSet(Signers) /\ IsFiniteSet(Verifiers)
    /\ Pubs \cap Ecs = {} /\ (Signers \cup Verifiers) \cap (Pubs \cup Ecs) = {}
    /\ Certs \cap (Pubs \cup Ecs \cup Signers \cup Verifiers) = {}
    /\ Keys \subseteq Nat \ {0} /\ X509s \subseteq Nat \ {0} /\ IsFiniteSet(X509s)

keyVars == <<up, cert_, xrefs, xkey, key_, refs, aes, ctx, size_, leaked, keyFault>>

Null == 0
None == [own |-> Null, peer |-> Null, given |-> "none"]
Users == Signers \cup Verifiers
Holders == Pubs \cup Ecs \cup Users
NewKey == Min({k \in Keys : refs[k] = 0})

\* refs with one reference more to each key in a, counted, and one less to each in b.
Counted(a, b) ==
    [k \in Keys |-> refs[k] + Cardinality({i \in DOMAIN a : a[i] = k}) - Cardinality({i \in DOMAIN b : b[i] = k})]

Born(o) == o \notin up /\ Cardinality(up) < MaxUp /\ up' = up \cup {o}
certV == <<cert_, xrefs, xkey>>
signV == <<ctx, size_>>

-----------------------------------------------------------------------------
\* x509_t.

\* make_x509 and load_X509: a certificate with a key, or nothing.
MakeCert(c) ==
    /\ Born(c) /\ UNCHANGED <<key_, aes, signV, leaked, keyFault>>
    /\ \/ cert_' = [cert_ EXCEPT ![c] = Null] /\ UNCHANGED <<xrefs, xkey, refs>>
       \/ /\ (\E x \in X509s : xrefs[x] = 0) /\ \E k \in Keys : refs[k] = 0
          /\ LET x == Min({y \in X509s : xrefs[y] = 0})
             IN /\ cert_' = [cert_ EXCEPT ![c] = x] /\ xrefs' = [xrefs EXCEPT ![x] = 1]
                /\ xkey' = [xkey EXCEPT ![x] = NewKey]
          /\ refs' = Counted(<<NewKey>>, <<>>)

\* X509_up_ref of a and X509_free of b, either of them possibly Null: the last free of a
\* certificate gives back its key.
Recount(a, b) ==
    LET counts == [x \in X509s |-> xrefs[x] + (IF x = a THEN 1 ELSE 0) - (IF x = b THEN 1 ELSE 0)]
    IN /\ xrefs' = counts
       /\ refs' = IF b # Null /\ counts[b] = 0 THEN Counted(<<>>, <<xkey[b]>>) ELSE refs
       /\ xkey' = [x \in X509s |-> IF counts[x] = 0 THEN Null ELSE xkey[x]]

CopyCert(c, d) ==
    /\ Born(c) /\ d \in up /\ cert_' = [cert_ EXCEPT ![c] = cert_[d]] /\ Recount(cert_[d], Null)
    /\ UNCHANGED <<key_, aes, signV, leaked, keyFault>>

AssignCert(c, d) ==
    /\ {c, d} \subseteq up /\ cert_[c] # cert_[d]
    /\ cert_' = [cert_ EXCEPT ![c] = cert_[d]] /\ Recount(cert_[d], cert_[c])
    /\ UNCHANGED <<up, key_, aes, signV, leaked, keyFault>>

DestroyCert(c) ==
    /\ c \in up /\ up' = up \ {c} /\ cert_' = [cert_ EXCEPT ![c] = Null] /\ Recount(Null, cert_[c])
    /\ UNCHANGED <<key_, aes, signV, leaked, keyFault>>

-----------------------------------------------------------------------------
\* pubkey_t and eckey_t: what is common to them, with the key that h gets.

Gets(h, k, given, back) == key_' = [key_ EXCEPT ![h] = k] /\ refs' = Counted(given, back)
Unsigned == UNCHANGED <<certV, signV, leaked>>

\* From a text, a number or bytes: a new key, or none.
MakePub(p) ==
    /\ Born(p) /\ Unsigned /\ UNCHANGED <<aes, keyFault>>
    /\ \/ Gets(p, Null, <<>>, <<>>)
       \/ (\E k \in Keys : refs[k] = 0) /\ Gets(p, NewKey, <<NewKey>>, <<>>)

\* From a number or bytes through EVP_EC_gen and fromdata, which fills the key it made.
MakePubFromData(p) ==
    /\ Born(p) /\ Unsigned /\ UNCHANGED <<aes, keyFault>>
    /\ \E k \in Keys : refs[k] = 0
    /\ Gets(p, NewKey, <<NewKey>>, <<>>)

\* From an X509*, which comes shared out of an x509_t and is freed: the key stays.
PubFromCert(p, c) ==
    /\ Born(p) /\ c \in up /\ Unsigned /\ UNCHANGED <<aes, keyFault>>
    /\ LET k == IF cert_[c] = Null THEN Null ELSE xkey[cert_[c]]
       IN Gets(p, k, <<k>>, <<>>)

\* The copy forgets to count.
CopyPubUncounted(p, q) ==
    /\ Born(p) /\ q \in up /\ Unsigned /\ UNCHANGED aes
    /\ Gets(p, key_[q], <<>>, <<>>) /\ keyFault' = (keyFault \/ key_[q] = Null)

\* The reference is counted whether there is a key or not.
CopyPub(p, q) ==
    /\ Born(p) /\ q \in up /\ Unsigned /\ UNCHANGED aes
    /\ Gets(p, key_[q], <<key_[q]>>, <<>>) /\ keyFault' = (keyFault \/ key_[q] = Null)

AssignPub(p, q) ==
    /\ {p, q} \subseteq up /\ key_[p] # key_[q] /\ Unsigned /\ UNCHANGED <<up, aes>>
    /\ Gets(p, key_[q], <<key_[q]>>, <<key_[p]>>) /\ keyFault' = (keyFault \/ key_[q] = Null)

Destroy(h) ==
    /\ h \in up /\ up' = up \ {h} /\ Gets(h, Null, <<>>, <<key_[h]>>)
    /\ aes' = IF h \in Ecs THEN [aes EXCEPT ![h] = None] ELSE aes
    /\ Unsigned /\ UNCHANGED keyFault

\* A new pair, one out of a file, a number or bytes; a key of another kind is freed.
MakeEc(e) ==
    /\ Born(e) /\ Unsigned /\ UNCHANGED <<aes, keyFault>>
    /\ \/ Gets(e, Null, <<>>, <<>>)
       \/ (\E k \in Keys : refs[k] = 0) /\ Gets(e, NewKey, <<NewKey>>, <<>>)

CopyEc(e, f) ==
    /\ Born(e) /\ f \in up /\ Unsigned /\ UNCHANGED keyFault
    /\ Gets(e, key_[f], <<key_[f]>>, <<>>) /\ aes' = [aes EXCEPT ![e] = aes[f]]

\* The derived key is not copied with the pair.
AssignEcPartly(e, f) ==
    /\ {e, f} \subseteq up /\ key_[e] # key_[f] /\ Unsigned /\ UNCHANGED <<up, keyFault, aes>>
    /\ Gets(e, key_[f], <<key_[f]>>, <<key_[e]>>)

\* Of the same pair nothing is copied, the derived key neither.
AssignEc(e, f) ==
    /\ {e, f} \subseteq up /\ key_[e] # key_[f] /\ Unsigned /\ UNCHANGED <<up, keyFault>>
    /\ Gets(e, key_[f], <<key_[f]>>, <<key_[e]>>) /\ aes' = [aes EXCEPT ![e] = aes[f]]

\* The bound on the references that get lost.
LeaksAllowed == FoldFunction(LAMBDA a, b : a + b, 0, leaked) < MaxLeaks

\* What derive() leaves in an eckey_t: the old bytes, the ones made with peer, or ones
\* made of no secret, where deriving that failed.  A size is given although the last
\* step failed, whose result nobody looks at.
Leaves(e, peer) ==
    LET made == [own |-> key_[e], peer |-> peer, given |-> "made"]
    IN {[bytes EXCEPT !.given = "none"] : bytes \in {aes[e], made, None}} \cup {made}
       \cup {[bytes EXCEPT !.given = "ignored"] : bytes \in {aes[e], None}}

\* The peer's key comes shared out of its object; derive() does not give it back.  What
\* can fail before the derivation, as without a key, leaves aes_key and aes_size.
Derive(e, h) ==
    /\ e \in up /\ h \in up \cap (Pubs \cup Ecs) /\ key_[h] # Null
    /\ LeaksAllowed
    /\ refs' = Counted(<<key_[h]>>, <<>>) /\ leaked' = [leaked EXCEPT ![key_[h]] = @ + 1]
    /\ \/ key_[e] # Null /\ \E left \in Leaves(e, key_[h]) : aes' = [aes EXCEPT ![e] = left]
       \/ UNCHANGED aes
    /\ UNCHANGED <<up, certV, key_, signV, keyFault>>

-----------------------------------------------------------------------------
\* sign_t and verify_t.

\* The key comes shared and is kept; without one, or without memory, there is no context.
Open(s, h) ==
    /\ Born(s) /\ h \in up \cap (Pubs \cup Ecs) /\ Gets(s, key_[h], <<key_[h]>>, <<>>)
    /\ \E made \in {"none", "open"} :
          (made = "open" => key_[h] # Null) /\ ctx' = [ctx EXCEPT ![s] = made]
    /\ UNCHANGED <<certV, size_, aes, leaked, keyFault>>

MakeSigner(s, h) == s \in Signers /\ Open(s, h)
MakeVerifier(v, h) == v \in Verifiers /\ Open(v, h)

\* A move takes the context and the key; the length of a signature stays behind.
HandOver(s, t) ==
    /\ Born(s) /\ t \in up
    /\ key_' = [key_ EXCEPT ![s] = key_[t], ![t] = Null]
    /\ ctx' = [ctx EXCEPT ![s] = ctx[t], ![t] = "none"]
    /\ UNCHANGED <<certV, refs, size_, aes, leaked, keyFault>>

MoveSigner(s, t) == {s, t} \subseteq Signers /\ HandOver(s, t)
MoveVerifier(v, w) == {v, w} \subseteq Verifiers /\ HandOver(v, w)

\* sign_t::finish() makes the context final and stores the signature, once, where the
\* library gives one; a refusal leaves the object as it is.
Finish(s) ==
    /\ s \in up /\ ctx[s] # "none" /\ size_[s] = 0
    /\ size_' = [size_ EXCEPT ![s] = 1] /\ ctx' = [ctx EXCEPT ![s] = "final"]
    /\ UNCHANGED <<up, certV, key_, refs, aes, leaked, keyFault>>

Close(s) ==
    /\ s \in up /\ up' = up \ {s} /\ Gets(s, Null, <<>>, <<key_[s]>>)
    /\ ctx' = [ctx EXCEPT ![s] = "none"]
    /\ size_' = IF s \in Signers THEN [size_ EXCEPT ![s] = 0] ELSE size_
    /\ UNCHANGED <<certV, aes, leaked, keyFault>>

DestroySigner(s) == s \in Signers /\ Close(s)
DestroyVerifier(v) == v \in Verifiers /\ Close(v)

-----------------------------------------------------------------------------

KeyInit ==
    /\ up = {} /\ cert_ = [c \in Certs |-> Null] /\ xrefs = [x \in X509s |-> 0]
    /\ xkey = [x \in X509s |-> Null] /\ key_ = [h \in Holders |-> Null]
    /\ refs = [k \in Keys |-> 0] /\ aes = [e \in Ecs |-> None]
    /\ ctx = [s \in Users |-> "none"] /\ size_ = [s \in Signers |-> 0]
    /\ leaked = [k \in Keys |-> 0] /\ keyFault = FALSE

KeyNext ==
    /\ ~keyFault
    /\ \/ \E c \in Certs : MakeCert(c) \/ DestroyCert(c) \/ \E d \in Certs : CopyCert(c, d) \/ AssignCert(c, d)
       \/ \E p \in Pubs : \/ MakePub(p) \/ MakePubFromData(p) \/ Destroy(p)
                          \/ \E c \in Certs : PubFromCert(p, c)
                          \/ \E q \in Pubs : CopyPub(p, q) \/ AssignPub(p, q)
       \/ \E e \in Ecs : \/ MakeEc(e) \/ Destroy(e)
                         \/ \E f \in Ecs : CopyEc(e, f) \/ AssignEc(e, f)
                         \/ \E h \in Pubs \cup Ecs : Derive(e, h)
       \/ \E s \in Signers : Finish(s) \/ DestroySigner(s) \/ \E t \in Signers : MoveSigner(s, t)
       \/ \E v \in Verifiers : DestroyVerifier(v) \/ \E w \in Verifiers : MoveVerifier(v, w)
       \/ \E h \in Pubs \cup Ecs, u \in Users : MakeSigner(u, h) \/ MakeVerifier(u, h)

KeySpec == KeyInit /\ [][KeyNext]_keyVars

-----------------------------------------------------------------------------

\* The references of a key are those of the objects and of the certificates that have
\* it, and the ones derive() has lost: none is freed that is in use, and none kept
\* besides.  A certificate likewise.
RefsBalanced ==
    /\ \A k \in Keys :
          refs[k] = Cardinality({h \in Holders : key_[h] = k})
                    + Cardinality({x \in X509s : xrefs[x] > 0 /\ xkey[x] = k}) + leaked[k]
    /\ \A x \in X509s : xrefs[x] = Cardinality({c \in Certs : cert_[c] = x})
    /\ \A o \in Holders \ up : key_[o] = Null

\* Through copies, assignments and derivations that fail, noticed or not, the bytes of an
\* object were never made with a pair it does not have now; derived() hands out ones
\* without a secret in them only where the library failed unnoticed.
DerivedFromOwn ==
    \A e \in Ecs :
       /\ aes[e].own \in {Null, key_[e]}
       /\ aes[e].given = "made" => aes[e].own # Null
=============================================================================
