------------------------------- MODULE Digest -------------------------------
(***************************************************************************)
(* digest_t of digest.hpp.  The library's context is what it was fed; the  *)
(* digest of a message is the message itself, as equal digests are equal   *)
(* messages to the class.  Allocation and copying of a context may fail.   *)
(***************************************************************************)
EXTENDS Naturals, Sequences, FiniteSets

CONSTANTS Digests,    \* the variables of the class
          Pieces,     \* the data they are fed with
          MaxPieces   \* how much of it one is fed with

VARIABLES made,       \* the objects that are constructed
          ctx_,       \* object -> [fed, final], or None
          digestSize, \* object -> size_: 0, or 1 for a digest that is stored
          data_,      \* object -> the message whose digest is in data_
          since       \* object -> what its user fed it since it was made or restarted

digestVars == <<made, ctx_, digestSize, data_, since>>

None == [fed |-> <<>>, final |-> TRUE, null |-> TRUE]
Context(fed, final) == [fed |-> fed, final |-> final, null |-> FALSE]

Sets(d, c, size, data, fed) ==
    /\ ctx_' = [ctx_ EXCEPT ![d] = c] /\ digestSize' = [digestSize EXCEPT ![d] = size]
    /\ data_' = [data_ EXCEPT ![d] = data] /\ since' = [since EXCEPT ![d] = fed]

\* By algorithm or by name; without memory or without the algorithm there is no context.
Make(d) ==
    /\ d \notin made /\ made' = made \cup {d}
    /\ \E c \in {None, Context(<<>>, FALSE)} : Sets(d, c, 0, <<>>, <<>>)

\* A copy is made of a context; size_ and data_ follow only when it succeeds.
Copied(d, from) == IF ctx_[from] = None THEN {None} ELSE {None, ctx_[from]}

CopyConstruct(d, from) ==
    /\ d \notin made /\ from \in made /\ made' = made \cup {d}
    /\ \E c \in Copied(d, from) :
          IF c = None THEN Sets(d, None, 0, <<>>, <<>>)
          ELSE Sets(d, c, digestSize[from], IF digestSize[from] = 0 THEN <<>> ELSE data_[from], since[from])

MoveConstruct(d, from) ==
    /\ d \notin made /\ from \in made /\ made' = made \cup {d}
    /\ ctx_' = [ctx_ EXCEPT ![d] = ctx_[from], ![from] = None]
    /\ digestSize' = [digestSize EXCEPT ![d] = digestSize[from], ![from] = 0]
    /\ data_' = [data_ EXCEPT ![d] = IF digestSize[from] = 0 THEN <<>> ELSE data_[from]]
    /\ since' = [since EXCEPT ![d] = since[from], ![from] = <<>>]

\* Where the copy fails the old size_ and the old digest stay, without a context; size_
\* being the source's where it succeeds, data_ is copied only with a digest in it.
CopyAssign(d, from) ==
    /\ d \in made /\ from \in made \ {d} /\ UNCHANGED made
    /\ \E c \in Copied(d, from) :
          IF c = None THEN Sets(d, None, digestSize[d], IF digestSize[d] = 0 THEN data_[d] ELSE data_[from], <<>>)
          ELSE Sets(d, c, digestSize[from], IF digestSize[from] = 0 THEN data_[d] ELSE data_[from], since[from])

Destroy(d) ==
    /\ d \in made /\ made' = made \ {d} /\ Sets(d, None, 0, <<>>, <<>>)

\* Feeding goes on after the digest was stored.
MayUpdateAlways(d) == ctx_[d] # None

MayUpdate(d) == ctx_[d] # None /\ digestSize[d] = 0

\* A piece that is refused was not fed.
update(d) ==
    /\ d \in made /\ MayUpdate(d) /\ Len(since[d]) < MaxPieces
    /\ \E piece \in Pieces :
          Sets(d, [ctx_[d] EXCEPT !.fed = Append(@, piece)], digestSize[d], data_[d], Append(since[d], piece))
    /\ UNCHANGED made

finish(d) ==
    /\ d \in made /\ ctx_[d] # None /\ digestSize[d] = 0
    /\ Sets(d, [ctx_[d] EXCEPT !.final = TRUE], 1, ctx_[d].fed, since[d])
    /\ UNCHANGED made

\* The algorithm is kept; size_ is cleared whether there is a context or not.
reinit(d) ==
    /\ d \in made
    /\ Sets(d, IF ctx_[d] = None THEN None ELSE Context(<<>>, FALSE), 0, data_[d], <<>>)
    /\ UNCHANGED made

-----------------------------------------------------------------------------

DigestInit ==
    /\ made = {} /\ ctx_ = [d \in Digests |-> None] /\ digestSize = [d \in Digests |-> 0]
    /\ data_ = [d \in Digests |-> <<>>] /\ since = [d \in Digests |-> <<>>]

DigestNext ==
    \/ \E d \in Digests : Make(d) \/ Destroy(d) \/ update(d) \/ finish(d) \/ reinit(d)
    \/ \E d, from \in Digests : CopyConstruct(d, from) \/ MoveConstruct(d, from) \/ CopyAssign(d, from)

DigestSpec == DigestInit /\ [][DigestNext]_digestVars

-----------------------------------------------------------------------------

\* An object that is valid and has a digest has the digest of everything that was fed to
\* it, or to the one it was copied or moved from, since the start, and of nothing else;
\* one without a digest has a context that can still be fed.
DigestOfAll ==
    \A d \in made : ctx_[d] # None =>
       /\ digestSize[d] # 0 => data_[d] = since[d]
       /\ ctx_[d].final = (digestSize[d] # 0) /\ ctx_[d].fed = since[d]
=============================================================================
