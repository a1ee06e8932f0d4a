----------------------------- MODULE SharedMap -----------------------------
(***************************************************************************)
(* process::map_t of process.hpp (POSIX): memory mappings and the shared   *)
(* memory names they create.  A mapping is one successful mmap(); segments *)
(* are what a shared memory name denotes.  Sizes are left out: size_       *)
(* always travels with addr_.                                              *)
(***************************************************************************)
EXTENDS Naturals, FiniteSets

CONSTANTS Maps, Paths,
          MaxMapped, MaxSegments   \* mappings and segments made in a behaviour

VARIABLES addr, path,      \* addr_ and path_ of each map_t
          mapped,          \* mappings that exist in the address space
          denotes,         \* denotes[p]: the segment under name p, or Nothing
          nmaps, nsegs,    \* mappings and segments made so far
          seg,             \* seg[m]: the segment m created under path[m] (history)
          detached,        \* mappings handed over by detach() (history)
          rival            \* one path was created by two map_t at once (history)

mapVars == <<addr, path, mapped, denotes, nmaps, nsegs, seg, detached, rival>>

Nothing == 0               \* MAP_FAILED, or no segment
NoPath == "none"           \* the empty path_

\* A name to create is never the empty one, for which shm_open() fails.
MapAssumption == NoPath \notin Paths

MapInit ==
    /\ addr = [m \in Maps |-> Nothing] /\ path = [m \in Maps |-> NoPath]
    /\ mapped = {} /\ denotes = [p \in Paths |-> Nothing]
    /\ nmaps = 0 /\ nsegs = 0 /\ seg = [m \in Maps |-> Nothing]
    /\ detached = {} /\ rival = FALSE

\* munmap() and shm_unlink(), the two halves of release().
Unmapped(m) == mapped \ {addr[m]}
Unlinked(m) == [p \in Paths |-> IF p = path[m] THEN Nothing ELSE denotes[p]]

\* mmap() after m's old mapping is gone: a new mapping, or MAP_FAILED.
MapOr(m, ok) ==
    /\ ok => nmaps < MaxMapped
    /\ nmaps' = IF ok THEN nmaps + 1 ELSE nmaps
    /\ addr' = [addr EXCEPT ![m] = IF ok THEN nmaps + 1 ELSE Nothing]
    /\ mapped' = Unmapped(m) \cup (IF ok THEN {nmaps + 1} ELSE {})

\* release() and the destructor.
Release(m) ==
    /\ addr' = [addr EXCEPT ![m] = Nothing] /\ path' = [path EXCEPT ![m] = NoPath]
    /\ mapped' = Unmapped(m) /\ denotes' = Unlinked(m)
    /\ seg' = [seg EXCEPT ![m] = Nothing]
    /\ UNCHANGED <<nmaps, nsegs, detached, rival>>

\* create(): release, unlink the name whoever made it, then open, truncate and map.
\* A failure to open leaves no path_, later ones leave it set.
Create(m, p) ==
    /\ nsegs < MaxSegments
    /\ \E opened, mappable \in BOOLEAN :
          /\ MapOr(m, opened /\ mappable)
          /\ nsegs' = IF opened THEN nsegs + 1 ELSE nsegs
          /\ denotes' = [Unlinked(m) EXCEPT ![p] = IF opened THEN nsegs + 1 ELSE Nothing]
          /\ path' = [path EXCEPT ![m] = IF opened THEN p ELSE NoPath]
          /\ seg' = [seg EXCEPT ![m] = IF opened THEN nsegs + 1 ELSE Nothing]
    /\ rival' = (rival \/ \E o \in Maps \ {m} : path[o] = p)
    /\ UNCHANGED detached

\* (Mutated form of Access.)
AccessUnlinks(m, p) ==
    /\ nsegs < MaxSegments
    /\ nsegs' = nsegs + 1 /\ denotes' = [Unlinked(m) EXCEPT ![p] = nsegs + 1]
    /\ MapOr(m, FALSE)
    /\ path' = [path EXCEPT ![m] = NoPath] /\ seg' = [seg EXCEPT ![m] = Nothing]
    /\ UNCHANGED <<detached, rival>>

\* access(): release, then open with O_CREAT; a name that did not exist comes into
\* being with size 0, which cannot be mapped, and stays behind.
Access(m, p) ==
    LET there == Unlinked(m)[p] # Nothing IN
    /\ there \/ nsegs < MaxSegments
    /\ \E opened, mappable \in BOOLEAN :
          /\ mappable => opened /\ there
          /\ MapOr(m, mappable)
          /\ nsegs' = IF opened /\ ~there THEN nsegs + 1 ELSE nsegs
          /\ denotes' = IF opened /\ ~there THEN [Unlinked(m) EXCEPT ![p] = nsegs + 1] ELSE Unlinked(m)
    /\ path' = [path EXCEPT ![m] = NoPath] /\ seg' = [seg EXCEPT ![m] = Nothing]
    /\ UNCHANGED <<detached, rival>>

\* set() and the constructor from a descriptor map a file and keep path_.
Set(m) ==
    /\ \E ok \in BOOLEAN : MapOr(m, ok)
    /\ UNCHANGED <<path, denotes, nsegs, seg, detached, rival>>

\* (Mutated form of Detach.)
DetachKept(m) ==
    /\ addr[m] # Nothing /\ detached' = detached \cup {addr[m]}
    /\ UNCHANGED <<addr, path, mapped, denotes, nmaps, nsegs, seg, rival>>

Detach(m) ==
    /\ addr[m] # Nothing
    /\ detached' = detached \cup {addr[m]} /\ addr' = [addr EXCEPT ![m] = Nothing]
    /\ UNCHANGED <<path, mapped, denotes, nmaps, nsegs, seg, rival>>

MovedTo(f, m, o, none) == [x \in Maps |-> IF x = o THEN none ELSE IF x = m THEN f[o] ELSE f[x]]

\* The move constructor: m is new.
MoveConstruct(m, o) ==
    /\ m # o /\ addr[m] = Nothing /\ path[m] = NoPath
    /\ addr' = MovedTo(addr, m, o, Nothing) /\ path' = MovedTo(path, m, o, NoPath)
    /\ seg' = MovedTo(seg, m, o, Nothing)
    /\ UNCHANGED <<mapped, denotes, nmaps, nsegs, detached, rival>>

\* Move assignment overwrites what m holds without releasing it.
MoveAssign(m, o) ==
    /\ addr' = MovedTo(addr, m, o, Nothing) /\ path' = MovedTo(path, m, o, NoPath)
    /\ seg' = MovedTo(seg, m, o, Nothing)
    /\ UNCHANGED <<mapped, denotes, nmaps, nsegs, detached, rival>>

MapNext == \E m \in Maps :
    \/ Release(m) \/ Set(m) \/ Detach(m)
    \/ \E p \in Paths : Create(m, p) \/ Access(m, p)
    \/ \E o \in Maps : MoveConstruct(m, o) \/ MoveAssign(m, o)

MapSpec == MapInit /\ [][MapNext]_mapVars

-----------------------------------------------------------------------------
\* Whatever is created, moved, detached and released, a map_t never points at
\* memory that is no longer mapped, and no two of them (nor the caller of
\* detach()) share a mapping that both would unmap.
HeldIsMapped ==
    /\ \A m \in Maps : addr[m] # Nothing => addr[m] \in mapped \ detached
    /\ \A m, o \in Maps : (m # o /\ addr[m] # Nothing) => addr[m] # addr[o]

\* While no two map_t have created the same path at once, the name a map_t will
\* unlink in release() still denotes the segment it created, through moves,
\* detach() and the access() calls of others.
UnlinksItsOwn == ~rival => \A m \in Maps : path[m] # NoPath => denotes[path[m]] = seg[m]
=============================================================================
