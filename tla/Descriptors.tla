---------------------------- MODULE Descriptors ----------------------------
(***************************************************************************)
(* The classes that own system descriptors in one process: Socket          *)
(* (socket.hpp), process::ref_t (process.hpp) and fsys::posix_file with    *)
(* its derived pager_file (filesystem.hpp).  They share the kernel's       *)
(* descriptor table, where a number that is closed is the next one to be   *)
(* handed out: a wrapper that closes a number twice closes somebody else's *)
(* file.  Every open file has an identity of its own, and own[o] remembers *)
(* the identity of the file that object o was given together with its      *)
(* number; the program cannot see it.                                      *)
(***************************************************************************)
EXTENDS Integers, FiniteSets, FiniteSetsExt

CONSTANTS Sockets, Refs, Files,   \* the objects of each class
          App,                    \* the program, which may hold a plain int
          MaxFd, MaxOpens         \* size of the table; files opened in a behaviour

VARIABLES world,                  \* the table and what every object holds
          loop,                   \* sockets inside bind(list) or connect(list)
          looped,                 \* files opened by those loops (history)
          moved                   \* a file object was moved from (history)

fdVars == <<world, loop, looped, moved>>

Objects == Sockets \cup Refs \cup Files \cup {App}
Free == 0
None == -1

\* An object is of one class, and the program is none of them.
FdAssumption ==
    /\ MaxFd \in Nat
    /\ Sockets \cap (Refs \cup Files) = {} /\ App \notin Sockets

FdInit ==
    /\ world = [table |-> [n \in 0..MaxFd-1 |-> Free], opens |-> 0,
                fd |-> [o \in Objects |-> None], own |-> [o \in Objects |-> Free],
                err |-> [s \in Sockets |-> FALSE], wrong |-> {}]
    /\ loop = {} /\ looped = {} /\ moved = FALSE

-----------------------------------------------------------------------------
(* The kernel's side. *)

Numbers(w) == {n \in DOMAIN w.table : w.table[n] = Free}
CanOpen(w) == w.opens < MaxOpens /\ Numbers(w) # {}

\* open(), socket(), accept(), dup(): a new file under the lowest free number.
Open(w, o) ==
    LET n == Min(Numbers(w)) IN
    [w EXCEPT !.opens = @ + 1, !.table[n] = w.opens + 1, !.fd[o] = n, !.own[o] = w.opens + 1]

\* close() of the number o holds, if any; wrong collects the objects that closed
\* a number which no longer was theirs.
Release(w, o) ==
    IF w.fd[o] = None THEN w
    ELSE [w EXCEPT !.table[w.fd[o]] = Free, !.fd[o] = None, !.own[o] = Free,
                   !.wrong = IF w.table[w.fd[o]] = w.own[o] THEN @ ELSE @ \cup {o}]

Take(w, to, from) == [w EXCEPT !.fd[to] = w.fd[from], !.own[to] = w.own[from]]
Forget(w, o) == [w EXCEPT !.fd[o] = None, !.own[o] = Free]

\* A call that gives o a new file, or fails and leaves -1.
TryOpen(w, o) == {Forget(w, o)} \cup (IF CanOpen(w) THEN {Open(w, o)} ELSE {})

SetErr(w, s, e) == [w EXCEPT !.err[s] = e]
\* so_ = set_error(make_socket(::socket(...)))
TrySocket(w, s) == {SetErr(x, s, x.fd[s] = None) : x \in TryOpen(w, s)}

Alone(s) == s \notin loop
Plain == UNCHANGED <<loop, looped, moved>>

-----------------------------------------------------------------------------
(* The program's own int: fsys::open, fsys::close, and giving it away. *)

AppOpen == /\ world.fd[App] = None
           /\ world' \in TryOpen(world, App) /\ Plain

AppClose == world.fd[App] # None /\ world' = Release(world, App) /\ Plain

\* operator=(int), operator=(handle_t), operator=(SOCKET), assign(int): release
\* what the object holds and take the number; the program lets go of it.
Adopt(o) ==
    /\ o # App /\ Alone(o) /\ world.fd[App] # None
    /\ LET w == Forget(Take(Release(world, o), o, App), App)
       IN world' = IF o \in Sockets THEN SetErr(w, o, FALSE) ELSE w
    /\ Plain

\* Destructors and release().
Destroy(o) ==
    /\ o # App /\ Alone(o) /\ world.fd[o] # None
    /\ world' = Release(world, o) /\ Plain

-----------------------------------------------------------------------------
(* posix_file *)

FileOpen(f) == world' \in TryOpen(Release(world, f), f) /\ Plain

\* The move constructor: f is new.
FileMove(f, g) ==
    /\ f # g /\ world.fd[f] = None
    /\ world' = Forget(Take(world, f, g), g) /\ Plain

\* Move assignment releases f and takes the number of g, which keeps it; the
\* moves of pager_file do the same through assign().
FileAssign(f, g) ==
    /\ f # g
    /\ world' = Take(Release(world, f), f, g)
    /\ moved' = TRUE /\ UNCHANGED <<loop, looped>>

-----------------------------------------------------------------------------
(* process::ref_t *)

\* Copy construction and assignment close and dup(); dup(-1) fails.
RefCopy(r, q) ==
    /\ r # q
    /\ LET w == Release(world, r)
       IN world' \in IF w.fd[q] = None THEN {w} ELSE TryOpen(w, r)
    /\ Plain

\* (Mutated form of RefMove.)
RefMoveLeaks(r, q) == world' = Forget(Take(world, r, q), q) /\ Plain

\* Move construction and assignment; r may be q, which closes it.
RefMove(r, q) == world' = Forget(Take(Release(world, r), r, q), q) /\ Plain

-----------------------------------------------------------------------------
(* Socket *)

SocketOpen(s) == Alone(s) /\ world.fd[s] = None /\ world' \in TrySocket(world, s) /\ Plain

\* (Mutated form of SocketMove.)
SocketMoveShared(s, p) ==
    /\ s # p /\ Alone(s) /\ Alone(p)
    /\ world' = SetErr(Take(Release(world, s), s, p), s, world.err[p]) /\ Plain

SocketMove(s, p) ==
    /\ s # p /\ Alone(s) /\ Alone(p)
    /\ world' = Forget(SetErr(Take(Release(world, s), s, p), s, world.err[p]), p)
    /\ Plain

\* bind(address): a new socket that the kernel binds or that is released.
Bind(s) ==
    /\ Alone(s)
    /\ \E w \in TrySocket(Release(world, s), s) :
          world' \in IF w.fd[s] = None THEN {SetErr(w, s, TRUE)}
                     ELSE {SetErr(w, s, FALSE), Release(SetErr(w, s, TRUE), s)}
    /\ Plain

\* listen(): a refusal closes the socket.
Listen(s) ==
    /\ Alone(s) /\ world.fd[s] # None
    /\ world' \in {SetErr(world, s, FALSE), Release(SetErr(world, s, TRUE), s)}
    /\ Plain

\* accept(): the new Socket p and the listener record the same error.
Accept(s, p) ==
    /\ s # p /\ Alone(s) /\ Alone(p) /\ world.fd[s] # None /\ world.fd[p] = None
    /\ \E w \in TrySocket(world, p) : world' = SetErr(w, s, w.err[p])
    /\ Plain

\* accept(func): the function keeps the int, or it is closed again.
AcceptFunc(s) ==
    /\ Alone(s) /\ world.fd[s] # None /\ world.fd[App] = None
    /\ \E w \in TryOpen(world, App), keep \in BOOLEAN :
          world' = IF w.fd[App] # None /\ keep THEN SetErr(w, s, FALSE)
                   ELSE SetErr(Release(w, App), s, TRUE)
    /\ Plain

\* bind(list) and connect(list) with a list that is not empty.
ListBegin(s) ==
    /\ Alone(s)
    /\ world' = Release(world, s) /\ loop' = loop \cup {s}
    /\ UNCHANGED <<looped, moved>>

\* One turn of their loop, which never advances addr: so_ is overwritten by a new
\* socket, whether or not the turn before has left one in it.  connect() records
\* a failure; bind() passes set_error the outcome of a comparison.
ListTurn(s) ==
    /\ s \in loop
    /\ \E w \in TrySocket(world, s) :
          /\ world' \in IF w.fd[s] = None THEN {w}
                        ELSE {w} \cup {Release(SetErr(w, s, e), s) : e \in BOOLEAN}
          /\ looped' = looped \cup ({w.own[s]} \ {Free})
    /\ UNCHANGED <<loop, moved>>

FdNext ==
    \/ AppOpen \/ AppClose
    \/ \E o \in Objects : Adopt(o) \/ Destroy(o)
    \/ \E f \in Files : FileOpen(f) \/ \E g \in Files : FileMove(f, g) \/ FileAssign(f, g)
    \/ \E r, q \in Refs : RefCopy(r, q) \/ RefMove(r, q)
    \/ \E s \in Sockets :
          \/ SocketOpen(s) \/ Bind(s) \/ Listen(s) \/ AcceptFunc(s) \/ ListBegin(s) \/ ListTurn(s)
          \/ \E p \in Sockets : SocketMove(s, p) \/ Accept(s, p)

-----------------------------------------------------------------------------
\* No wrapper closes a number that has meanwhile been handed to another file,
\* unless a posix_file or pager_file has been moved from: only their moves leave
\* the number behind in the source.
ClosesItsOwn == world.wrong # {} => moved

\* Until such a move every open file has exactly one holder, and the only open
\* files without one were opened by a loop over a service list.
OneHolder ==
    ~moved =>
        LET open == {world.table[n] : n \in DOMAIN world.table} \ {Free} IN
        /\ \A o, p \in Objects : (world.own[o] = world.own[p] /\ world.own[o] # Free) => o = p
        /\ \A o \in Objects : world.fd[o] # None => world.table[world.fd[o]] = world.own[o]
        /\ open \ {world.own[o] : o \in Objects} \subseteq looped
=============================================================================
