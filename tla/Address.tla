------------------------------ MODULE Address ------------------------------
(***************************************************************************)
(* The addresses of socket.hpp: address_t and the inet_ helpers that make  *)
(* one from a host name, and Socket::service and Socket::interfaces        *)
(* (POSIX), which own a linked list of them.  A string is known by its     *)
(* class, which is what the code tells apart: the characters / : . in it,  *)
(* the spellings of "any" and whether inet_pton accepts it.  Unix paths    *)
(* are prefixes of one long path and known by their length; what is before *)
(* its first slash is a plain name.  A list from getaddrinfo() or          *)
(* getifaddrs() is known by its identity; length[i] is the number of its   *)
(* entries.                                                                *)
(***************************************************************************)
EXTENDS Naturals, FiniteSets, FiniteSetsExt

CONSTANTS Ports, MaxPath,     \* port numbers but 0, and the room in sun_path
          FirstSlash,         \* where the first slash of the path is
          Services, Ifaces,   \* the objects that own lists
          MaxLists, MaxLength

\* An object is a service or an interfaces, never both.
AddressAssumption ==
    /\ Ports \subseteq Nat \ {0} /\ MaxPath \in Nat /\ FirstSlash \in Nat \ {0}
    /\ Services \cap Ifaces = {} /\ MaxLists \in Nat /\ MaxLength \in Nat

VARIABLES a,                  \* an address_t object
          source,             \* the sockaddr last copied into it
          before,             \* what the object held before the last operation
          request,            \* the inet_find or inet_bind call it is the answer of
          list, count,        \* list_ of each object, count_ of each interfaces
          length, lists,      \* entries of each list; lists made so far
          alive,              \* lists allocated and not freed
          again,              \* interfaces updated while they held a list (history)
          twice               \* a list was freed twice (history)

addrVars == <<a, source, before, request>>

Zero == [family |-> "unspec", host |-> "zero", port |-> 0]
Inet(h, p) == [family |-> "inet", host |-> h, port |-> p]
Inet6(h, p) == [family |-> "inet6", host |-> h, port |-> p]
Unix(n) == [family |-> "unix", host |-> n, port |-> 0]
AnyPort == Ports \cup {0}
PathLengths == 0..MaxPath + FirstSlash
\* The addresses a sockaddr may hold; "mapped" is an IPv4 host inside IPv6, and
\* "scoped" and "scopedany" are h6 and any with a scope, sin6_scope_id.
Hosts6 == {"any", "h6", "mapped", "mappedany", "scoped", "scopedany"}
Sockaddrs == {Inet(h, p) : h \in {"any", "h4"}, p \in AnyPort}
             \cup {Inet6(h, p) : h \in Hosts6, p \in AnyPort}
             \cup {Unix(n) : n \in 0..MaxPath}

\* Host strings without a slash, by class.
Strings == {"empty", "star", "any6", "ip4", "ip6", "mapped", "mappedany", "dotted", "colons",
            "name", "any", "any6name", "local", "local6"}
NoRequest == [host |-> "empty", family |-> "unspec"]

-----------------------------------------------------------------------------
\* set(string, port, any)
SetString(s, p, any) ==
    CASE s = "star" /\ any = "inet6" -> Inet6("any", p)
      [] s = "any6" -> Inet6("any", p)
      [] s = "ip6" -> Inet6("h6", p)
      [] s \in {"mapped", "mappedany"} -> Inet6(s, p)
      [] s = "star" /\ any # "inet6" -> Inet("any", p)
      [] s = "ip4" -> Inet("h4", p)
      [] OTHER -> Zero

\* The same for the first n characters of the path: one with a slash in it is kept as
\* far as it fits, without a port; the others are no address.
SetPath(n) == IF n < FirstSlash THEN Zero ELSE Unix(Min({n, MaxPath}))

\* to_string() of an address that is not a path.
ToString(x) ==
    CASE x.family = "inet" -> IF x.host = "any" THEN "star" ELSE "ip4"
      [] x.family = "inet6" -> IF x.host \in {"any", "scopedany"} THEN "any6"
                               ELSE IF x.host \in {"h6", "scoped"} THEN "ip6" ELSE x.host
      [] OTHER -> "empty"

\* (Mutated form of SetSockaddr.)
SetSockaddrOwnSize(x, src) == IF src.family = "inet6" THEN {Inet6(src.host, 0)} ELSE {src}

\* strlen() of the bytes where a path would be: of another address with a port these
\* are its port and its host, and more or less of them come before a zero byte.
PathHeld(x) ==
    CASE x.family = "unix" -> {x.host}
      [] x.family \in {"inet", "inet6"} /\ x.port # 0 -> 0..MaxPath
      [] OTHER -> {0}

\* set(sockaddr *): the length of a path is taken from what is held so far.
SetSockaddr(x, src) ==
    IF src.family = "unix" THEN {Unix(Min({src.host, held})) : held \in PathHeld(x)} ELSE {src}

SetPort(x, p) == IF x.family \in {"inet", "inet6"} THEN [x EXCEPT !.port = p] ELSE x
PortIf(x, p) == IF x.port = 0 THEN SetPort(x, p) ELSE x
\* (Mutated form of AssignAny.)
AssignAnyZeroes(x) == IF x.family = "inet6" THEN [x EXCEPT !.family = "unspec", !.host = "any"] ELSE x

\* assign_any(): the host is zeroed, a scope is not.
AssignAny(x) ==
    IF x.family \in {"inet", "inet6"}
    THEN [x EXCEPT !.host = IF @ \in {"scoped", "scopedany"} THEN "scopedany" ELSE "any"]
    ELSE x

\* assign_in6(): an IPv4 address becomes its mapped form.
AssignIn6(x, src) ==
    CASE src.family = "inet6" -> SetSockaddr(x, src)
      [] src.family = "inet" -> {Inet6(IF src.host = "any" THEN "mappedany" ELSE "mapped", src.port)}
      [] OTHER -> {x}

-----------------------------------------------------------------------------
\* What getaddrinfo() may answer for a name (external): nothing, or an address of
\* the family asked for.
Resolved(family) ==
    {Zero} \cup {x \in {Inet("h4", 0), Inet6("h6", 0), Inet6("scoped", 0)} : family \in {"unspec", x.family}}

\* (Mutated form of InetFind.)
InetFindLocal(s, p, family) ==
    LET host == CASE s = "local" -> "ip4" [] s = "local6" -> "ip6" [] s = "empty" -> "name" [] OTHER -> s
        literal == SetString(host, p, "inet")
    IN IF literal # Zero THEN {literal} ELSE {PortIf(x, p) : x \in Resolved(family)}

\* inet_find(host, service, family): the local names, then a literal, then lookup.
InetFind(s, p, family) ==
    LET host == CASE family # "inet6" /\ s = "local" -> "ip4"
                  [] (family = "inet6" /\ s = "local") \/ (family # "inet" /\ s = "local6") -> "ip6"
                  [] s = "empty" -> "name"
                  [] OTHER -> s
        literal == SetString(host, p, "inet")
    IN IF literal # Zero THEN {literal} ELSE {PortIf(x, p) : x \in Resolved(family)}

\* A host with a slash is a literal whatever the family.
InetFindPath(n) == SetPath(n)

\* inet_bind() of one: looked for first where no other family is asked for; no
\* interface has such a name, and inet_find() takes it else.
InetBindPath(n, family) == IF family \in {"unix", "unspec"} THEN SetPath(n) ELSE InetFindPath(n)

\* inet_bind(host, service, family): the spellings of any, then an interface of
\* that name (external: it may have an address of either family), then inet_find.
InetBind(s, p, family) ==
    CASE s = "empty" -> InetFind(s, p, family)
      [] family # "inet6" /\ s \in {"any", "star"} -> {Inet("any", p)}
      [] \/ family # "inet" /\ s \in {"any6", "any6name"}
         \/ family = "inet6" /\ s \in {"any", "star"} -> {Inet6("any", p)}
      [] s \in {"name", "colons", "any6name", "local", "local6"} ->
            InetFind(s, p, family) \cup {Inet("h4", 0) : f \in {family} \ {"inet6"}}
                                   \cup {Inet6(h, 0) : h \in {"h6", "scoped"}, f \in {family} \ {"inet"}}
      [] OTHER -> InetFind(s, p, family)

-----------------------------------------------------------------------------
AddrInit == a = Zero /\ before = Zero /\ source = Zero /\ request = NoRequest

Become(x, src, req) == a' = x /\ before' = a /\ source' = src /\ request' = req
Change(x) == Become(x, Zero, NoRequest)

DoSet == \/ \E s \in Strings, p \in AnyPort, any \in {"inet", "inet6"} : Change(SetString(s, p, any))
         \/ \E n \in PathLengths : Change(SetPath(n))
DoSetSockaddr == \E src \in Sockaddrs : \E x \in SetSockaddr(a, src) : Become(x, src, NoRequest)
DoAssignIn6 == \E src \in Sockaddrs : \E x \in AssignIn6(a, src) : Change(x)
DoPort == \E p \in AnyPort : Change(SetPort(a, p)) \/ Change(PortIf(a, p))
DoAssignAny == Change(AssignAny(a))
Families == {"unspec", "inet", "inet6", "unix"}
DoInet == \E s \in Strings, p \in AnyPort, family \in Families :
             \E x \in InetFind(s, p, family) \cup InetBind(s, p, family) :
                Become(x, Zero, [host |-> s, family |-> family])
DoInetPath == \E n \in PathLengths, family \in Families :
                /\ n >= FirstSlash
                /\ \E x \in {InetFindPath(n), InetBindPath(n, family)} :
                      Become(x, Zero, [host |-> "path", family |-> family])

AddrNext == DoSet \/ DoSetSockaddr \/ DoAssignIn6 \/ DoPort \/ DoAssignAny \/ DoInet \/ DoInetPath

-----------------------------------------------------------------------------
(* service and interfaces. *)

listVars == <<list, count, length, lists, alive, again, twice>>

Null == 0
Owners == Services \cup Ifaces
Peers(o) == IF o \in Services THEN Services ELSE Ifaces

ListInit ==
    /\ list = [o \in Owners |-> Null] /\ count = [i \in Ifaces |-> 0]
    /\ length = [n \in 0..MaxLists |-> 0] /\ lists = 0 /\ alive = {}
    /\ again = {} /\ twice = FALSE

\* freeaddrinfo() or freeifaddrs() of what o holds.
Freed(o) == alive \ {list[o]}
Twice(o) == twice \/ (list[o] # Null /\ list[o] \notin alive)

\* A new list of some length for o.
NewList(o, n, rest) ==
    /\ lists < MaxLists
    /\ lists' = lists + 1 /\ length' = [length EXCEPT ![lists + 1] = n]
    /\ list' = [list EXCEPT ![o] = lists + 1] /\ alive' = rest \cup {lists + 1}

\* release() and the destructors.
Release(o) ==
    /\ list' = [list EXCEPT ![o] = Null] /\ alive' = Freed(o) /\ twice' = Twice(o)
    /\ count' = [i \in Ifaces |-> IF i = o THEN 0 ELSE count[i]]
    /\ again' = again \ {o}
    /\ UNCHANGED <<length, lists>>

\* service::set(): release, then getaddrinfo(), which may fail.
SetService(s) ==
    /\ \/ \E n \in 1..MaxLength : NewList(s, n, Freed(s))
       \/ list' = [list EXCEPT ![s] = Null] /\ alive' = Freed(s) /\ UNCHANGED <<length, lists>>
    /\ twice' = Twice(s) /\ UNCHANGED <<count, again>>

\* interfaces::update(): getifaddrs() into list_ as it is; its entries are added
\* to count_, also when the call fails and list_ is still the old one.
Update(i) ==
    /\ \/ \E n \in 1..MaxLength : /\ NewList(i, n, alive)
                                  /\ count' = [count EXCEPT ![i] = @ + n]
       \/ /\ count' = [count EXCEPT ![i] = @ + length[list[i]]]
          /\ UNCHANGED <<list, alive, length, lists>>
    /\ count[i] <= MaxLength * MaxLists
    /\ again' = IF list[i] # Null THEN again \cup {i} ELSE again
    /\ UNCHANGED twice

\* (Mutated form of Move.)
MoveCopies(o, p) ==
    /\ o # p /\ p \in Peers(o)
    /\ list' = [list EXCEPT ![o] = list[p]]
    /\ alive' = Freed(o) /\ twice' = Twice(o)
    /\ UNCHANGED <<length, lists, count, again>>

\* Move construction and assignment release o and empty p; o = p is left alone.
Move(o, p) ==
    /\ o # p /\ p \in Peers(o)
    /\ list' = [list EXCEPT ![o] = list[p], ![p] = Null]
    /\ alive' = Freed(o) /\ twice' = Twice(o)
    /\ count' = [i \in Ifaces |-> IF i = o THEN count[p] ELSE IF i = p THEN 0 ELSE count[i]]
    /\ again' = (again \ {o, p}) \cup {x \in {o} : p \in again}
    /\ UNCHANGED <<length, lists>>

\* interfaces::swap().
Swap(i, j) ==
    /\ list' = [list EXCEPT ![i] = list[j], ![j] = list[i]]
    /\ count' = [count EXCEPT ![i] = count[j], ![j] = count[i]]
    /\ again' = (again \ {i, j}) \cup {x \in {i} : j \in again} \cup {x \in {j} : i \in again}
    /\ UNCHANGED <<length, lists, alive, twice>>

\* (Mutated form of Entry.)
EntryUnchecked(i, index) == IF index < count[i] THEN index + 1 ELSE Null

\* interfaces::operator[], name() and mask(): the index is checked against count_,
\* the walk stops at the end of the list.
Entry(i, index) == IF index < count[i] /\ index < length[list[i]] THEN index + 1 ELSE Null

ListNext ==
    \/ \E o \in Owners : Release(o) \/ \E p \in Owners : Move(o, p)
    \/ \E s \in Services : SetService(s)
    \/ \E i \in Ifaces : Update(i) \/ \E j \in Ifaces : i # j /\ Swap(i, j)

-----------------------------------------------------------------------------
\* What set() makes of to_string() and the port of an address.
ReadBack(x) == IF x.family = "unix" THEN SetPath(x.host) ELSE SetString(ToString(x), x.port, "inet")
Unscoped(h) == IF h = "scoped" THEN "h6" ELSE IF h = "scopedany" THEN "any" ELSE h

\* Whatever an address_t has been through, to_string() followed by set() with its
\* port gives the same address back: no operation leaves a family, a host and a
\* port that do not belong together.  Only a scope is lost, and a path that a copy
\* has cut before its slash, or to nothing, comes back as no address.
TextRoundTrip ==
    ReadBack(a) = IF a.family = "unix" /\ a.host < FirstSlash THEN Zero
                  ELSE [a EXCEPT !.host = IF a.family = "inet6" THEN Unscoped(@) ELSE @]

\* Copying a sockaddr copies all of it, except a Unix path longer than what the
\* object held, because size_() measures that: it is cut to the path held before,
\* and nothing of it gets into a new object.
CopiesWhole ==
    \/ source \in {Zero, a}
    \/ /\ source.family = "unix" /\ a.family = "unix" /\ a.host < source.host
       /\ before.family = "unix" => a.host = before.host
       /\ before.family = "unspec" => a.host = 0

\* inet_find() and inet_bind() answer with the IP family asked for unless the host
\* is itself a literal of another family.
FamilyKept ==
    \/ request.family \notin {"inet", "inet6"} \/ a.family \in {request.family, "unspec"}
    \/ request.host = "path" \/ SetString(request.host, 0, "inet") # Zero

\* No list is freed twice, freed while an object still refers to it, or held by
\* two objects, through any chain of lookups, moves and swaps.
ListsOwned ==
    /\ ~twice /\ \A o \in Owners : list[o] # Null => list[o] \in alive
    /\ \A o, p \in Owners : (o # p /\ list[o] # Null) => list[o] # list[p]

\* size() of an interfaces object is the length of its list unless it was updated
\* again without release(), through moves and swaps; and even then every index
\* below size() is answered by an entry of the list or by nothing.
SizeIsLength ==
    \A i \in Ifaces : /\ i \notin again => count[i] = length[list[i]]
                      /\ \A n \in 0..count[i] : Entry(i, n) <= length[list[i]]
=============================================================================
