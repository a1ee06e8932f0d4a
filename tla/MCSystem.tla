------------------------------ MODULE MCSystem ------------------------------
(***************************************************************************)
(* The classes that stand between a program and its operating system, of   *)
(* socket.hpp, stream.hpp, process.hpp, filesystem.hpp, serial.hpp and     *)
(* keyfile.hpp, one group of them per behaviour: focus says which.  They   *)
(* share no state but the descriptor table, which Descriptors composes.    *)
(***************************************************************************)
EXTENDS Integers, FiniteSets

CONSTANTS Sockets, Refs, Files, App, MaxFd, MaxOpens,     \* descriptors
          Maps, Paths, MaxMapped, MaxSegments,            \* map_t
          Threads, Pids, MaxFaults,                       \* processes
          Ports, MaxPath, FirstSlash, Services, Ifaces, MaxLists, MaxLength,
          Handles,                                        \* keyfiles, pagers or serials
          Sections, Keys, OddKeys, MaxData, MaxCalls,
          MaxPage, PageValues, Torn, MaxPagerCalls, MaxSerialCalls,
          BufSize, MaxBytes, MaxInput, Fds                \* socket_stream

VARIABLES focus,
          world, loop, looped, moved,
          addr, path, mapped, denotes, nmaps, nsegs, seg, detached, rival,
          child, code, target, answer, asked, waited, stolen, cut, faults,
          a, source, before, request,
          list, count, length, lists, listsAlive, again, twice,
          ptr_, entries, made, calls, file, writer, section, pending, broken, wanted, whole,
          exists, cells, access_, header_, max_, pagerErr, pagerCalls, lastPut, lastHeader,
          astray, rivals, unsaved,
          tty, device_, original_, current_, timed_, serialErr, temp, serialCalls, first,
          overlap, alone,
          so_, pbuf, gbuf, alive, eofbit, failbit, pc, so, after, table, peer, unread,
          wrote, sent, arrived, got, lost, dropped, strayed

Fd == INSTANCE Descriptors

Map == INSTANCE SharedMap

Child == INSTANCE Children

Addr == INSTANCE Address WITH alive <- listsAlive

Key == INSTANCE KeyFile

Paged == INSTANCE PagerFile WITH err_ <- pagerErr

Tty == INSTANCE Serial WITH err_ <- serialErr

Conn == INSTANCE Stream

ASSUME SystemAssumption == /\ Fd!FdAssumption /\ Map!MapAssumption
                           /\ Child!ChildAssumption /\ Addr!AddressAssumption
                           /\ Key!KeyAssumption /\ Paged!PagerFileAssumption
                           /\ Conn!StreamAssumption

Init ==
    /\ focus \in {"descriptors", "map", "children", "address", "lists", "keyfile", "pager",
                  "serial", "stream"}
    /\ Fd!FdInit /\ Map!MapInit /\ Child!ChildInit /\ Addr!AddrInit /\ Addr!ListInit
    /\ Key!KeyInit /\ Paged!PagerFileInit /\ Tty!SerialInit /\ Conn!StreamInit

fdV == <<world, loop, looped, moved>>
mapV == <<addr, path, mapped, denotes, nmaps, nsegs, seg, detached, rival>>
childV == <<child, code, target, answer, asked, waited, stolen, cut, faults>>
addrV == <<a, source, before, request>>
listV == <<list, count, length, lists, listsAlive, again, twice>>
keyV == <<ptr_, entries, made, calls, file, writer, section, pending, broken, wanted, whole>>
pagedV == <<exists, cells, access_, header_, max_, pagerErr, pagerCalls, lastPut,
            lastHeader, astray, rivals, unsaved>>
ttyV == <<tty, device_, original_, current_, timed_, serialErr, temp, serialCalls, first,
          overlap, alone>>
connV == <<so_, pbuf, gbuf, alive, eofbit, failbit, pc, so, after, table, peer, unread,
           wrote, sent, arrived, got, lost, dropped, strayed>>

Next ==
    \/ focus = "descriptors" /\ Fd!FdNext
       /\ UNCHANGED <<focus, mapV, childV, addrV, listV, keyV, pagedV, ttyV, connV>>
    \/ focus = "map" /\ Map!MapNext
       /\ UNCHANGED <<focus, fdV, childV, addrV, listV, keyV, pagedV, ttyV, connV>>
    \/ focus = "children" /\ Child!ChildNext
       /\ UNCHANGED <<focus, fdV, mapV, addrV, listV, keyV, pagedV, ttyV, connV>>
    \/ focus = "address" /\ Addr!AddrNext
       /\ UNCHANGED <<focus, fdV, mapV, childV, listV, keyV, pagedV, ttyV, connV>>
    \/ focus = "lists" /\ Addr!ListNext
       /\ UNCHANGED <<focus, fdV, mapV, childV, addrV, keyV, pagedV, ttyV, connV>>
    \/ focus = "keyfile" /\ Key!KeyNext
       /\ UNCHANGED <<focus, fdV, mapV, childV, addrV, listV, pagedV, ttyV, connV>>
    \/ focus = "pager" /\ Paged!PagerFileNext
       /\ UNCHANGED <<focus, fdV, mapV, childV, addrV, listV, keyV, ttyV, connV>>
    \/ focus = "serial" /\ Tty!SerialNext
       /\ UNCHANGED <<focus, fdV, mapV, childV, addrV, listV, keyV, pagedV, connV>>
    \/ focus = "stream" /\ Conn!StreamNext
       /\ UNCHANGED <<focus, fdV, mapV, childV, addrV, listV, keyV, pagedV, ttyV>>

allVars == <<focus, fdV, mapV, childV, addrV, listV, keyV, pagedV, ttyV, connV>>

Spec == Init /\ [][Next]_allVars

-----------------------------------------------------------------------------

\* Socket, ref_t and posix_file: no object closes a number that is another file's by
\* now, and every open file has one holder, unless a posix_file was moved by
\* assignment or a loop over a service list dropped a socket.
DescriptorsOwned == Fd!ClosesItsOwn /\ Fd!OneHolder

\* map_t: no object points at memory that is not mapped, none shares a mapping, and
\* the name it will unlink is its own unless two objects created the same one.
MappingsHeld == Map!HeldIsMapped /\ Map!UnlinksItsOwn

\* process::wait and spawn: a thread is told how its own child ended, or 255 where the
\* wait was interrupted or a spawn() whose fork failed had reaped that child.
AnswersForItsChild == Child!AnswersForItsChild

\* address_t: no chain of operations makes an address that its text does not give
\* back but for its scope or a path cut before its slash, copies are whole but for a
\* long Unix path, and lookups keep the family.
\* Socket::service and interfaces: a list is freed once and held once, and size() is
\* its length until a second update().
AddressesKept ==
    /\ Addr!TextRoundTrip /\ Addr!CopiesWhole /\ Addr!FamilyKept
    /\ Addr!ListsOwned /\ Addr!SizeIsLength

\* keyfile: a file that write() completed is read back as it was meant, when no value
\* has a newline; one cut short by a crash or a full disk gives some of the entries and
\* at most one cut-off value under its own key.
\* pager_file: a page holds what was last put there, in part if that write was, and the
\* header is the last one set, unless two handles wrote headers at once, append() missed
\* the end or a destructor could not write it.
FilesKept == Key!ReadsBack /\ Paged!PagesKept

\* serial_t: closing the last handle gives the terminal its first settings back, and
\* current_ is what is in force until another handle interferes.
SettingsKept == Tty!SettingsKept

\* socket_stream: bytes go out and come in in their order, none twice; one written has
\* been sent or waits in the buffer of an open connection, unless a short send, a send
\* to another file, a move, the destructor or a close of the stream lost it.
DeliveredInOrder == Conn!DeliveredInOrder
=============================================================================
