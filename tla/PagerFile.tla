------------------------------ MODULE PagerFile ------------------------------
(***************************************************************************)
(* pager_file of filesystem.hpp: a file of pages behind a header of        *)
(* Offset bytes, of which each handle keeps a copy that sync() and the     *)
(* destructor write back.  A page and the header are one cell each.        *)
(* max_ = 0 means no limit, which is also what resize(0) leaves.  On Linux *)
(* pwrite() to a file opened with O_APPEND ignores the position it is      *)
(* given.  Any call to the system may fail, and a write may stop part way. *)
(***************************************************************************)
EXTENDS Naturals, Sequences

CONSTANTS Handles, MaxPage, PageValues, MaxPagerCalls,
          Torn                \* what a write that stopped part way leaves

VARIABLES exists, cells,      \* the file: its header, if long enough, and pages
          access_,            \* access_[h]: "none", "rd", "rw" or "wr" (append)
          header_, max_, err_,
          pagerCalls,
          lastPut,            \* history: lastPut[p]: what page p should hold
          lastHeader,         \* history: the header some handle meant to leave
          astray, rivals,     \* history: a put through append() missed the end;
                              \* two handles to write the header at once;
          unsaved             \* the last one was not written back

PagerFileAssumption == MaxPage \in Nat

pagerFileVars == <<exists, cells, access_, header_, max_, err_, pagerCalls, lastPut,
                   lastHeader, astray, rivals, unsaved>>

Offset == 1
Pages == 0..MaxPage

PagerFileInit ==
    /\ exists = FALSE /\ cells = <<>>
    /\ access_ = [h \in Handles |-> "none"]
    /\ header_ = [h \in Handles |-> {}] /\ max_ = [h \in Handles |-> 0]
    /\ err_ = [h \in Handles |-> "ok"] /\ pagerCalls = 0
    /\ lastPut = [p \in Pages |-> 0] /\ lastHeader = 0
    /\ astray = FALSE /\ rivals = FALSE /\ unsaved = FALSE

PagerCall == pagerCalls < MaxPagerCalls /\ pagerCalls' = pagerCalls + 1

\* The file with v written at position n (counted from 0), zeroes before it.
WriteAt(n, v) ==
    [i \in 1..(IF n + 1 > Len(cells) THEN n + 1 ELSE Len(cells)) |->
        IF i = n + 1 THEN v ELSE IF i <= Len(cells) THEN cells[i] ELSE 0]

Truncate(n) == [i \in 1..n |-> IF i <= Len(cells) THEN cells[i] ELSE 0]

\* Where write_at(pos) puts its data.
Position(h, pos) == IF access_[h] = "wr" THEN Len(cells) ELSE pos

Bounded(h, p) == max_[h] = 0 \/ p < max_[h]

-----------------------------------------------------------------------------
(* Mutated forms of definitions below. *)

PageAtStart(p) == p

-----------------------------------------------------------------------------

PageAt(p) == Offset + p

\* shared(), exclusive(), append() and create(), and the constructor they call: when
\* there is no file, or one too many, or it cannot be opened, the handle is left with
\* EBADF; all but append() load the header.
Open(h, how) ==
    /\ PagerCall /\ access_[h] = "none"
    /\ \E opens \in BOOLEAN : LET acc == CASE how = "shared" -> "rd" [] how = "append" -> "wr" [] OTHER -> "rw"
       IN /\ opens => (how = "shared" => exists) /\ (how = "exclusive" => ~exists)
          /\ access_' = [access_ EXCEPT ![h] = IF opens THEN acc ELSE "none"]
          /\ err_' = [err_ EXCEPT ![h] = IF opens THEN "ok" ELSE "EBADF"]
          /\ header_' = [header_ EXCEPT ![h] =
                IF ~opens \/ acc = "wr" THEN {}
                ELSE IF Len(cells) < Offset THEN {0} ELSE {cells[1]}]
          /\ exists' = (exists \/ opens)
          /\ rivals' = (rivals \/ (opens /\ acc = "rw"
                                    /\ \E g \in Handles : access_[g] = "rw"))
    /\ max_' = [max_ EXCEPT ![h] = 0]
    /\ UNCHANGED <<cells, lastPut, lastHeader, astray, unsaved>>

\* get(): only err_ changes; a read behind the end, or of what a cut write left there,
\* stores the errno of some earlier call.
GetPage(h, p) ==
    /\ PagerCall /\ access_[h] \in {"rd", "rw"} /\ Bounded(h, p)
    /\ \/ PageAt(p) < Len(cells) /\ UNCHANGED err_
       \/ PageAt(p) >= Len(cells) /\ err_' = [err_ EXCEPT ![h] = "stale"]
       \/ PageAt(p) + 1 = Len(cells) /\ cells[Len(cells)] = Torn /\ err_' = [err_ EXCEPT ![h] = "stale"]
       \/ err_' = [err_ EXCEPT ![h] = "errno"]
    /\ UNCHANGED <<exists, cells, access_, header_, max_, lastPut, lastHeader, astray, rivals, unsaved>>

\* get(), put() or resize() on a handle that never opened: no call is made, and errno
\* is stored over EBADF all the same.
UseFailed(h) ==
    /\ PagerCall /\ err_[h] = "EBADF"
    /\ err_' = [err_ EXCEPT ![h] = "stale"]
    /\ UNCHANGED <<exists, cells, access_, header_, max_, lastPut, lastHeader, astray, rivals, unsaved>>

\* put(): after a cut write the end that append() writes to may lie inside a page.
PutPage(h, p, v) ==
    /\ PagerCall /\ access_[h] \in {"rw", "wr"} /\ Bounded(h, p)
    /\ \E ragged \in BOOLEAN :
           /\ ragged => access_[h] = "wr" /\ cells # <<>> /\ cells[Len(cells)] = Torn
           /\ cells' = WriteAt(Position(h, PageAt(p)), IF ragged THEN Torn ELSE v)
           /\ astray' = (astray \/ ragged \/ Position(h, PageAt(p)) # PageAt(p))
    /\ lastPut' = [lastPut EXCEPT ![p] = v]
    /\ UNCHANGED <<exists, access_, header_, max_, err_, lastHeader, rivals, unsaved>>

\* A write that stops part way sets no errno of its own.
PutFails(h, p) ==
    /\ PagerCall /\ access_[h] \in {"rw", "wr"} /\ Bounded(h, p)
    /\ \/ /\ err_' = [err_ EXCEPT ![h] = "errno"]
          /\ UNCHANGED <<cells, lastPut, astray>>
       \/ /\ err_' = [err_ EXCEPT ![h] = "stale"]
          /\ cells' = WriteAt(Position(h, PageAt(p)), Torn)
          /\ lastPut' = [lastPut EXCEPT ![p] = Torn]
          /\ astray' = (astray \/ Position(h, PageAt(p)) # PageAt(p))
    /\ UNCHANGED <<exists, access_, header_, max_, lastHeader, rivals, unsaved>>

\* err(): the code is handed out once, EBADF for ever.
TakeErr(h) ==
    /\ PagerCall
    /\ err_' = [err_ EXCEPT ![h] = IF @ = "EBADF" THEN @ ELSE "ok"]
    /\ UNCHANGED <<exists, cells, access_, header_, max_, lastPut, lastHeader, astray, rivals, unsaved>>

\* Through the reference that header() gives.
SetHeader(h, v) ==
    /\ PagerCall /\ header_[h] # {}
    /\ header_' = [header_ EXCEPT ![h] = {v}]
    /\ IF access_[h] = "rw" THEN lastHeader' = v /\ unsaved' = FALSE ELSE UNCHANGED <<lastHeader, unsaved>>
    /\ UNCHANGED <<exists, cells, access_, max_, err_, lastPut, astray, rivals>>

\* What sync() leaves in the file.
Synced(h) ==
    IF access_[h] # "rw" THEN cells
    ELSE WriteAt(Position(h, 0), CHOOSE v \in header_[h] : TRUE)

\* What it may leave when the header cannot be written.
SyncCut(h) == IF access_[h] # "rw" THEN {} ELSE {cells, WriteAt(0, Torn)}

Sync(h) ==
    /\ PagerCall /\ access_[h] # "none"
    /\ cells' = Synced(h)
    /\ UNCHANGED <<exists, access_, header_, max_, err_, lastPut, lastHeader, astray, rivals, unsaved>>

SyncFails(h) ==
    /\ PagerCall /\ cells' \in SyncCut(h)
    /\ err_' = [err_ EXCEPT ![h] = IF cells' = cells THEN "errno" ELSE "stale"]
    /\ UNCHANGED <<exists, access_, header_, max_, lastPut, lastHeader, astray, rivals, unsaved>>

\* The destructor: sync(), then the base class closes; nobody sees the header that
\* could not be written.
Destroy(h) ==
    /\ PagerCall /\ access_[h] # "none"
    /\ \/ cells' = Synced(h) /\ UNCHANGED unsaved
       \/ cells' \in SyncCut(h) /\ unsaved' = TRUE
    /\ access_' = [access_ EXCEPT ![h] = "none"]
    /\ header_' = [header_ EXCEPT ![h] = {}]
    /\ max_' = [max_ EXCEPT ![h] = 0] /\ err_' = [err_ EXCEPT ![h] = "ok"]
    /\ UNCHANGED <<exists, lastPut, lastHeader, astray, rivals>>

\* resize(n); rewrite() is resize(0).
Resize(h, n) ==
    /\ PagerCall /\ access_[h] \in {"rw", "wr"}
    /\ cells' = Truncate(PageAt(n))
    /\ max_' = [max_ EXCEPT ![h] = n]
    /\ lastPut' = [p \in Pages |-> IF p < n THEN lastPut[p] ELSE 0]
    /\ UNCHANGED <<exists, access_, header_, err_, lastHeader, astray, rivals, unsaved>>

ResizeFails(h) ==
    /\ PagerCall /\ access_[h] \in {"rw", "wr"}
    /\ err_' = [err_ EXCEPT ![h] = "errno"]
    /\ UNCHANGED <<exists, cells, access_, header_, max_, lastPut, lastHeader, astray, rivals, unsaved>>

Rewind(h) ==
    /\ PagerCall /\ access_[h] # "none" /\ max_[h] # 0
    /\ max_' = [max_ EXCEPT ![h] = 0]
    /\ UNCHANGED <<exists, cells, access_, header_, err_, lastPut, lastHeader, astray, rivals, unsaved>>

PagerFileNext ==
    \E h \in Handles :
        \/ \E how \in {"shared", "exclusive", "append", "create"} : Open(h, how)
        \/ \E p \in Pages : GetPage(h, p) \/ PutFails(h, p) \/ \E v \in PageValues : PutPage(h, p, v)
        \/ UseFailed(h) \/ TakeErr(h) \/ Sync(h) \/ SyncFails(h) \/ Destroy(h) \/ ResizeFails(h) \/ Rewind(h)
        \/ \E v \in PageValues : SetHeader(h, v)
        \/ \E n \in Pages : Resize(h, n)

PagerFileSpec == PagerFileInit /\ [][PagerFileNext]_pagerFileVars

-----------------------------------------------------------------------------

(* Whatever handles put, truncate and write their headers back in turn, every*)
(* page in the file holds what was last put there since it was cut off, a    *)
(* torn page the put that stopped part way, and once the writers are gone the*)
(* header is the last one set, provided no two handles wrote headers at once,*)
(* append() was used at the end only and no destructor failed to write it.   *)
PagesKept ==
    /\ ~astray => \A p \in Pages : PageAt(p) < Len(cells) => cells[PageAt(p) + 1] = lastPut[p]
    /\ ~rivals /\ ~astray /\ ~unsaved /\ (\A h \in Handles : access_[h] # "rw") /\ Len(cells) >= Offset
           => cells[1] = lastHeader
=============================================================================
