---------------------------- MODULE SystemProofs ----------------------------
(***************************************************************************)
(* Proofs about the classes that MCSystem runs side by side.               *)
(***************************************************************************)
EXTENDS MCSystem, Sequences, WellFoundedInduction, TLAPS

(* map_t.  Its two halves, the mapping and the name, do not meet. *)

\* Mappings are numbered as they are made, so that a new one is nobody's.
MappingInv ==
    /\ addr \in [Maps -> Nat] /\ nmaps \in Nat
    /\ mapped \subseteq 1..nmaps /\ detached \subseteq 1..nmaps
    /\ Map!HeldIsMapped

LEMMA MapOrKeeps ==
    ASSUME MappingInv, NEW m \in Maps, NEW ok \in BOOLEAN, Map!MapOr(m, ok), UNCHANGED detached
    PROVE  MappingInv'
<1> DEFINE n == IF ok THEN nmaps + 1 ELSE 0
<1>1. n \in Nat /\ nmaps' \in Nat /\ nmaps <= nmaps' /\ (n # 0 => n = nmaps + 1 /\ nmaps' = nmaps + 1)
  BY DEF MappingInv, Map!MapOr
<1>2. addr' = [addr EXCEPT ![m] = n] /\ mapped' = (mapped \ {addr[m]}) \cup (IF ok THEN {n} ELSE {})
  BY DEF Map!MapOr, Map!Unmapped, Map!Nothing
<1>3. ok <=> n # 0
  BY <1>1 DEF MappingInv
<1> HIDE DEF n
<1>4. addr' \in [Maps -> Nat] /\ mapped' \subseteq 1..nmaps' /\ detached' \subseteq 1..nmaps'
  <2>1. addr' \in [Maps -> Nat]
    BY <1>1, <1>2 DEF MappingInv
  <2>2. 1..nmaps \subseteq 1..nmaps'
    BY <1>1 DEF MappingInv
  <2>3. CASE ok
    <3>1. n \in 1..nmaps'
      BY <1>1, <1>3, <2>3 DEF MappingInv
    <3>2. mapped' = (mapped \ {addr[m]}) \cup {n}
      BY <1>2, <2>3
    <3> QED BY <2>1, <2>2, <3>1, <3>2 DEF MappingInv
  <2>4. CASE ~ok
    BY <1>2, <2>1, <2>2, <2>4 DEF MappingInv
  <2> QED BY <2>3, <2>4
<1>5. n \notin mapped /\ n \notin detached
  BY <1>1 DEF MappingInv
<1>6. \A o \in Maps : addr'[o] = IF o = m THEN n ELSE addr[o]
  BY <1>2 DEF MappingInv
<1>7. ASSUME NEW o \in Maps, addr'[o] # 0 PROVE addr'[o] \in mapped' \ detached'
  <2>1. CASE o = m
    BY <1>2, <1>3, <1>5, <1>6, <1>7, <2>1
  <2>2. CASE o # m
    BY <1>2, <1>6, <1>7, <2>2 DEF MappingInv, Map!HeldIsMapped, Map!Nothing
  <2> QED BY <2>1, <2>2
<1>8. ASSUME NEW o \in Maps, NEW q \in Maps, o # q, addr'[o] # 0 PROVE addr'[o] # addr'[q]
  BY <1>5, <1>6, <1>8 DEF MappingInv, Map!HeldIsMapped, Map!Nothing
<1> QED BY <1>1, <1>4, <1>7, <1>8 DEF MappingInv, Map!HeldIsMapped, Map!Nothing

LEMMA MappingStep ==
    ASSUME MappingInv, [Map!MapNext]_Map!mapVars
    PROVE  MappingInv'
<1>1. ASSUME NEW m \in Maps, NEW p \in Paths, Map!Create(m, p) \/ Map!Access(m, p) PROVE MappingInv'
  <2>1. \E ok \in BOOLEAN : Map!MapOr(m, ok)
    BY <1>1, Zenon DEF Map!Create, Map!Access
  <2> QED BY <1>1, <2>1, MapOrKeeps DEF Map!Create, Map!Access
<1>2. ASSUME NEW m \in Maps, Map!Set(m) PROVE MappingInv'
  BY <1>2, MapOrKeeps DEF Map!Set
<1>3. ASSUME NEW m \in Maps, Map!Release(m) \/ Map!Detach(m) PROVE MappingInv'
  <2>1. addr' = [addr EXCEPT ![m] = 0] /\ nmaps' = nmaps
    BY <1>3 DEF Map!Release, Map!Detach, Map!Nothing
  <2>2. \A o \in Maps : addr'[o] = IF o = m THEN 0 ELSE addr[o]
    BY <2>1 DEF MappingInv
  <2>3. \/ mapped' = mapped \ {addr[m]} /\ detached' = detached
        \/ addr[m] # 0 /\ detached' = detached \cup {addr[m]} /\ mapped' = mapped
    BY <1>3 DEF Map!Release, Map!Detach, Map!Unmapped, Map!Nothing
  <2>4. addr' \in [Maps -> Nat]
    BY <2>1 DEF MappingInv
  <2>5. mapped' \subseteq 1..nmaps /\ detached' \subseteq 1..nmaps
    BY <2>3 DEF MappingInv, Map!HeldIsMapped, Map!Nothing
  <2>6. Map!HeldIsMapped'
    BY <2>2, <2>3 DEF MappingInv, Map!HeldIsMapped, Map!Nothing
  <2> QED BY <2>1, <2>4, <2>5, <2>6 DEF MappingInv
<1>4. ASSUME NEW m \in Maps, NEW o \in Maps, Map!MoveConstruct(m, o) \/ Map!MoveAssign(m, o)
      PROVE MappingInv'
  <2>1. addr' = [x \in Maps |-> IF x = o THEN 0 ELSE IF x = m THEN addr[o] ELSE addr[x]]
        /\ UNCHANGED <<mapped, nmaps, detached>>
    BY <1>4 DEF Map!MoveConstruct, Map!MoveAssign, Map!MovedTo, Map!Nothing
  <2>2. addr' \in [Maps -> Nat]
    BY <2>1 DEF MappingInv
  <2>3. Map!HeldIsMapped'
    BY <2>1 DEF MappingInv, Map!HeldIsMapped, Map!Nothing
  <2> QED BY <2>1, <2>2, <2>3 DEF MappingInv
<1>5. CASE UNCHANGED Map!mapVars
  BY <1>5 DEF Map!mapVars, MappingInv, Map!HeldIsMapped
<1> QED BY <1>1, <1>2, <1>3, <1>4, <1>5 DEF Map!MapNext

\* UnlinksItsOwn speaks of one object.  It stays true because, as long as nobody has
\* created a name twice, no two objects have the same name, and access() leaves a name
\* alone that denotes something.
NameInv ==
    /\ path \in [Maps -> Paths \cup {Map!NoPath}] /\ denotes \in [Paths -> Nat]
    /\ seg \in [Maps -> Nat] /\ nsegs \in Nat /\ rival \in BOOLEAN
    /\ ~rival => /\ \A m \in Maps : path[m] # Map!NoPath => seg[m] # 0 /\ denotes[path[m]] = seg[m]
                 /\ \A m, o \in Maps : (m # o /\ path[m] # Map!NoPath) => path[m] # path[o]

LEMMA NameStep ==
    ASSUME Map!MapAssumption, NameInv, [Map!MapNext]_Map!mapVars
    PROVE  NameInv'
<1> USE DEF NameInv, Map!MapAssumption, Map!Nothing
<1>1. ASSUME NEW m \in Maps, NEW p \in Paths, Map!Create(m, p) PROVE NameInv'
  <2>1. PICK opened \in BOOLEAN :
           /\ nsegs' = IF opened THEN nsegs + 1 ELSE nsegs
           /\ denotes' = [Map!Unlinked(m) EXCEPT ![p] = IF opened THEN nsegs + 1 ELSE 0]
           /\ path' = [path EXCEPT ![m] = IF opened THEN p ELSE Map!NoPath]
           /\ seg' = [seg EXCEPT ![m] = IF opened THEN nsegs + 1 ELSE 0]
    BY <1>1, Zenon DEF Map!Create
  <2>2. rival' = (rival \/ \E o \in Maps \ {m} : path[o] = p)
    BY <1>1 DEF Map!Create
  <2>3. Map!Unlinked(m) = [x \in Paths |-> IF x = path[m] THEN 0 ELSE denotes[x]]
    BY DEF Map!Unlinked
  <2>4. \A x \in Paths : denotes'[x] = IF x = p THEN (IF opened THEN nsegs + 1 ELSE 0)
                                       ELSE IF x = path[m] THEN 0 ELSE denotes[x]
    BY <2>1, <2>3
  <2>5. path' \in [Maps -> Paths \cup {Map!NoPath}] /\ denotes' \in [Paths -> Nat]
        /\ seg' \in [Maps -> Nat] /\ nsegs' \in Nat /\ rival' \in BOOLEAN
    BY <2>1, <2>2, <2>3
  <2>6. \A o \in Maps : /\ path'[o] = IF o = m THEN (IF opened THEN p ELSE Map!NoPath) ELSE path[o]
                        /\ seg'[o] = IF o = m THEN (IF opened THEN nsegs + 1 ELSE 0) ELSE seg[o]
    BY <2>1
  <2>7. ASSUME ~rival' PROVE ~rival /\ \A o \in Maps : o # m => path[o] # p
    BY <2>2, <2>7
  <2>8. ASSUME ~rival', NEW o \in Maps, path'[o] # Map!NoPath
        PROVE  seg'[o] # 0 /\ denotes'[path'[o]] = seg'[o]
    BY <2>4, <2>6, <2>7, <2>8
  <2>9. ASSUME ~rival', NEW o \in Maps, NEW q \in Maps, o # q, path'[o] # Map!NoPath
        PROVE  path'[o] # path'[q]
    BY <2>6, <2>7, <2>9
  <2> QED BY <2>5, <2>8, <2>9
<1>2. ASSUME NEW m \in Maps, NEW p \in Paths, Map!Access(m, p) PROVE NameInv'
  <2>1. Map!Unlinked(m) = [x \in Paths |-> IF x = path[m] THEN 0 ELSE denotes[x]]
    BY DEF Map!Unlinked
  <2>2. path' = [path EXCEPT ![m] = Map!NoPath] /\ seg' = [seg EXCEPT ![m] = 0] /\ UNCHANGED rival
    BY <1>2 DEF Map!Access
  <2>3. PICK fresh \in BOOLEAN :
           /\ fresh => Map!Unlinked(m)[p] = 0
           /\ nsegs' = IF fresh THEN nsegs + 1 ELSE nsegs
           /\ denotes' = IF fresh THEN [Map!Unlinked(m) EXCEPT ![p] = nsegs + 1] ELSE Map!Unlinked(m)
    <3>1. PICK opened \in BOOLEAN :
             /\ nsegs' = IF opened /\ ~(Map!Unlinked(m)[p] # 0) THEN nsegs + 1 ELSE nsegs
             /\ denotes' = IF opened /\ ~(Map!Unlinked(m)[p] # 0)
                           THEN [Map!Unlinked(m) EXCEPT ![p] = nsegs + 1] ELSE Map!Unlinked(m)
      BY <1>2, Zenon DEF Map!Access
    <3>2. CASE opened /\ Map!Unlinked(m)[p] = 0
      BY <3>1, <3>2
    <3>3. CASE ~(opened /\ Map!Unlinked(m)[p] = 0)
      BY <3>1, <3>3
    <3> QED BY <3>2, <3>3
  <2>4. path' \in [Maps -> Paths \cup {Map!NoPath}] /\ denotes' \in [Paths -> Nat]
        /\ seg' \in [Maps -> Nat] /\ nsegs' \in Nat /\ rival' \in BOOLEAN
    BY <2>1, <2>2, <2>3
  <2>5. \A o \in Maps : /\ path'[o] = IF o = m THEN Map!NoPath ELSE path[o]
                        /\ seg'[o] = IF o = m THEN 0 ELSE seg[o]
    BY <2>2
  <2>6. \A x \in Paths : x # path[m] /\ denotes[x] # 0 => denotes'[x] = denotes[x]
    BY <2>1, <2>3
  <2>7. ASSUME ~rival', NEW o \in Maps, path'[o] # Map!NoPath
        PROVE  seg'[o] # 0 /\ denotes'[path'[o]] = seg'[o]
    BY <2>2, <2>5, <2>6, <2>7
  <2> QED BY <2>2, <2>4, <2>5, <2>7
<1>3. ASSUME NEW m \in Maps, Map!Release(m) PROVE NameInv'
  BY <1>3 DEF Map!Release, Map!Unlinked
<1>4. ASSUME NEW m \in Maps, Map!Set(m) \/ Map!Detach(m) PROVE NameInv'
  BY <1>4 DEF Map!Set, Map!Detach
<1>5. ASSUME NEW m \in Maps, NEW o \in Maps, Map!MoveConstruct(m, o) \/ Map!MoveAssign(m, o)
      PROVE NameInv'
  BY <1>5 DEF Map!MoveConstruct, Map!MoveAssign, Map!MovedTo
<1>6. CASE UNCHANGED Map!mapVars
  BY <1>6 DEF Map!mapVars
<1> QED BY <1>1, <1>2, <1>3, <1>4, <1>5, <1>6 DEF Map!MapNext

LEMMA MapStarts == ASSUME Map!MapInit PROVE MappingInv /\ NameInv
<1>1. MappingInv
  BY DEF Map!MapInit, MappingInv, Map!HeldIsMapped, Map!Nothing
<1>2. NameInv
  BY DEF Map!MapInit, NameInv, Map!Nothing
<1> QED BY <1>1, <1>2

-----------------------------------------------------------------------------
(* process.  A pid has one waiter, because a program waits once for a child.  *)

ChildTypes ==
    /\ child \in [Pids -> {"none", "running", "zombie", "reaped"}]
    /\ target \in [Threads -> Pids \cup {Child!Any, Child!Idle}]
    /\ DOMAIN code = Pids /\ DOMAIN answer = Threads /\ DOMAIN asked = Threads
    /\ code = [p \in Pids |-> code[p]]
    /\ answer = [t \in Threads |-> answer[t]] /\ asked = [t \in Threads |-> asked[t]]

\* Whoever waits for a child has claimed it, alone; a child that is gone was claimed or
\* taken by waitpid(-1), and if its waiter is still there it was the latter.
ClaimedOnce ==
    /\ \A p \in waited : child[p] # "none"
    /\ \A t \in Threads : target[t] \in Pids => target[t] \in waited
    /\ \A t, u \in Threads : (t # u /\ target[t] \in Pids) => target[t] # target[u]
    /\ \A p \in Pids : child[p] = "reaped" => p \in waited \cup stolen
    /\ \A t \in Threads : (target[t] \in Pids /\ child[target[t]] = "reaped") => target[t] \in stolen

ChildInv == ChildTypes /\ waited \subseteq Pids /\ ClaimedOnce /\ Child!AnswersForItsChild

LEMMA ChildStarts == ASSUME Child!ChildAssumption, Child!ChildInit PROVE ChildInv
BY DEF Child!ChildAssumption, Child!ChildInit, ChildInv, ChildTypes, ClaimedOnce, Child!AnswersForItsChild,
       Child!Any, Child!Idle

\* A call returns: only its own thread's answer changes, and it was for its target.
LEMMA ReturnKeeps ==
    ASSUME NEW t \in Threads, NEW c, Child!Return(t, c), ChildTypes, Child!ChildAssumption
    PROVE  /\ target' = [target EXCEPT ![t] = Child!Idle] /\ target'[t] \notin Pids
           /\ \A u \in Threads : target'[u] = IF u = t THEN Child!Idle ELSE target[u]
           /\ \A u \in Threads : asked'[u] = IF u = t THEN target[t] ELSE asked[u]
           /\ \A u \in Threads : answer'[u] = IF u = t THEN c ELSE answer[u]
           /\ target' \in [Threads -> Pids \cup {Child!Any, Child!Idle}]
           /\ answer' = [u \in Threads |-> answer'[u]] /\ asked' = [u \in Threads |-> asked'[u]]
BY DEF Child!Return, ChildTypes, Child!ChildAssumption

LEMMA ChildStep ==
    ASSUME Child!ChildAssumption, ChildInv, [Child!ChildNext]_(Child!childVars)
    PROVE  ChildInv'
<1> USE DEF ChildInv
<1>1. ASSUME NEW t \in Threads, Child!Async(t) PROVE ChildInv'
  BY <1>1 DEF Child!Async, Child!In, ChildTypes, ClaimedOnce, Child!AnswersForItsChild
<1>2. ASSUME NEW t \in Threads, Child!Spawn(t) PROVE ChildInv'
  BY <1>2 DEF Child!Spawn, Child!In, ChildTypes, ClaimedOnce, Child!AnswersForItsChild
<1>3. ASSUME NEW t \in Threads, Child!SpawnFails(t) PROVE ChildInv'
  BY <1>3 DEF Child!SpawnFails, ChildTypes, ClaimedOnce, Child!AnswersForItsChild, Child!ChildAssumption
<1>4. ASSUME NEW t \in Threads, NEW p \in Pids, Child!Wait(t, p) PROVE ChildInv'
  BY <1>4 DEF Child!Wait, ChildTypes, ClaimedOnce, Child!AnswersForItsChild
<1>5. ASSUME NEW p \in Pids, Child!Exit(p) \/ Child!Stop(p) PROVE ChildInv'
  BY <1>5 DEF Child!Exit, Child!Stop, ChildTypes, ClaimedOnce, Child!AnswersForItsChild
<1>6. ASSUME NEW t \in Threads, Child!Reap(t) PROVE ChildInv'
  <2>1. PICK p \in Pids : /\ child[p] = "zombie" /\ target[t] \in {p, Child!Any}
                          /\ child' = [child EXCEPT ![p] = "reaped"]
                          /\ stolen' = IF target[t] = Child!Any THEN stolen \cup {p} ELSE stolen
                          /\ Child!Return(t, code[p])
    BY <1>6, Zenon DEF Child!Reap, Child!In
  <2>2. UNCHANGED <<code, waited, cut>>
    BY <1>6 DEF Child!Reap
  <2>3. \A q \in Pids : child'[q] = IF q = p THEN "reaped" ELSE child[q]
    BY <2>1 DEF ChildTypes
  <2>4. ChildTypes'
    BY <2>1, <2>2, ReturnKeeps DEF ChildTypes
  <2>5. ClaimedOnce'
    BY <2>1, <2>2, <2>3, ReturnKeeps DEF ClaimedOnce, ChildTypes, Child!ChildAssumption
  <2>6. Child!AnswersForItsChild'
    BY <2>1, <2>2, <2>3, ReturnKeeps DEF Child!AnswersForItsChild, ChildTypes, Child!ChildAssumption
  <2> QED BY <2>2, <2>4, <2>5, <2>6
<1>7. ASSUME NEW t \in Threads, Child!NoChild(t) PROVE ChildInv'
  <2>1. Child!Return(t, Child!Lost) /\ UNCHANGED <<child, code, waited, stolen, cut>>
    BY <1>7 DEF Child!NoChild
  <2>2. target[t] \in Pids => child[target[t]] = "reaped"
    BY <1>7 DEF Child!NoChild, Child!ChildAssumption
  <2>3. ChildTypes' /\ ClaimedOnce'
    BY <2>1, ReturnKeeps DEF ChildTypes, ClaimedOnce
  <2>4. Child!AnswersForItsChild'
    BY <2>1, <2>2, ReturnKeeps DEF ClaimedOnce, Child!AnswersForItsChild
  <2> QED BY <2>1, <2>3, <2>4
<1>8. ASSUME NEW t \in Threads, Child!Interrupted(t) PROVE ChildInv'
  <2>1. Child!Return(t, Child!Lost) /\ UNCHANGED <<child, code, waited, stolen>> /\ cut' = cut \cup {target[t]}
    BY <1>8 DEF Child!Interrupted
  <2>2. ChildTypes' /\ ClaimedOnce'
    BY <2>1, ReturnKeeps DEF ChildTypes, ClaimedOnce
  <2>3. Child!AnswersForItsChild'
    BY <2>1, ReturnKeeps DEF Child!AnswersForItsChild
  <2> QED BY <2>1, <2>2, <2>3
<1>9. CASE UNCHANGED Child!childVars
  BY <1>9 DEF Child!childVars, ChildTypes, ClaimedOnce, Child!AnswersForItsChild
<1> QED BY <1>1, <1>2, <1>3, <1>4, <1>5, <1>6, <1>7, <1>8, <1>9 DEF Child!ChildNext

-----------------------------------------------------------------------------
(* serial_t. *)

SerialTypes ==
    /\ device_ \in [Handles -> BOOLEAN]
    /\ original_ = [h \in Handles |-> original_[h]] /\ current_ = [h \in Handles |-> current_[h]]
    /\ temp = [h \in Handles |-> temp[h]]
    /\ alone \subseteq Handles /\ overlap \in BOOLEAN

\* As long as nobody opened an open terminal, every handle has the first settings to
\* put back, and a handle in the sleep of dtr() cannot be closed.
FirstKept ==
    /\ ~overlap => \A h \in Handles : device_[h] => original_[h] = first
    /\ \A h \in Handles : temp[h] # {} => device_[h]

SerialInv == SerialTypes /\ FirstKept /\ Tty!SettingsKept

LEMMA SerialStarts == ASSUME Tty!SerialInit PROVE SerialInv
<1>1. /\ device_ = [h \in Handles |-> FALSE] /\ temp = [h \in Handles |-> {}]
      /\ tty = first /\ overlap = FALSE /\ alone = {}
  BY DEF Tty!SerialInit
<1>2. original_ = [h \in Handles |-> original_[h]] /\ current_ = [h \in Handles |-> current_[h]]
  <2>1. original_ = [h \in Handles |-> Tty!NoSettings] /\ current_ = original_
    BY DEF Tty!SerialInit
  <2> QED BY <2>1
<1>3. SerialTypes
  BY <1>1, <1>2 DEF SerialTypes
<1>4. FirstKept /\ Tty!SettingsKept
  BY <1>1 DEF FirstKept, Tty!SettingsKept, Tty!Opened
<1> QED BY <1>3, <1>4 DEF SerialInv

\* What every change through an open handle has in common.
LEMMA InstallKeeps ==
    ASSUME SerialInv, NEW h \in Handles, NEW s, device_[h],
           current_' = [current_ EXCEPT ![h] = s], Tty!SetAttr(h, s),
           UNCHANGED <<device_, original_, first, overlap>>,
           temp' = [g \in Handles |-> temp'[g]],
           \A g \in Handles : g # h => temp'[g] = temp[g]
    PROVE  SerialInv'
<1>1. SerialTypes' /\ FirstKept'
  BY DEF SerialInv, SerialTypes, FirstKept, Tty!SetAttr
<1>2. Tty!SettingsKept'
  BY DEF SerialInv, SerialTypes, Tty!SettingsKept, Tty!Opened, Tty!SetAttr
<1> QED BY <1>1, <1>2 DEF SerialInv

LEMMA SerialStep ==
    ASSUME SerialInv, [Tty!SerialNext]_(Tty!serialVars)
    PROVE  SerialInv'
<1> USE DEF SerialInv, Tty!Opened
<1>1. ASSUME NEW h \in Handles, Tty!Close(h) \/ \E e \in {0, 2} : Tty!OpenFails(h, e) PROVE SerialInv'
  <2>1. /\ temp[h] = {} /\ tty' = (IF device_[h] THEN original_[h] ELSE tty)
        /\ alone' = (IF device_[h] THEN {} ELSE alone)
        /\ device_' = [device_ EXCEPT ![h] = FALSE]
        /\ UNCHANGED <<original_, current_, temp, first, overlap>>
    BY <1>1 DEF Tty!Close, Tty!OpenFails, Tty!Restored
  <2>2. SerialTypes' /\ FirstKept'
    BY <2>1 DEF SerialTypes, FirstKept
  <2>3. Tty!SettingsKept'
    BY <2>1 DEF SerialTypes, FirstKept, Tty!SettingsKept
  <2> QED BY <2>2, <2>3
<1>2. ASSUME NEW h \in Handles, Tty!Open(h) PROVE SerialInv'
  <2>1. /\ tty' = current_'[h] /\ alone' = {h}
        /\ original_' = [original_ EXCEPT ![h] = IF device_[h] THEN original_[h] ELSE tty]
        /\ current_' = [g \in Handles |-> current_'[g]]
        /\ device_' = [device_ EXCEPT ![h] = TRUE] /\ overlap' = (overlap \/ Tty!Opened \ {h} # {})
        /\ UNCHANGED <<temp, first>>
    BY <1>2 DEF Tty!Open, Tty!Restored, SerialTypes
  <2>2. ASSUME ~overlap' PROVE ~overlap /\ \A g \in Handles : device_[g] => g = h
    BY <2>1, <2>2
  <2>3. ASSUME ~overlap' PROVE original_'[h] = first
    BY <2>1, <2>2, <2>3 DEF SerialTypes, FirstKept, Tty!SettingsKept
  <2>4. SerialTypes' /\ FirstKept'
    BY <2>1, <2>2, <2>3 DEF SerialTypes, FirstKept
  <2>5. Tty!SettingsKept'
    BY <2>1 DEF SerialTypes, Tty!SettingsKept
  <2> QED BY <2>4, <2>5
<1>3. ASSUME NEW h \in Handles, NEW g \in Handles, Tty!Copy(h, g) PROVE SerialInv'
  BY <1>3 DEF Tty!Copy, SerialTypes, FirstKept, Tty!SettingsKept
<1>4. ASSUME NEW h \in Handles, NEW g \in Handles, Tty!Move(h, g) PROVE SerialInv'
  BY <1>4 DEF Tty!Move, Tty!Restored, SerialTypes, FirstKept, Tty!SettingsKept
<1>5. ASSUME NEW h \in Handles, NEW s, Tty!Install(h, s) PROVE SerialInv'
  BY <1>5, InstallKeeps DEF Tty!Install, SerialTypes
<1>6. ASSUME NEW h \in Handles, NEW msec, Tty!DtrDrop(h, msec) PROVE SerialInv'
  <2>1. PICK s : /\ current_' = [current_ EXCEPT ![h] = s] /\ Tty!SetAttr(h, s)
    BY <1>6 DEF Tty!DtrDrop
  <2>2. /\ device_[h] /\ UNCHANGED <<device_, original_, first, overlap>>
        /\ temp' = [g \in Handles |-> temp'[g]]
        /\ \A g \in Handles : g # h => temp'[g] = temp[g]
    BY <1>6 DEF Tty!DtrDrop, SerialTypes
  <2> QED BY <2>1, <2>2, InstallKeeps
<1>7. ASSUME NEW h \in Handles, Tty!DtrRestore(h) PROVE SerialInv'
  <2>1. PICK s \in temp[h] : tty' = s /\ current_' = [current_ EXCEPT ![h] = s]
    BY <1>7 DEF Tty!DtrRestore
  <2>2. /\ device_[h] /\ alone' = {h} /\ UNCHANGED <<device_, original_, first, overlap>>
        /\ temp' = [temp EXCEPT ![h] = {}]
    BY <1>7, <2>1 DEF Tty!DtrRestore, FirstKept
  <2>3. SerialTypes' /\ FirstKept'
    BY <2>1, <2>2 DEF SerialTypes, FirstKept
  <2>4. Tty!SettingsKept'
    BY <2>1, <2>2 DEF SerialTypes, Tty!SettingsKept
  <2> QED BY <2>3, <2>4
<1>8. ASSUME NEW h \in Handles, Tty!FormatNul(h) PROVE SerialInv'
  BY <1>8 DEF Tty!FormatNul, SerialTypes, FirstKept, Tty!SettingsKept
<1>9. ASSUME UNCHANGED <<tty, device_, original_, current_, temp, first, overlap, alone>> PROVE SerialInv'
  BY <1>9 DEF SerialTypes, FirstKept, Tty!SettingsKept
<1>10. CASE Tty!SerialNext
  <2> SUFFICES ASSUME NEW h \in Handles,
                      \/ Tty!TimedMode(h) \/ Tty!LineMode(h)
                      \/ \E on \in BOOLEAN : Tty!Flow(h, on)
                      \/ \E rate \in Tty!Speeds \ {0} : Tty!Speed(h, rate)
                      \/ \E f \in {"7e2", "8n1"} : Tty!Format(h, f)
                      \/ \E e \in {0, 1} : Tty!Transfer(h, e)
               PROVE  SerialInv'
    BY <1>1, <1>2, <1>3, <1>4, <1>6, <1>7, <1>8, <1>10 DEF Tty!SerialNext
  <2>1. (\E s : Tty!Install(h, s)) \/ \E e \in {0, 1} : Tty!Transfer(h, e)
    BY Zenon DEF Tty!TimedMode, Tty!LineMode, Tty!Flow, Tty!Speed, Tty!Format
  <2> QED BY <1>5, <1>9, <2>1 DEF Tty!Transfer
<1>11. CASE UNCHANGED Tty!serialVars
  BY <1>9, <1>11 DEF Tty!serialVars
<1> QED BY <1>10, <1>11

-----------------------------------------------------------------------------
(* Lists of addresses.  They are numbered as they are made. *)

ListTypes ==
    /\ list \in [Addr!Owners -> 0..MaxLists] /\ count \in [Ifaces -> Nat]
    /\ length \in [0..MaxLists -> Nat] /\ lists \in 0..MaxLists
    /\ listsAlive \subseteq 1..lists /\ again \subseteq Ifaces

\* No object has a list that is yet to be made, and no list has no entries.
ListsMade == length[0] = 0 /\ \A o \in Addr!Owners : list[o] <= lists

CountIsLength == \A i \in Ifaces : i \notin again => count[i] = length[list[i]]

ListInv == ListTypes /\ ListsMade /\ Addr!ListsOwned /\ CountIsLength

LEMMA ListStarts == ASSUME Addr!AddressAssumption, Addr!ListInit PROVE ListInv
<1>1. 0 \in 0..MaxLists
  BY DEF Addr!AddressAssumption
<1>2. ListTypes /\ ListsMade
  BY <1>1 DEF Addr!ListInit, ListTypes, ListsMade, Addr!Null
<1>3. Addr!ListsOwned
  BY DEF Addr!ListInit, Addr!ListsOwned, Addr!Null
<1>4. CountIsLength
  BY <1>1 DEF Addr!ListInit, CountIsLength, Addr!Owners, Addr!Null
<1> QED BY <1>2, <1>3, <1>4 DEF ListInv

\* operator[] answers with an entry or nothing by its own test.
LEMMA ListImplied == ASSUME Addr!AddressAssumption, ListInv PROVE Addr!ListsOwned /\ Addr!SizeIsLength
<1>1. ASSUME NEW i \in Ifaces, NEW n \in 0..count[i] PROVE Addr!Entry(i, n) <= length[list[i]]
  <2>1. count[i] \in Nat /\ length[list[i]] \in Nat
    BY DEF ListInv, ListTypes, Addr!Owners
  <2>2. PICK m \in Nat : m = length[list[i]]
    BY <2>1
  <2> QED BY <2>1, <2>2 DEF Addr!Entry, Addr!Null
<1> QED BY <1>1 DEF ListInv, Addr!SizeIsLength, CountIsLength

\* o gives up its list, freed unless it is an interfaces about to be updated.
LEMMA NewListKeeps ==
    ASSUME Addr!AddressAssumption, ListInv, NEW o \in Addr!Owners, NEW n \in Nat, NEW rest,
           rest \subseteq listsAlive, \A p \in Addr!Owners : (p # o /\ list[p] # 0) => list[p] \in rest,
           Addr!NewList(o, n, rest), ~twice', count' \in [Ifaces -> Nat], again' \subseteq Ifaces,
           CountIsLength'
    PROVE  ListInv'
<1>1. lists + 1 \in 1..MaxLists /\ lists' = lists + 1 /\ lists \in Nat
  BY DEF Addr!NewList, Addr!AddressAssumption, ListInv, ListTypes
<1>2. \A p \in Addr!Owners : list'[p] = IF p = o THEN lists + 1 ELSE list[p]
  BY DEF Addr!NewList, ListInv, ListTypes
<1>3. listsAlive' = rest \cup {lists + 1} /\ listsAlive' \subseteq 1..lists'
  BY <1>1 DEF Addr!NewList, ListInv, ListTypes
<1>4. ListTypes'
  BY <1>1, <1>3 DEF Addr!NewList, ListInv, ListTypes
<1>5. ListsMade'
  BY <1>1, <1>2 DEF Addr!NewList, ListInv, ListTypes, ListsMade, Addr!Owners
<1>6. \A p \in Addr!Owners : list[p] \in Nat /\ list[p] <= lists
  BY DEF ListInv, ListTypes, ListsMade
<1>7. Addr!ListsOwned'
  BY <1>1, <1>2, <1>3, <1>6 DEF ListInv, Addr!ListsOwned, Addr!Null
<1> QED BY <1>4, <1>5, <1>7 DEF ListInv

LEMMA ListStep ==
    ASSUME Addr!AddressAssumption, ListInv, [Addr!ListNext]_(Addr!listVars)
    PROVE  ListInv'
<1> USE DEF ListInv
<1>0. 0 \in 0..MaxLists
  BY DEF Addr!AddressAssumption
<1>1. \A o \in Addr!Owners : /\ ~Addr!Twice(o) /\ Addr!Freed(o) = listsAlive \ {list[o]}
                             /\ list[o] \in 0..MaxLists
  BY DEF Addr!Twice, Addr!Freed, Addr!ListsOwned, ListTypes
<1>2. ASSUME NEW o \in Addr!Owners, Addr!Release(o) PROVE ListInv'
  <2>1. /\ \A p \in Addr!Owners : list'[p] = IF p = o THEN 0 ELSE list[p]
        /\ listsAlive' = listsAlive \ {list[o]} /\ ~twice'
    BY <1>1, <1>2 DEF Addr!Release, Addr!Null, ListTypes
  <2>2. ListTypes'
    <3>1. list' \in [Addr!Owners -> 0..MaxLists]
      BY <1>0, <1>2 DEF Addr!Release, Addr!Null, ListTypes
    <3>2. count' \in [Ifaces -> Nat]
      BY <1>2 DEF Addr!Release, ListTypes
    <3> QED BY <1>2, <2>1, <3>1, <3>2 DEF Addr!Release, ListTypes
  <2>3. ListsMade' /\ CountIsLength'
    BY <1>2, <2>1 DEF Addr!Release, ListTypes, ListsMade, CountIsLength, Addr!Owners
  <2>4. Addr!ListsOwned'
    BY <2>1 DEF Addr!ListsOwned, Addr!Null
  <2> QED BY <2>2, <2>3, <2>4
<1>3. ASSUME NEW s \in Services, Addr!SetService(s) PROVE ListInv'
  <2>1. s \in Addr!Owners /\ s \notin Ifaces /\ ~twice' /\ UNCHANGED <<count, again>>
    BY <1>1, <1>3 DEF Addr!SetService, Addr!Owners, Addr!AddressAssumption
  <2>2. CASE \E n \in 1..MaxLength : Addr!NewList(s, n, Addr!Freed(s))
    <3>1. PICK n \in 1..MaxLength : Addr!NewList(s, n, Addr!Freed(s))
      BY <2>2
    <3>2. n \in Nat /\ lists + 1 \notin 0..lists
      BY DEF Addr!AddressAssumption, ListTypes
    <3>3. \A i \in Ifaces : list'[i] = list[i] /\ list[i] \in 0..lists /\ length'[list[i]] = length[list[i]]
      BY <2>1, <3>1, <3>2 DEF Addr!NewList, ListTypes, ListsMade, Addr!Owners
    <3>4. CountIsLength'
      BY <2>1, <3>3 DEF CountIsLength
    <3>5. Addr!Freed(s) \subseteq listsAlive
          /\ \A p \in Addr!Owners : (p # s /\ list[p] # 0) => list[p] \in Addr!Freed(s)
      BY <1>1, <2>1 DEF Addr!ListsOwned, Addr!Null
    <3> QED BY <2>1, <3>1, <3>2, <3>4, <3>5, NewListKeeps DEF ListTypes
  <2>3. CASE list' = [list EXCEPT ![s] = 0] /\ listsAlive' = Addr!Freed(s) /\ UNCHANGED <<length, lists>>
    <3>1. ListTypes'
      BY <1>0, <1>1, <2>1, <2>3 DEF ListTypes
    <3>2. \A p \in Addr!Owners : list'[p] = IF p = s THEN 0 ELSE list[p]
      BY <2>3 DEF ListTypes
    <3>3. ListsMade' /\ CountIsLength'
      BY <2>1, <2>3, <3>2 DEF ListTypes, ListsMade, CountIsLength, Addr!Owners
    <3>4. Addr!ListsOwned'
      BY <1>1, <2>1, <2>3, <3>2 DEF Addr!ListsOwned, Addr!Null
    <3> QED BY <3>1, <3>3, <3>4
  <2> QED BY <1>3, <2>2, <2>3 DEF Addr!SetService, Addr!Null
<1>4. ASSUME NEW i \in Ifaces, Addr!Update(i) PROVE ListInv'
  <2>1. i \in Addr!Owners /\ again' = (IF list[i] # 0 THEN again \cup {i} ELSE again) /\ twice' = twice
    BY <1>4 DEF Addr!Update, Addr!Owners, Addr!Null
  <2>2. ~twice' /\ again' \subseteq Ifaces
    BY <2>1 DEF Addr!ListsOwned, ListTypes
  <2>3. CASE \E n \in 1..MaxLength : Addr!NewList(i, n, listsAlive) /\ count' = [count EXCEPT ![i] = @ + n]
    <3>1. PICK n \in 1..MaxLength : Addr!NewList(i, n, listsAlive) /\ count' = [count EXCEPT ![i] = @ + n]
      BY <2>3
    <3>2. n \in Nat /\ lists + 1 \notin 0..lists /\ lists + 1 \in 0..MaxLists
      BY <3>1 DEF Addr!AddressAssumption, ListTypes, Addr!NewList
    <3>3. \A j \in Ifaces : j # i => /\ list'[j] = list[j] /\ list[j] \in 0..lists
                                     /\ length'[list[j]] = length[list[j]] /\ count'[j] = count[j]
      BY <2>1, <3>1, <3>2 DEF Addr!NewList, ListTypes, ListsMade, Addr!Owners
    <3>4. length'[list'[i]] = n /\ count'[i] = count[i] + n /\ count' \in [Ifaces -> Nat]
      BY <2>1, <3>1, <3>2 DEF Addr!NewList, ListTypes
    <3>5. i \notin again' => count[i] = 0
      BY <2>1 DEF ListsMade, CountIsLength
    <3>6. CountIsLength'
      BY <2>1, <3>2, <3>3, <3>4, <3>5 DEF CountIsLength
    <3>7. \A p \in Addr!Owners : (p # i /\ list[p] # 0) => list[p] \in listsAlive
      BY DEF Addr!ListsOwned, Addr!Null
    <3> QED BY <2>1, <2>2, <3>1, <3>2, <3>4, <3>6, <3>7, NewListKeeps
  <2>4. CASE count' = [count EXCEPT ![i] = @ + length[list[i]]] /\ UNCHANGED <<list, listsAlive, length, lists>>
    <3>1. length[list[i]] \in Nat /\ count[i] \in Nat
      BY <2>1 DEF ListTypes
    <3>2. ListTypes' /\ ListsMade' /\ Addr!ListsOwned'
      BY <2>1, <2>2, <2>4, <3>1 DEF ListTypes, ListsMade, Addr!ListsOwned
    <3>3. i \notin again' => i \notin again /\ length[list[i]] = 0
      BY <2>1 DEF ListsMade
    <3>4. CountIsLength'
      BY <2>1, <2>4, <3>1, <3>3 DEF ListTypes, CountIsLength
    <3> QED BY <3>2, <3>4
  <2> QED BY <1>4, <2>3, <2>4 DEF Addr!Update
<1>5. ASSUME NEW o \in Addr!Owners, NEW p \in Addr!Owners, Addr!Move(o, p) PROVE ListInv'
  <2>1. /\ o # p /\ (o \in Ifaces <=> p \in Ifaces)
        /\ \A q \in Addr!Owners : list'[q] = IF q = p THEN 0 ELSE IF q = o THEN list[p] ELSE list[q]
        /\ listsAlive' = listsAlive \ {list[o]} /\ ~twice' /\ UNCHANGED <<length, lists>>
        /\ \A i \in Ifaces : count'[i] = IF i = o THEN count[p] ELSE IF i = p THEN 0 ELSE count[i]
        /\ \A i \in Ifaces : i \in again' <=> IF i = o THEN p \in again ELSE i # p /\ i \in again
    BY <1>1, <1>5 DEF Addr!Move, Addr!Null, Addr!Peers, Addr!Owners, Addr!AddressAssumption, ListTypes
  <2>2. ListTypes'
    <3>1. list' \in [Addr!Owners -> 0..MaxLists]
      BY <1>0, <1>1, <1>5 DEF Addr!Move, Addr!Null, ListTypes
    <3>2. count' \in [Ifaces -> Nat]
      BY <1>5, <2>1 DEF Addr!Move, ListTypes
    <3>3. again' \subseteq Ifaces
      BY <1>5, <2>1 DEF Addr!Move, ListTypes
    <3> QED BY <2>1, <3>1, <3>2, <3>3 DEF ListTypes
  <2>3. ListsMade'
    BY <2>1 DEF ListTypes, ListsMade
  <2>4. CountIsLength'
    <3> SUFFICES ASSUME NEW i \in Ifaces, i \notin again' PROVE count'[i] = length'[list'[i]]
      BY DEF CountIsLength
    <3>1. CASE i = o
      BY <2>1, <3>1 DEF CountIsLength
    <3>2. CASE i = p
      BY <2>1, <3>2 DEF ListsMade
    <3>3. CASE i # o /\ i # p
      BY <2>1, <3>3 DEF CountIsLength, Addr!Owners
    <3> QED BY <3>1, <3>2, <3>3
  <2>5. Addr!ListsOwned'
    BY <2>1 DEF Addr!ListsOwned, Addr!Null
  <2> QED BY <2>2, <2>3, <2>4, <2>5
<1>6. ASSUME NEW i \in Ifaces, NEW j \in Ifaces, i # j, Addr!Swap(i, j) PROVE ListInv'
  <2>1. /\ i \in Addr!Owners /\ j \in Addr!Owners
        /\ \A q \in Addr!Owners : list'[q] = IF q = i THEN list[j] ELSE IF q = j THEN list[i] ELSE list[q]
        /\ \A q \in Ifaces : count'[q] = IF q = i THEN count[j] ELSE IF q = j THEN count[i] ELSE count[q]
        /\ \A q \in Ifaces : q \in again' <=> IF q = i THEN j \in again ELSE IF q = j THEN i \in again ELSE q \in again
        /\ UNCHANGED <<length, lists, listsAlive, twice>>
    BY <1>6 DEF Addr!Swap, Addr!Owners, ListTypes
  <2>2. ListTypes'
    BY <1>6, <2>1 DEF Addr!Swap, ListTypes
  <2>3. ListsMade' /\ CountIsLength'
    BY <2>1 DEF ListTypes, ListsMade, CountIsLength, Addr!Owners
  <2>4. Addr!ListsOwned'
    BY <2>1 DEF Addr!ListsOwned, Addr!Null
  <2> QED BY <2>2, <2>3, <2>4
<1>7. CASE UNCHANGED Addr!listVars
  BY <1>7 DEF Addr!listVars, ListTypes, ListsMade, Addr!ListsOwned, CountIsLength
<1> QED BY <1>2, <1>3, <1>4, <1>5, <1>6, <1>7 DEF Addr!ListNext

-----------------------------------------------------------------------------
(* address_t.  What keeps its family, host and port together is that every    *)
(* operation makes an address some sockaddr may hold, or none.                *)

Addresses == Addr!Sockaddrs \cup {Addr!Zero}

LEMMA MinOfTwo == ASSUME NEW x \in Nat, NEW y \in Nat PROVE Addr!Min({x, y}) = IF x <= y THEN x ELSE y
BY DEF Addr!Min

\* The shapes of an address.
LEMMA Shapes ==
    ASSUME NEW x \in Addresses
    PROVE  \/ x = Addr!Zero
           \/ \E h \in {"any", "h4"}, p \in Addr!AnyPort : x = Addr!Inet(h, p)
           \/ \E h \in Addr!Hosts6, p \in Addr!AnyPort : x = Addr!Inet6(h, p)
           \/ \E n \in 0..MaxPath : x = Addr!Unix(n)
BY DEF Addresses, Addr!Sockaddrs

LEMMA ShapesIn ==
    /\ Addr!Zero \in Addresses
    /\ \A h \in {"any", "h4"}, p \in Addr!AnyPort : Addr!Inet(h, p) \in Addresses
    /\ \A h \in Addr!Hosts6, p \in Addr!AnyPort : Addr!Inet6(h, p) \in Addresses
    /\ \A n \in 0..MaxPath : Addr!Unix(n) \in Addresses
BY DEF Addresses, Addr!Sockaddrs

LEMMA SetStringIn ==
    ASSUME NEW s, NEW p \in Addr!AnyPort, NEW any
    PROVE  Addr!SetString(s, p, any) \in Addresses
BY ShapesIn DEF Addr!SetString, Addr!Hosts6

LEMMA SetPathIn ==
    ASSUME Addr!AddressAssumption, NEW n \in Nat
    PROVE  /\ Addr!SetPath(n) \in Addresses
           /\ n <= MaxPath => Addr!SetPath(n) = IF n < FirstSlash THEN Addr!Zero ELSE Addr!Unix(n)
<1>1. Addr!Min({n, MaxPath}) = IF n <= MaxPath THEN n ELSE MaxPath
  BY MinOfTwo DEF Addr!AddressAssumption
<1> QED BY <1>1, ShapesIn DEF Addr!SetPath, Addr!AddressAssumption

\* A copied path is cut to the length of the path before it.
LEMMA SetSockaddrIn ==
    ASSUME Addr!AddressAssumption, NEW x \in Addresses, NEW src \in Addr!Sockaddrs, NEW y \in Addr!SetSockaddr(x, src)
    PROVE  /\ y \in Addresses
           /\ y # src => /\ src.family = "unix" /\ y.family = "unix" /\ y.host < src.host
                         /\ x.family = "unix" => y.host = x.host
                         /\ x.family = "unspec" => y.host = 0
<1>1. CASE src.family # "unix"
  BY <1>1 DEF Addr!SetSockaddr, Addresses
<1>2. CASE src.family = "unix"
  <2>1. PICK n \in 0..MaxPath : src = Addr!Unix(n)
    BY <1>2, Shapes DEF Addresses, Addr!Zero, Addr!Inet, Addr!Inet6
  <2>2. PICK held \in Addr!PathHeld(x) : y = Addr!Unix(Addr!Min({src.host, held}))
    BY <1>2 DEF Addr!SetSockaddr
  <2>3. src.host = n
    BY <2>1 DEF Addr!Unix
  <2>4. /\ held \in 0..MaxPath
        /\ x.family = "unix" => held = x.host
        /\ x.family = "unspec" => held = 0
    BY Shapes DEF Addr!PathHeld, Addr!Zero, Addr!Inet, Addr!Inet6, Addr!Unix, Addr!AddressAssumption
  <2>5. n \in Nat /\ held \in Nat /\ Addr!Min({n, held}) = IF n <= held THEN n ELSE held
    BY <2>4, MinOfTwo DEF Addr!AddressAssumption
  <2>6. CASE n <= held
    BY <2>1, <2>2, <2>3, <2>5, <2>6, ShapesIn
  <2>7. CASE held < n
    <3>1. y = Addr!Unix(held) /\ y \in Addresses
      BY <2>2, <2>3, <2>4, <2>5, <2>7, ShapesIn
    <3>2. y.family = "unix" /\ y.host = held
      BY <3>1 DEF Addr!Unix
    <3> QED BY <1>2, <2>3, <2>4, <2>7, <3>1, <3>2
  <2> QED BY <2>5, <2>6, <2>7
<1> QED BY <1>1, <1>2

LEMMA PortIn ==
    ASSUME NEW x \in Addresses, NEW p \in Addr!AnyPort
    PROVE  Addr!SetPort(x, p) \in Addresses /\ Addr!PortIf(x, p) \in Addresses
<1>1. Addr!SetPort(x, p) \in Addresses
  BY Shapes, ShapesIn DEF Addr!SetPort, Addr!Zero, Addr!Inet, Addr!Inet6, Addr!Unix
<1> QED BY <1>1 DEF Addr!PortIf

LEMMA AssignAnyIn == ASSUME NEW x \in Addresses PROVE Addr!AssignAny(x) \in Addresses
BY Shapes, ShapesIn DEF Addr!AssignAny, Addr!Hosts6, Addr!Zero, Addr!Inet, Addr!Inet6, Addr!Unix

LEMMA AssignIn6In ==
    ASSUME Addr!AddressAssumption, NEW x \in Addresses, NEW src \in Addr!Sockaddrs, NEW y \in Addr!AssignIn6(x, src)
    PROVE  y \in Addresses
<1>1. src.family = "inet" => src.port \in Addr!AnyPort
  BY Shapes DEF Addresses, Addr!Zero, Addr!Inet, Addr!Inet6, Addr!Unix
<1>2. CASE src.family = "inet6"
  BY <1>2, SetSockaddrIn DEF Addr!AssignIn6
<1>3. CASE src.family = "inet"
  BY <1>1, <1>3, ShapesIn DEF Addr!AssignIn6, Addr!Hosts6
<1>4. CASE src.family \notin {"inet", "inet6"}
  BY <1>4 DEF Addr!AssignIn6
<1> QED BY <1>2, <1>3, <1>4

\* set() undoes to_string() but for the scope and for a path without its slash.
LEMMA RoundTrip ==
    ASSUME Addr!AddressAssumption, NEW x \in Addresses
    PROVE  Addr!ReadBack(x) = IF x.family = "unix" /\ x.host < FirstSlash THEN Addr!Zero
                              ELSE [x EXCEPT !.host = IF x.family = "inet6" THEN Addr!Unscoped(@) ELSE @]
<1>1. ASSUME NEW n \in 0..MaxPath, x = Addr!Unix(n)
      PROVE  Addr!ReadBack(x) = IF n < FirstSlash THEN Addr!Zero ELSE x
  <2>1. x.host = n /\ x.family = "unix" /\ n \in Nat /\ n <= MaxPath
    BY <1>1 DEF Addr!Unix, Addr!AddressAssumption
  <2> QED BY <1>1, <2>1, SetPathIn DEF Addr!ReadBack
<1>2. CASE x = Addr!Zero
  BY <1>2 DEF Addr!ReadBack, Addr!Zero, Addr!ToString, Addr!SetString
<1>3. ASSUME NEW h \in {"any", "h4"}, NEW p \in Addr!AnyPort, x = Addr!Inet(h, p)
      PROVE  x.family = "inet" /\ Addr!ReadBack(x) = x
  BY <1>3 DEF Addr!ReadBack, Addr!Inet, Addr!ToString, Addr!SetString
<1>4. ASSUME NEW h \in Addr!Hosts6, NEW p \in Addr!AnyPort, x = Addr!Inet6(h, p)
      PROVE  x.family = "inet6" /\ Addr!ReadBack(x) = Addr!Inet6(Addr!Unscoped(h), p)
  BY <1>4 DEF Addr!ReadBack, Addr!Hosts6, Addr!Inet6, Addr!ToString, Addr!SetString, Addr!Unscoped
<1>5. ASSUME NEW n \in 0..MaxPath, x = Addr!Unix(n)
      PROVE  x.family = "unix" /\ x.host = n /\ x = [x EXCEPT !.host = @]
  BY <1>5 DEF Addr!Unix
<1>6. ASSUME NEW h, NEW p, x = Addr!Inet6(h, p)
      PROVE  Addr!Inet6(Addr!Unscoped(h), p) = [x EXCEPT !.host = Addr!Unscoped(@)]
  BY <1>6 DEF Addr!Inet6
<1>7. ASSUME NEW h, NEW p, x = Addr!Inet(h, p) PROVE x = [x EXCEPT !.host = @]
  BY <1>7 DEF Addr!Inet
<1>8. CASE \E n \in 0..MaxPath : x = Addr!Unix(n)
  BY <1>1, <1>5, <1>8
<1>9. CASE \E h \in {"any", "h4"}, p \in Addr!AnyPort : x = Addr!Inet(h, p)
  BY <1>3, <1>7, <1>9
<1>10. CASE \E h \in Addr!Hosts6, p \in Addr!AnyPort : x = Addr!Inet6(h, p)
  BY <1>4, <1>6, <1>10
<1>11. x = Addr!Zero => x.family = "unspec" /\ x = [x EXCEPT !.host = @]
  BY DEF Addr!Zero
<1> QED BY <1>2, <1>8, <1>9, <1>10, <1>11, Shapes

\* A lookup answers in the family asked for, unless the host is a literal.
FamilyOf(x, s, f) ==
    \/ f \notin {"inet", "inet6"} \/ x.family \in {f, "unspec"} \/ Addr!SetString(s, 0, "inet") # Addr!Zero

LEMMA FindIn ==
    ASSUME NEW s \in Addr!Strings, NEW p \in Addr!AnyPort, NEW f \in Addr!Families,
           NEW x \in Addr!InetFind(s, p, f)
    PROVE  x \in Addresses /\ FamilyOf(x, s, f)
<1> DEFINE host == CASE f # "inet6" /\ s = "local" -> "ip4"
                     [] (f = "inet6" /\ s = "local") \/ (f # "inet" /\ s = "local6") -> "ip6"
                     [] s = "empty" -> "name"
                     [] OTHER -> s
<1>1. CASE Addr!SetString(host, p, "inet") # Addr!Zero
  <2>1. x = Addr!SetString(host, p, "inet")
    BY <1>1 DEF Addr!InetFind
  <2>2. x \in Addresses
    BY <2>1, SetStringIn
  <2>3. CASE s \in {"local", "local6"}
    <3>1. (host = "ip4" /\ f # "inet6") \/ (host = "ip6" /\ f # "inet") \/ host = "local6"
      <4>1. (f # "inet6" /\ s = "local") => host = "ip4"
        OBVIOUS
      <4>2. (f = "inet6" /\ s = "local") => host = "ip6"
        OBVIOUS
      <4>3. (f # "inet" /\ s = "local6") => host = "ip6"
        OBVIOUS
      <4>4. (f = "inet" /\ s = "local6") => host = "local6"
        OBVIOUS
      <4> HIDE DEF host
      <4> QED BY <2>3, <4>1, <4>2, <4>3, <4>4
    <3>2. host # "local6"
      BY <1>1 DEF Addr!SetString
    <3>3. host = "ip4" => x = Addr!Inet("h4", p)
      BY <2>1 DEF Addr!SetString
    <3>4. host = "ip6" => x = Addr!Inet6("h6", p)
      BY <2>1 DEF Addr!SetString
    <3> HIDE DEF host
    <3>5. x.family \in {f, "unspec"} \/ f \notin {"inet", "inet6"}
      BY <3>1, <3>2, <3>3, <3>4 DEF Addr!Inet, Addr!Inet6, Addr!Families
    <3> QED BY <2>2, <3>5 DEF FamilyOf
  <2>4. CASE s \notin {"local", "local6"}
    <3>1. host = IF s = "empty" THEN "name" ELSE s
      BY <2>4
    <3>2. s # "empty"
      BY <1>1, <3>1 DEF Addr!SetString
    <3>3. Addr!SetString(s, p, "inet") # Addr!Zero
      BY <1>1, <3>1, <3>2
    <3>4. Addr!SetString(s, 0, "inet") # Addr!Zero
      BY <3>3 DEF Addr!SetString, Addr!Inet, Addr!Inet6, Addr!Zero
    <3> QED BY <2>2, <3>4 DEF FamilyOf
  <2> QED BY <2>2, <2>3, <2>4
<1>2. CASE Addr!SetString(host, p, "inet") = Addr!Zero
  <2>1. PICK y \in Addr!Resolved(f) : x = Addr!PortIf(y, p)
    BY <1>2 DEF Addr!InetFind
  <2>2. y \in Addresses /\ (f = "unspec" \/ y.family \in {f, "unspec"})
    BY ShapesIn DEF Addr!Hosts6, Addr!Resolved, Addr!Zero, Addr!Inet, Addr!Inet6, Addr!AnyPort
  <2>3. x.family = y.family
    BY <2>1, <2>2, Shapes DEF Addr!PortIf, Addr!SetPort, Addr!Zero, Addr!Inet, Addr!Inet6, Addr!Unix
  <2> QED BY <2>1, <2>2, <2>3, PortIn DEF FamilyOf
<1> QED BY <1>1, <1>2

LEMMA BindIn ==
    ASSUME NEW s \in Addr!Strings, NEW p \in Addr!AnyPort, NEW f \in Addr!Families,
           NEW x \in Addr!InetBind(s, p, f)
    PROVE  x \in Addresses /\ FamilyOf(x, s, f)
<1>1. CASE x \in Addr!InetFind(s, p, f)
  BY <1>1, FindIn
<1>2. CASE x \notin Addr!InetFind(s, p, f)
  <2>1. 0 \in Addr!AnyPort
    BY DEF Addr!AnyPort
  <2>2. \/ x \in {Addr!Inet("any", p), Addr!Inet("h4", 0)} /\ f # "inet6"
        \/ x \in {Addr!Inet6("any", p), Addr!Inet6("h6", 0), Addr!Inet6("scoped", 0)} /\ f # "inet"
    BY <1>2 DEF Addr!InetBind
  <2> QED BY <2>1, <2>2, ShapesIn DEF FamilyOf, Addr!Inet, Addr!Inet6, Addr!Hosts6
<1> QED BY <1>1, <1>2

AddrInv == a \in Addresses /\ Addr!CopiesWhole /\ Addr!FamilyKept

LEMMA AddrStarts == ASSUME Addr!AddrInit PROVE AddrInv
BY ShapesIn DEF Addr!AddrInit, AddrInv, Addr!CopiesWhole, Addr!FamilyKept, Addr!NoRequest

LEMMA ChangeKeeps == ASSUME NEW x \in Addresses, Addr!Change(x) PROVE AddrInv'
BY DEF Addr!Change, Addr!Become, AddrInv, Addr!CopiesWhole, Addr!FamilyKept, Addr!NoRequest

LEMMA AddrStep ==
    ASSUME Addr!AddressAssumption, AddrInv, [Addr!AddrNext]_(Addr!addrVars)
    PROVE  AddrInv'
<1>1. a \in Addresses
  BY DEF AddrInv
<1>2. CASE Addr!DoSet \/ Addr!DoAssignIn6 \/ Addr!DoPort \/ Addr!DoAssignAny
  <2>1. \A n \in Addr!PathLengths : n \in Nat
    BY DEF Addr!PathLengths, Addr!AddressAssumption
  <2>2. \E x \in Addresses : Addr!Change(x)
    <3>1. CASE Addr!DoSet
      BY <3>1, <2>1, SetStringIn, SetPathIn, Zenon DEF Addr!DoSet
    <3>2. CASE Addr!DoAssignIn6
      BY <3>2, <1>1, AssignIn6In, Zenon DEF Addr!DoAssignIn6
    <3>3. CASE Addr!DoPort
      BY <3>3, <1>1, PortIn, Zenon DEF Addr!DoPort
    <3>4. CASE Addr!DoAssignAny
      BY <3>4, <1>1, AssignAnyIn, Zenon DEF Addr!DoAssignAny
    <3> QED BY <1>2, <3>1, <3>2, <3>3, <3>4
  <2> QED BY <2>2, ChangeKeeps
<1>3. CASE Addr!DoSetSockaddr
  <2>1. PICK src \in Addr!Sockaddrs : \E x \in Addr!SetSockaddr(a, src) : Addr!Become(x, src, Addr!NoRequest)
    BY <1>3 DEF Addr!DoSetSockaddr
  <2>2. a' \in Addr!SetSockaddr(a, src) /\ source' = src /\ before' = a /\ request' = Addr!NoRequest
    BY <2>1 DEF Addr!Become
  <2> QED BY <1>1, <2>2, SetSockaddrIn DEF AddrInv, Addr!CopiesWhole, Addr!FamilyKept, Addr!NoRequest
<1>4. CASE Addr!DoInet
  <2>1. PICK s \in Addr!Strings, p \in Addr!AnyPort, f \in Addr!Families :
           \E x \in Addr!InetFind(s, p, f) \cup Addr!InetBind(s, p, f) :
              Addr!Become(x, Addr!Zero, [host |-> s, family |-> f])
    BY <1>4 DEF Addr!DoInet
  <2>2. PICK x \in Addr!InetFind(s, p, f) \cup Addr!InetBind(s, p, f) :
              Addr!Become(x, Addr!Zero, [host |-> s, family |-> f])
    BY <2>1
  <2>3. x \in Addresses /\ FamilyOf(x, s, f)
    BY FindIn, BindIn
  <2>4. a' = x /\ source' = Addr!Zero /\ request'.host = s /\ request'.family = f
    BY <2>2 DEF Addr!Become
  <2> QED BY <2>3, <2>4 DEF AddrInv, FamilyOf, Addr!CopiesWhole, Addr!FamilyKept
<1>5. CASE Addr!DoInetPath
  <2>1. PICK n \in Addr!PathLengths, f \in Addr!Families :
           \E x \in {Addr!InetFindPath(n), Addr!InetBindPath(n, f)} :
              Addr!Become(x, Addr!Zero, [host |-> "path", family |-> f])
    BY <1>5 DEF Addr!DoInetPath
  <2>2. n \in Nat
    BY DEF Addr!PathLengths, Addr!AddressAssumption
  <2>3. a' = Addr!SetPath(n) /\ source' = Addr!Zero /\ request'.host = "path"
    BY <2>1 DEF Addr!Become, Addr!InetFindPath, Addr!InetBindPath
  <2> QED BY <2>2, <2>3, SetPathIn DEF AddrInv, Addr!CopiesWhole, Addr!FamilyKept
<1>6. CASE UNCHANGED Addr!addrVars
  BY <1>6 DEF Addr!addrVars, AddrInv, Addr!CopiesWhole, Addr!FamilyKept
<1> QED BY <1>2, <1>3, <1>4, <1>5, <1>6 DEF Addr!AddrNext

-----------------------------------------------------------------------------
(* Descriptors.  T is the table, n the files opened, F and W what the objects *)
(* hold, and L the files that loops over service lists have opened.           *)

Slots == 0..MaxFd-1

\* A holder's number denotes its file, no file is open twice or held twice, and an open
\* file is held or was opened by a loop.
Sound(T, n, F, W, L) ==
    /\ n \in Nat /\ T \in [Slots -> 0..n]
    /\ F \in [Fd!Objects -> Slots \cup {-1}] /\ W \in [Fd!Objects -> 0..n]
    /\ \A o \in Fd!Objects : F[o] = -1 <=> W[o] = 0
    /\ \A o \in Fd!Objects : F[o] # -1 => T[F[o]] = W[o]
    /\ \A o, p \in Fd!Objects : (W[o] = W[p] /\ W[o] # 0) => o = p
    /\ \A i, j \in Slots : (T[i] = T[j] /\ T[i] # 0) => i = j
    /\ \A i \in Slots : T[i] # 0 => T[i] \in L \/ \E o \in Fd!Objects : W[o] = T[i]

LEMMA CloseSound ==
    ASSUME NEW T, NEW n, NEW F, NEW W, NEW L, Sound(T, n, F, W, L), NEW o \in Fd!Objects, F[o] # -1
    PROVE  Sound([T EXCEPT ![F[o]] = 0], n, [F EXCEPT ![o] = -1], [W EXCEPT ![o] = 0], L)
<1>1. PICK k \in Slots : k = F[o]
  BY DEF Sound
<1>2. PICK U : U = [T EXCEPT ![k] = 0]
  OBVIOUS
<1>3. PICK G, V : G = [F EXCEPT ![o] = -1] /\ V = [W EXCEPT ![o] = 0]
  OBVIOUS
<1>4. /\ \A i \in Slots : U[i] = IF i = k THEN 0 ELSE T[i]
      /\ \A p \in Fd!Objects : G[p] = (IF p = o THEN -1 ELSE F[p]) /\ V[p] = (IF p = o THEN 0 ELSE W[p])
  BY <1>1, <1>2, <1>3 DEF Sound
<1>5. /\ n \in Nat /\ U \in [Slots -> 0..n]
      /\ G \in [Fd!Objects -> Slots \cup {-1}] /\ V \in [Fd!Objects -> 0..n]
  BY <1>1, <1>2, <1>3 DEF Sound
<1>6. \A p \in Fd!Objects : G[p] = -1 <=> V[p] = 0
  BY <1>4 DEF Sound
<1>7. ASSUME NEW p \in Fd!Objects, G[p] # -1 PROVE U[G[p]] = V[p]
  <2>1. p # o /\ F[p] # -1 /\ F[p] \in Slots /\ T[F[p]] = W[p] /\ W[p] # 0 /\ T[k] = W[o]
    BY <1>1, <1>4, <1>7 DEF Sound
  <2>2. F[p] # k
    BY <2>1 DEF Sound
  <2> QED BY <1>4, <2>1, <2>2
<1>8. \A p, q \in Fd!Objects : (V[p] = V[q] /\ V[p] # 0) => p = q
  BY <1>4 DEF Sound
<1>9. \A i, j \in Slots : (U[i] = U[j] /\ U[i] # 0) => i = j
  BY <1>4 DEF Sound
<1>10. ASSUME NEW i \in Slots, U[i] # 0, U[i] \notin L PROVE \E p \in Fd!Objects : V[p] = U[i]
  <2>1. i # k /\ T[i] = U[i]
    BY <1>4, <1>10
  <2>2. PICK p \in Fd!Objects : W[p] = T[i]
    BY <1>10, <2>1 DEF Sound
  <2>3. p # o
    BY <1>1, <1>10, <2>1, <2>2 DEF Sound
  <2> QED BY <1>4, <2>1, <2>2, <2>3
<1>11. Sound(U, n, G, V, L)
  BY <1>5, <1>6, <1>7, <1>8, <1>9, <1>10 DEF Sound
<1> QED BY <1>1, <1>2, <1>3, <1>11

LEMMA ForgetSound ==
    ASSUME NEW T, NEW n, NEW F, NEW W, NEW L, Sound(T, n, F, W, L), NEW o \in Fd!Objects, W[o] \in L \cup {0}
    PROVE  Sound(T, n, [F EXCEPT ![o] = -1], [W EXCEPT ![o] = 0], L)
<1>1. PICK G, V : G = [F EXCEPT ![o] = -1] /\ V = [W EXCEPT ![o] = 0]
  OBVIOUS
<1>2. \A p \in Fd!Objects : G[p] = (IF p = o THEN -1 ELSE F[p]) /\ V[p] = (IF p = o THEN 0 ELSE W[p])
  BY <1>1 DEF Sound
<1>3. G \in [Fd!Objects -> Slots \cup {-1}] /\ V \in [Fd!Objects -> 0..n]
  BY <1>1 DEF Sound
<1>4. /\ \A p \in Fd!Objects : G[p] = -1 <=> V[p] = 0
      /\ \A p \in Fd!Objects : G[p] # -1 => T[G[p]] = V[p]
      /\ \A p, q \in Fd!Objects : (V[p] = V[q] /\ V[p] # 0) => p = q
  BY <1>2 DEF Sound
<1>5. \A i \in Slots : T[i] # 0 => T[i] \in L \/ \E p \in Fd!Objects : V[p] = T[i]
  BY <1>2 DEF Sound
<1>6. Sound(T, n, G, V, L)
  BY <1>3, <1>4, <1>5 DEF Sound
<1> QED BY <1>1, <1>6

LEMMA OpenSound ==
    ASSUME NEW T, NEW n, NEW F, NEW W, NEW L, Sound(T, n, F, W, L), NEW o \in Fd!Objects, W[o] \in L \cup {0},
           NEW k \in Slots, T[k] = 0
    PROVE  Sound([T EXCEPT ![k] = n + 1], n + 1, [F EXCEPT ![o] = k], [W EXCEPT ![o] = n + 1], L)
<1>1. PICK U, G, V : U = [T EXCEPT ![k] = n + 1] /\ G = [F EXCEPT ![o] = k] /\ V = [W EXCEPT ![o] = n + 1]
  OBVIOUS
<1>2. PICK m \in Nat : m = n + 1 /\ m # 0 /\ n \in Nat /\ m \notin 0..n /\ 0..n \subseteq 0..m /\ m \in 0..m
  BY DEF Sound
<1>3. /\ \A i \in Slots : U[i] = IF i = k THEN m ELSE T[i]
      /\ \A p \in Fd!Objects : G[p] = (IF p = o THEN k ELSE F[p]) /\ V[p] = (IF p = o THEN m ELSE W[p])
      /\ \A i \in Slots : T[i] \in 0..n
      /\ \A p \in Fd!Objects : W[p] \in 0..n
  BY <1>1, <1>2 DEF Sound
<1>4. /\ U \in [Slots -> 0..m] /\ G \in [Fd!Objects -> Slots \cup {-1}] /\ V \in [Fd!Objects -> 0..m]
  BY <1>1, <1>2 DEF Sound
<1>5. k # -1
  BY SystemAssumption DEF Slots, Fd!FdAssumption
<1>6. \A p \in Fd!Objects : G[p] = -1 <=> V[p] = 0
  BY <1>2, <1>3, <1>5 DEF Sound
<1>7. ASSUME NEW p \in Fd!Objects, G[p] # -1 PROVE U[G[p]] = V[p]
  <2>1. CASE p = o
    BY <1>3, <2>1
  <2>2. CASE p # o
    <3>1. G[p] = F[p] /\ F[p] \in Slots /\ T[F[p]] = W[p] /\ W[p] # 0 /\ V[p] = W[p]
      BY <1>3, <1>7, <2>2 DEF Sound
    <3> QED BY <1>3, <3>1
  <2> QED BY <2>1, <2>2
<1>8. \A p, q \in Fd!Objects : (V[p] = V[q] /\ V[p] # 0) => p = q
  BY <1>2, <1>3 DEF Sound
<1>9. \A i, j \in Slots : (U[i] = U[j] /\ U[i] # 0) => i = j
  BY <1>2, <1>3 DEF Sound
<1>10. \A i \in Slots : U[i] # 0 => U[i] \in L \/ \E p \in Fd!Objects : V[p] = U[i]
  BY <1>3 DEF Sound
<1>11. Sound(U, m, G, V, L)
  BY <1>4, <1>6, <1>7, <1>8, <1>9, <1>10 DEF Sound
<1> QED BY <1>1, <1>2, <1>11

LEMMA MoveSound ==
    ASSUME NEW T, NEW n, NEW F, NEW W, NEW L, Sound(T, n, F, W, L),
           NEW to \in Fd!Objects, NEW from \in Fd!Objects, F[to] = -1
    PROVE  Sound(T, n, [[F EXCEPT ![to] = F[from]] EXCEPT ![from] = -1],
                       [[W EXCEPT ![to] = W[from]] EXCEPT ![from] = 0], L)
<1>1. PICK G, V : /\ G = [[F EXCEPT ![to] = F[from]] EXCEPT ![from] = -1]
                  /\ V = [[W EXCEPT ![to] = W[from]] EXCEPT ![from] = 0]
  OBVIOUS
<1>2. \A p \in Fd!Objects : /\ G[p] = (IF p = from THEN -1 ELSE IF p = to THEN F[from] ELSE F[p])
                            /\ V[p] = (IF p = from THEN 0 ELSE IF p = to THEN W[from] ELSE W[p])
  BY <1>1 DEF Sound
<1>3. G \in [Fd!Objects -> Slots \cup {-1}] /\ V \in [Fd!Objects -> 0..n]
  BY <1>1 DEF Sound
<1>4. W[to] = 0
  BY DEF Sound
<1>5. /\ \A p \in Fd!Objects : G[p] = -1 <=> V[p] = 0
      /\ \A p \in Fd!Objects : G[p] # -1 => T[G[p]] = V[p]
  BY <1>2 DEF Sound
<1>6. \A p, q \in Fd!Objects : (V[p] = V[q] /\ V[p] # 0) => p = q
  BY <1>2 DEF Sound
<1>7. ASSUME NEW i \in Slots, T[i] # 0, T[i] \notin L PROVE \E p \in Fd!Objects : V[p] = T[i]
  <2>1. PICK p \in Fd!Objects : W[p] = T[i]
    BY <1>7 DEF Sound
  <2>2. CASE p = from
    BY <1>2, <1>4, <1>7, <2>1, <2>2
  <2>3. CASE p # from
    BY <1>2, <1>4, <1>7, <2>1, <2>3
  <2> QED BY <2>2, <2>3
<1>8. Sound(T, n, G, V, L)
  BY <1>3, <1>5, <1>6, <1>7 DEF Sound
<1> QED BY <1>1, <1>8

LEMMA LowestIn == ASSUME NEW S, S \subseteq Nat, S # {} PROVE Fd!Min(S) \in S
<1> DEFINE R == OpToRel(<, Nat)
<1>1. IsWellFoundedOn(R, Nat)
  BY NatLessThanWellFounded, Zenon
<1>2. \A x, y \in Nat : <<y, x>> \in R <=> y < x
  BY DEF OpToRel
<1> HIDE DEF R
<1>3. PICK x \in S : \A y \in S : ~(<<y, x>> \in R)
  BY <1>1, WFMin, Zenon
<1>4. ASSUME NEW y \in S PROVE x <= y
  <2>1. ~(y < x) /\ x \in Nat /\ y \in Nat
    BY <1>2, <1>3
  <2> QED BY <2>1
<1> QED BY <1>3, <1>4 DEF Fd!Min

\* The world as a whole: nobody has closed what was not theirs.
SoundWorld(w, L) ==
    /\ w = [table |-> w.table, opens |-> w.opens, fd |-> w.fd, own |-> w.own, err |-> w.err, wrong |-> w.wrong]
    /\ w.wrong = {} /\ Sound(w.table, w.opens, w.fd, w.own, L)

Same(w, r, P) == \A o \in Fd!Objects \ P : r.fd[o] = w.fd[o] /\ r.own[o] = w.own[o]

LEMMA SetErrKeeps ==
    ASSUME NEW w, NEW L, SoundWorld(w, L), NEW s, NEW e
    PROVE  SoundWorld(Fd!SetErr(w, s, e), L) /\ Same(w, Fd!SetErr(w, s, e), {})
           /\ Fd!SetErr(w, s, e).fd = w.fd /\ Fd!SetErr(w, s, e).own = w.own
<1>1. PICK r : r = Fd!SetErr(w, s, e)
  OBVIOUS
<1>2. /\ r.table = w.table /\ r.opens = w.opens /\ r.fd = w.fd /\ r.own = w.own /\ r.wrong = w.wrong
      /\ r = [table |-> r.table, opens |-> r.opens, fd |-> r.fd, own |-> r.own, err |-> r.err, wrong |-> r.wrong]
  BY <1>1 DEF Fd!SetErr, SoundWorld
<1>3. SoundWorld(r, L) /\ Same(w, r, {})
  BY <1>2 DEF SoundWorld, Same
<1> QED BY <1>1, <1>2, <1>3

LEMMA ReleaseKeeps ==
    ASSUME NEW w, NEW L, SoundWorld(w, L), NEW o \in Fd!Objects
    PROVE  /\ SoundWorld(Fd!Release(w, o), L) /\ Same(w, Fd!Release(w, o), {o})
           /\ Fd!Release(w, o).fd[o] = -1 /\ Fd!Release(w, o).own[o] = 0
<1>1. CASE w.fd[o] = -1
  <2>1. Fd!Release(w, o) = w
    BY <1>1 DEF Fd!Release, Fd!None
  <2>2. w.own[o] = 0
    BY <1>1 DEF SoundWorld, Sound
  <2> QED BY <1>1, <2>1, <2>2 DEF Same
<1>2. CASE w.fd[o] # -1
  <2>1. PICK r : r = Fd!Release(w, o)
    OBVIOUS
  <2>2. w.table[w.fd[o]] = w.own[o]
    BY <1>2 DEF SoundWorld, Sound
  <2>3. /\ r.table = [w.table EXCEPT ![w.fd[o]] = 0] /\ r.opens = w.opens
        /\ r.fd = [w.fd EXCEPT ![o] = -1] /\ r.own = [w.own EXCEPT ![o] = 0] /\ r.wrong = w.wrong
        /\ r = [table |-> r.table, opens |-> r.opens, fd |-> r.fd, own |-> r.own, err |-> r.err, wrong |-> r.wrong]
    BY <1>2, <2>1, <2>2 DEF Fd!Release, Fd!None, Fd!Free, SoundWorld
  <2>4. Sound(r.table, r.opens, r.fd, r.own, L)
    BY <1>2, <2>3, CloseSound DEF SoundWorld
  <2>5. SoundWorld(r, L)
    BY <2>3, <2>4 DEF SoundWorld
  <2>6. r.fd[o] = -1 /\ r.own[o] = 0 /\ Same(w, r, {o})
    BY <2>3 DEF SoundWorld, Sound, Same
  <2> QED BY <2>1, <2>5, <2>6
<1> QED BY <1>1, <1>2

LEMMA TryOpenKeeps ==
    ASSUME NEW w, NEW L, SoundWorld(w, L), NEW o \in Fd!Objects, w.own[o] \in L \cup {0},
           NEW r \in Fd!TryOpen(w, o)
    PROVE  SoundWorld(r, L) /\ Same(w, r, {o})
<1>1. CASE r = Fd!Forget(w, o)
  <2>1. /\ r.table = w.table /\ r.opens = w.opens
        /\ r.fd = [w.fd EXCEPT ![o] = -1] /\ r.own = [w.own EXCEPT ![o] = 0] /\ r.wrong = w.wrong
        /\ r = [table |-> r.table, opens |-> r.opens, fd |-> r.fd, own |-> r.own, err |-> r.err, wrong |-> r.wrong]
    BY <1>1 DEF Fd!Forget, Fd!None, Fd!Free, SoundWorld
  <2>2. Sound(r.table, r.opens, r.fd, r.own, L)
    BY <2>1, ForgetSound DEF SoundWorld
  <2> QED BY <2>1, <2>2 DEF SoundWorld, Same, Sound
<1>2. CASE Fd!CanOpen(w) /\ r = Fd!Open(w, o)
  <2>1. DOMAIN w.table = Slots
    BY DEF SoundWorld, Sound
  <2>2. Fd!Numbers(w) \subseteq Nat
    BY <2>1 DEF Fd!Numbers, Slots
  <2>3. PICK k \in Slots : k = Fd!Min(Fd!Numbers(w)) /\ w.table[k] = 0
    <3>1. Fd!Min(Fd!Numbers(w)) \in Fd!Numbers(w)
      BY <1>2, <2>2, LowestIn DEF Fd!CanOpen
    <3> QED BY <2>1, <3>1 DEF Fd!Numbers, Fd!Free
  <2>4. /\ r.table = [w.table EXCEPT ![k] = w.opens + 1] /\ r.opens = w.opens + 1
        /\ r.fd = [w.fd EXCEPT ![o] = k] /\ r.own = [w.own EXCEPT ![o] = w.opens + 1] /\ r.wrong = w.wrong
        /\ r = [table |-> r.table, opens |-> r.opens, fd |-> r.fd, own |-> r.own, err |-> r.err, wrong |-> r.wrong]
    BY <1>2, <2>3 DEF Fd!Open, SoundWorld
  <2>5. Sound(r.table, r.opens, r.fd, r.own, L)
    BY <2>3, <2>4, OpenSound DEF SoundWorld
  <2> QED BY <2>4, <2>5 DEF SoundWorld, Same, Sound
<1> QED BY <1>1, <1>2 DEF Fd!TryOpen

LEMMA TrySocketKeeps ==
    ASSUME NEW w, NEW L, SoundWorld(w, L), NEW s \in Sockets, w.own[s] \in L \cup {0},
           NEW r \in Fd!TrySocket(w, s)
    PROVE  SoundWorld(r, L) /\ Same(w, r, {s})
<1>1. s \in Fd!Objects
  BY DEF Fd!Objects
<1>2. PICK x \in Fd!TryOpen(w, s) : r = Fd!SetErr(x, s, x.fd[s] = Fd!None)
  BY DEF Fd!TrySocket
<1>3. SoundWorld(x, L) /\ Same(w, x, {s})
  BY <1>1, TryOpenKeeps
<1>4. SoundWorld(r, L) /\ r.fd = x.fd /\ r.own = x.own
  BY <1>2, <1>3, SetErrKeeps
<1> QED BY <1>3, <1>4 DEF Same

LEMMA MoveKeeps ==
    ASSUME NEW w, NEW L, SoundWorld(w, L), NEW to \in Fd!Objects, NEW from \in Fd!Objects, w.fd[to] = -1
    PROVE  SoundWorld(Fd!Forget(Fd!Take(w, to, from), from), L)
           /\ Same(w, Fd!Forget(Fd!Take(w, to, from), from), {to, from})
<1>1. PICK x : x = Fd!Take(w, to, from)
  OBVIOUS
<1>2. PICK r : r = Fd!Forget(x, from)
  OBVIOUS
<1>3. /\ x.table = w.table /\ x.opens = w.opens /\ x.wrong = w.wrong
      /\ x.fd = [w.fd EXCEPT ![to] = w.fd[from]] /\ x.own = [w.own EXCEPT ![to] = w.own[from]]
      /\ x = [table |-> x.table, opens |-> x.opens, fd |-> x.fd, own |-> x.own, err |-> x.err, wrong |-> x.wrong]
  BY <1>1 DEF Fd!Take, SoundWorld
<1>4. /\ r.table = x.table /\ r.opens = x.opens /\ r.wrong = x.wrong
      /\ r.fd = [x.fd EXCEPT ![from] = -1] /\ r.own = [x.own EXCEPT ![from] = 0]
      /\ r = [table |-> r.table, opens |-> r.opens, fd |-> r.fd, own |-> r.own, err |-> r.err, wrong |-> r.wrong]
  BY <1>2, <1>3 DEF Fd!Forget, Fd!None, Fd!Free
<1>5. Sound(r.table, r.opens, r.fd, r.own, L)
  BY <1>3, <1>4, MoveSound DEF SoundWorld
<1>6. SoundWorld(r, L)
  BY <1>3, <1>4, <1>5 DEF SoundWorld
<1>7. Same(w, r, {to, from})
  BY <1>3, <1>4 DEF SoundWorld, Sound, Same
<1> QED BY <1>1, <1>2, <1>6, <1>7

\* Until a file object is moved from by assignment.  What a socket inside a loop over a
\* service list holds was opened by that loop, so that overwriting it loses only that.
FdSound == /\ SoundWorld(world, looped)
           /\ \A s \in loop : world.own[s] \in looped \cup {0}

FdInv == loop \subseteq Sockets /\ (moved \/ FdSound)

LEMMA FdStarts == ASSUME Fd!FdAssumption, Fd!FdInit PROVE FdInv
<1>1. world.wrong = {} /\ loop = {} /\ looped = {}
  BY DEF Fd!FdInit
<1>2. Sound(world.table, world.opens, world.fd, world.own, {})
  BY DEF Fd!FdInit, Sound, Slots, Fd!None, Fd!Free, Fd!FdAssumption
<1>3. world = [table |-> world.table, opens |-> world.opens, fd |-> world.fd, own |-> world.own,
               err |-> world.err, wrong |-> world.wrong]
  BY DEF Fd!FdInit
<1> QED BY <1>1, <1>2, <1>3 DEF FdInv, FdSound, SoundWorld

LEMMA FdImplied == FdInv => DescriptorsOwned
<1> SUFFICES ASSUME FdInv, ~moved PROVE DescriptorsOwned
  BY DEF DescriptorsOwned, Fd!ClosesItsOwn, Fd!OneHolder
<1>1. SoundWorld(world, looped)
  BY DEF FdInv, FdSound
<1>2. world.wrong = {} /\ DOMAIN world.table = Slots
  BY <1>1 DEF SoundWorld, Sound
<1>3. /\ \A o, p \in Fd!Objects : (world.own[o] = world.own[p] /\ world.own[o] # 0) => o = p
      /\ \A o \in Fd!Objects : world.fd[o] # -1 => world.table[world.fd[o]] = world.own[o]
  BY <1>1 DEF SoundWorld, Sound
<1>4. \A i \in Slots : world.table[i] # 0 => world.table[i] \in looped \/ \E o \in Fd!Objects : world.own[o] = world.table[i]
  BY <1>1 DEF SoundWorld, Sound
<1>5. Fd!ClosesItsOwn
  BY <1>2 DEF Fd!ClosesItsOwn
<1>6. Fd!OneHolder
  BY <1>2, <1>3, <1>4 DEF Fd!OneHolder, Fd!Free, Fd!None
<1> QED BY <1>5, <1>6 DEF DescriptorsOwned

\* A step that leaves the loops alone keeps the invariant if it keeps the world sound
\* and touches no socket in a loop.
LEMMA PlainKeeps ==
    ASSUME FdInv, ~moved, Fd!Plain, NEW P, P \cap loop = {},
           SoundWorld(world', looped), Same(world, world', P), loop \subseteq Fd!Objects
    PROVE  FdInv'
BY DEF FdInv, FdSound, Fd!Plain, Same

LEMMA FdStep ==
    ASSUME Fd!FdAssumption, FdInv, [Fd!FdNext]_(Fd!fdVars)
    PROVE  FdInv'
<1>1. CASE UNCHANGED Fd!fdVars
  BY <1>1 DEF Fd!fdVars, FdInv, FdSound
<1>2. CASE Fd!FdNext /\ moved
  <2>1. moved' /\ loop' \subseteq Sockets
    BY <1>2 DEF Fd!FdNext, Fd!Plain, FdInv, Fd!AppOpen, Fd!AppClose, Fd!Adopt, Fd!Destroy, Fd!FileOpen,
                Fd!FileMove, Fd!FileAssign, Fd!RefCopy, Fd!RefMove, Fd!SocketOpen, Fd!Bind, Fd!Listen,
                Fd!AcceptFunc, Fd!ListBegin, Fd!ListTurn, Fd!SocketMove, Fd!Accept
  <2> QED BY <2>1 DEF FdInv
<1>3. CASE Fd!FdNext /\ ~moved
  <2>1. /\ SoundWorld(world, looped) /\ (\A s \in loop : world.own[s] \in looped \cup {0})
        /\ loop \subseteq Sockets /\ loop \subseteq Fd!Objects /\ App \in Fd!Objects /\ App \notin loop
        /\ \A f \in Files : f \in Fd!Objects /\ f \notin loop
        /\ \A f \in Refs : f \in Fd!Objects /\ f \notin loop
        /\ \A f \in Sockets : f \in Fd!Objects
    BY <1>3 DEF FdInv, FdSound, Fd!Objects, Fd!FdAssumption
  <2>2. \A o \in Fd!Objects : world.fd[o] = -1 => world.own[o] = 0
    BY <2>1 DEF SoundWorld, Sound
  <2> USE DEF Fd!None
  <2>3. CASE Fd!AppOpen
    <3>1. SoundWorld(world', looped) /\ Same(world, world', {App})
      BY <2>1, <2>2, <2>3, TryOpenKeeps DEF Fd!AppOpen
    <3> QED BY <1>3, <2>1, <2>3, <3>1, PlainKeeps DEF Fd!AppOpen
  <2>4. CASE Fd!AppClose
    <3>1. SoundWorld(world', looped) /\ Same(world, world', {App})
      BY <2>1, <2>4, ReleaseKeeps DEF Fd!AppClose
    <3> QED BY <1>3, <2>1, <2>4, <3>1, PlainKeeps DEF Fd!AppClose
  <2>5. ASSUME NEW o \in Fd!Objects, Fd!Adopt(o) PROVE FdInv'
    <3>1. o # App /\ o \notin loop /\ Fd!Plain
      BY <2>5 DEF Fd!Adopt, Fd!Alone
    <3>2. PICK x : x = Fd!Release(world, o)
      OBVIOUS
    <3>3. SoundWorld(x, looped) /\ Same(world, x, {o}) /\ x.fd[o] = -1
      BY <2>1, <3>2, ReleaseKeeps
    <3>4. PICK y : y = Fd!Forget(Fd!Take(x, o, App), App)
      OBVIOUS
    <3>5. SoundWorld(y, looped) /\ Same(x, y, {o, App})
      BY <2>1, <3>3, <3>4, MoveKeeps
    <3>6. \/ world' = y \/ world' = Fd!SetErr(y, o, FALSE)
      BY <2>5, <3>2, <3>4 DEF Fd!Adopt
    <3>7. SoundWorld(world', looped) /\ world'.fd = y.fd /\ world'.own = y.own
      <4>1. CASE world' = y
        BY <3>5, <4>1
      <4>2. CASE world' = Fd!SetErr(y, o, FALSE)
        BY <3>5, <4>2, SetErrKeeps
      <4> QED BY <3>6, <4>1, <4>2
    <3>8. Same(world, world', {o, App})
      BY <3>3, <3>5, <3>7 DEF Same
    <3> QED BY <1>3, <2>1, <3>1, <3>7, <3>8, PlainKeeps
  <2>6. ASSUME NEW o \in Fd!Objects, Fd!Destroy(o) PROVE FdInv'
    <3>1. SoundWorld(world', looped) /\ Same(world, world', {o}) /\ {o} \cap loop = {} /\ Fd!Plain
      BY <2>1, <2>6, ReleaseKeeps DEF Fd!Destroy, Fd!Alone
    <3> QED BY <1>3, <2>1, <3>1, PlainKeeps
  <2>7. ASSUME NEW f \in Files, Fd!FileOpen(f) PROVE FdInv'
    <3>1. PICK x : x = Fd!Release(world, f)
      OBVIOUS
    <3>2. SoundWorld(x, looped) /\ Same(world, x, {f}) /\ x.own[f] = 0
      BY <2>1, <3>1, ReleaseKeeps
    <3>3. SoundWorld(world', looped) /\ Same(x, world', {f}) /\ Fd!Plain
      BY <2>1, <2>7, <3>1, <3>2, TryOpenKeeps DEF Fd!FileOpen
    <3>4. Same(world, world', {f})
      BY <3>2, <3>3 DEF Same
    <3> QED BY <1>3, <2>1, <3>3, <3>4, PlainKeeps
  <2>8. ASSUME NEW f \in Files, NEW g \in Files, Fd!FileMove(f, g) PROVE FdInv'
    <3>1. SoundWorld(world', looped) /\ Same(world, world', {f, g}) /\ {f, g} \cap loop = {} /\ Fd!Plain
      BY <2>1, <2>8, MoveKeeps DEF Fd!FileMove
    <3> QED BY <1>3, <2>1, <3>1, PlainKeeps
  <2>9. ASSUME NEW f \in Files, NEW g \in Files, Fd!FileAssign(f, g) PROVE FdInv'
    BY <2>1, <2>9 DEF Fd!FileAssign, FdInv
  <2>10. ASSUME NEW r \in Refs, NEW q \in Refs, Fd!RefCopy(r, q) PROVE FdInv'
    <3>1. PICK x : x = Fd!Release(world, r)
      OBVIOUS
    <3>2. SoundWorld(x, looped) /\ Same(world, x, {r}) /\ x.own[r] = 0
      BY <2>1, <3>1, ReleaseKeeps
    <3>3. world' = x \/ world' \in Fd!TryOpen(x, r)
      BY <2>10, <3>1 DEF Fd!RefCopy
    <3>4. SoundWorld(world', looped) /\ Same(x, world', {r})
      BY <2>1, <3>2, <3>3, TryOpenKeeps DEF Same
    <3>5. Same(world, world', {r}) /\ Fd!Plain
      BY <2>10, <3>2, <3>4 DEF Same, Fd!RefCopy
    <3> QED BY <1>3, <2>1, <3>4, <3>5, PlainKeeps
  <2>11. ASSUME NEW r \in Refs, NEW q \in Refs, Fd!RefMove(r, q) PROVE FdInv'
    <3>1. PICK x : x = Fd!Release(world, r)
      OBVIOUS
    <3>2. SoundWorld(x, looped) /\ Same(world, x, {r}) /\ x.fd[r] = -1
      BY <2>1, <3>1, ReleaseKeeps
    <3>3. SoundWorld(world', looped) /\ Same(x, world', {r, q}) /\ Fd!Plain
      BY <2>1, <2>11, <3>1, <3>2, MoveKeeps DEF Fd!RefMove
    <3>4. Same(world, world', {r, q}) /\ {r, q} \cap loop = {}
      BY <2>1, <3>2, <3>3 DEF Same
    <3> QED BY <1>3, <2>1, <3>3, <3>4, PlainKeeps
  <2>12. ASSUME NEW s \in Sockets, Fd!SocketOpen(s) PROVE FdInv'
    <3>1. SoundWorld(world', looped) /\ Same(world, world', {s}) /\ {s} \cap loop = {} /\ Fd!Plain
      BY <2>1, <2>2, <2>12, TrySocketKeeps DEF Fd!SocketOpen, Fd!Alone
    <3> QED BY <1>3, <2>1, <3>1, PlainKeeps
  <2>13. ASSUME NEW s \in Sockets, NEW p \in Sockets, Fd!SocketMove(s, p) PROVE FdInv'
    <3>1. PICK x : x = Fd!Release(world, s)
      OBVIOUS
    <3>2. SoundWorld(x, looped) /\ Same(world, x, {s}) /\ x.fd[s] = -1
      BY <2>1, <3>1, ReleaseKeeps
    <3>3. PICK y : y = Fd!Forget(Fd!Take(x, s, p), p)
      OBVIOUS
    <3>4. SoundWorld(y, looped) /\ Same(x, y, {s, p})
      BY <2>1, <3>2, <3>3, MoveKeeps
    <3>5. world' = Fd!SetErr(y, s, world.err[p])
      BY <2>13, <3>1, <3>2, <3>3 DEF Fd!SocketMove, Fd!SetErr, Fd!Take, Fd!Forget, SoundWorld
    <3>6. SoundWorld(world', looped) /\ world'.fd = y.fd /\ world'.own = y.own
      BY <3>4, <3>5, SetErrKeeps
    <3>7. Same(world, world', {s, p}) /\ {s, p} \cap loop = {} /\ Fd!Plain
      BY <2>13, <3>2, <3>4, <3>6 DEF Same, Fd!SocketMove, Fd!Alone
    <3> QED BY <1>3, <2>1, <3>6, <3>7, PlainKeeps
  <2>14. ASSUME NEW s \in Sockets, Fd!Bind(s) PROVE FdInv'
    <3>1. PICK x : x = Fd!Release(world, s)
      OBVIOUS
    <3>2. SoundWorld(x, looped) /\ Same(world, x, {s}) /\ x.own[s] = 0
      BY <2>1, <3>1, ReleaseKeeps
    <3>3. PICK w \in Fd!TrySocket(x, s) :
             world' \in {Fd!SetErr(w, s, TRUE), Fd!SetErr(w, s, FALSE), Fd!Release(Fd!SetErr(w, s, TRUE), s)}
      BY <2>14, <3>1 DEF Fd!Bind
    <3>4. SoundWorld(w, looped) /\ Same(x, w, {s})
      BY <3>2, TrySocketKeeps
    <3>5. PICK e \in BOOLEAN : world' \in {Fd!SetErr(w, s, e), Fd!Release(Fd!SetErr(w, s, e), s)}
      BY <3>3
    <3>6. PICK y : y = Fd!SetErr(w, s, e)
      OBVIOUS
    <3>7. SoundWorld(y, looped) /\ y.fd = w.fd /\ y.own = w.own
      BY <3>4, <3>6, SetErrKeeps
    <3>8. SoundWorld(world', looped) /\ Same(y, world', {s})
      <4>1. CASE world' = y
        BY <3>7, <4>1 DEF Same
      <4>2. CASE world' = Fd!Release(y, s)
        BY <2>1, <3>7, <4>2, ReleaseKeeps
      <4> QED BY <3>5, <3>6, <4>1, <4>2
    <3>9. Same(world, world', {s}) /\ {s} \cap loop = {} /\ Fd!Plain
      BY <2>14, <3>2, <3>4, <3>7, <3>8 DEF Same, Fd!Bind, Fd!Alone
    <3> QED BY <1>3, <2>1, <3>8, <3>9, PlainKeeps
  <2>15. ASSUME NEW s \in Sockets, Fd!Listen(s) PROVE FdInv'
    <3>1. PICK e \in BOOLEAN : world' \in {Fd!SetErr(world, s, e), Fd!Release(Fd!SetErr(world, s, e), s)}
      BY <2>15 DEF Fd!Listen
    <3>2. PICK y : y = Fd!SetErr(world, s, e)
      OBVIOUS
    <3>3. SoundWorld(y, looped) /\ y.fd = world.fd /\ y.own = world.own
      BY <2>1, <3>2, SetErrKeeps
    <3>4. SoundWorld(world', looped) /\ Same(y, world', {s})
      <4>1. CASE world' = y
        BY <3>3, <4>1 DEF Same
      <4>2. CASE world' = Fd!Release(y, s)
        BY <2>1, <3>3, <4>2, ReleaseKeeps
      <4> QED BY <3>1, <3>2, <4>1, <4>2
    <3>5. Same(world, world', {s}) /\ {s} \cap loop = {} /\ Fd!Plain
      BY <2>15, <3>3, <3>4 DEF Same, Fd!Listen, Fd!Alone
    <3> QED BY <1>3, <2>1, <3>4, <3>5, PlainKeeps
  <2>16. ASSUME NEW s \in Sockets, NEW p \in Sockets, Fd!Accept(s, p) PROVE FdInv'
    <3>1. PICK w \in Fd!TrySocket(world, p) : world' = Fd!SetErr(w, s, w.err[p])
      BY <2>16 DEF Fd!Accept
    <3>2. world.own[p] = 0
      BY <2>1, <2>2, <2>16 DEF Fd!Accept
    <3>3. SoundWorld(w, looped) /\ Same(world, w, {p})
      BY <2>1, <3>2, TrySocketKeeps
    <3>4. SoundWorld(world', looped) /\ world'.fd = w.fd /\ world'.own = w.own
      BY <3>1, <3>3, SetErrKeeps
    <3>5. Same(world, world', {p}) /\ {p} \cap loop = {} /\ Fd!Plain
      BY <2>16, <3>3, <3>4 DEF Same, Fd!Accept, Fd!Alone
    <3> QED BY <1>3, <2>1, <3>4, <3>5, PlainKeeps
  <2>17. ASSUME NEW s \in Sockets, Fd!AcceptFunc(s) PROVE FdInv'
    <3>1. PICK w \in Fd!TryOpen(world, App) :
             world' \in {Fd!SetErr(w, s, FALSE), Fd!SetErr(Fd!Release(w, App), s, TRUE)}
      BY <2>17 DEF Fd!AcceptFunc
    <3>2. world.own[App] = 0
      BY <2>1, <2>2, <2>17 DEF Fd!AcceptFunc
    <3>3. SoundWorld(w, looped) /\ Same(world, w, {App})
      BY <2>1, <3>2, TryOpenKeeps
    <3>4. PICK y : y = Fd!Release(w, App)
      OBVIOUS
    <3>5. SoundWorld(y, looped) /\ Same(w, y, {App})
      BY <2>1, <3>3, <3>4, ReleaseKeeps
    <3>6. PICK x \in {w, y} : SoundWorld(world', looped) /\ world'.fd = x.fd /\ world'.own = x.own
      <4>1. CASE world' = Fd!SetErr(w, s, FALSE)
        <5>1. SoundWorld(world', looped) /\ world'.fd = w.fd /\ world'.own = w.own
          BY <3>3, <4>1, SetErrKeeps
        <5> QED BY <5>1
      <4>2. CASE world' = Fd!SetErr(y, s, TRUE)
        <5>1. SoundWorld(world', looped) /\ world'.fd = y.fd /\ world'.own = y.own
          BY <3>5, <4>2, SetErrKeeps
        <5> QED BY <5>1
      <4> QED BY <3>1, <3>4, <4>1, <4>2
    <3>7. Same(world, world', {App}) /\ {App} \cap loop = {} /\ Fd!Plain
      <4>1. {App} \cap loop = {} /\ Fd!Plain
        BY <2>1, <2>17 DEF Fd!AcceptFunc
      <4>2. Same(world, w, {App}) /\ Same(world, y, {App})
        BY <3>3, <3>5 DEF Same
      <4> QED BY <3>6, <4>1, <4>2 DEF Same
    <3> QED BY <1>3, <2>1, <3>6, <3>7, PlainKeeps
  <2>18. ASSUME NEW s \in Sockets, Fd!ListBegin(s) PROVE FdInv'
    <3>1. SoundWorld(world', looped) /\ Same(world, world', {s}) /\ world'.own[s] = 0
      BY <2>1, <2>18, ReleaseKeeps DEF Fd!ListBegin
    <3>2. loop' = loop \cup {s} /\ looped' = looped
      BY <2>18 DEF Fd!ListBegin
    <3>3. ASSUME NEW t \in loop' PROVE world'.own[t] \in looped' \cup {0}
      BY <2>1, <3>1, <3>2, <3>3 DEF Same
    <3> QED BY <2>1, <3>1, <3>2, <3>3 DEF FdInv, FdSound
  <2>19. ASSUME NEW s \in Sockets, Fd!ListTurn(s) PROVE FdInv'
    <3>1. PICK w \in Fd!TrySocket(world, s) :
             /\ world' \in {w} \cup {Fd!Release(Fd!SetErr(w, s, e), s) : e \in BOOLEAN}
             /\ looped' = looped \cup ({w.own[s]} \ {0})
      BY <2>19 DEF Fd!ListTurn, Fd!Free
    <3>2. SoundWorld(w, looped) /\ Same(world, w, {s}) /\ s \in loop /\ loop' = loop
      BY <2>1, <2>19, TrySocketKeeps DEF Fd!ListTurn
    <3>3. SoundWorld(w, looped')
      BY <3>1, <3>2 DEF SoundWorld, Sound
    <3>4. SoundWorld(world', looped') /\ Same(w, world', {s}) /\ world'.own[s] \in {w.own[s], 0}
      <4>1. CASE world' = w
        BY <3>3, <4>1 DEF Same
      <4>2. ASSUME NEW e \in BOOLEAN, world' = Fd!Release(Fd!SetErr(w, s, e), s)
            PROVE  SoundWorld(world', looped') /\ Same(w, world', {s}) /\ world'.own[s] \in {w.own[s], 0}
        <5>1. PICK y : y = Fd!SetErr(w, s, e)
          OBVIOUS
        <5>2. SoundWorld(y, looped') /\ y.fd = w.fd /\ y.own = w.own
          BY <3>3, <5>1, SetErrKeeps
        <5>3. world' = Fd!Release(y, s)
          BY <4>2, <5>1
        <5>4. SoundWorld(world', looped') /\ Same(y, world', {s}) /\ world'.own[s] = 0
          BY <2>1, <5>2, <5>3, ReleaseKeeps
        <5>5. Same(w, world', {s})
          BY <5>2, <5>4 DEF Same
        <5> QED BY <5>4, <5>5
      <4> QED BY <3>1, <4>1, <4>2
    <3>5. ASSUME NEW t \in loop' PROVE world'.own[t] \in looped' \cup {0}
      BY <2>1, <3>1, <3>2, <3>4, <3>5 DEF Same
    <3> QED BY <2>1, <3>2, <3>4, <3>5 DEF FdInv, FdSound
  <2> QED BY <1>3, <2>3, <2>4, <2>5, <2>6, <2>7, <2>8, <2>9, <2>10, <2>11, <2>12, <2>13, <2>14, <2>15, <2>16,
             <2>17, <2>18, <2>19 DEF Fd!FdNext
<1> QED BY <1>1, <1>2, <1>3

-----------------------------------------------------------------------------
(* pager_file. *)

PageData == PageValues \cup {0, Torn}

PagerTypes ==
    /\ cells \in Seq(PageData)
    /\ access_ \in [Handles -> {"none", "rd", "rw", "wr"}]
    /\ header_ \in [Handles -> SUBSET PageData]
    /\ lastPut \in [0..MaxPage -> PageData] /\ lastHeader \in PageData
    /\ astray \in BOOLEAN /\ rivals \in BOOLEAN /\ unsaved \in BOOLEAN
    /\ \A h \in Handles : access_[h] = "rw" => header_[h] # {}

\* Pages behind the end of the file count as zero, which is what they will hold
\* when the file grows over them.
PagesHeld ==
    ~astray => \A p \in 0..MaxPage : lastPut[p] = IF p + 1 < Len(cells) THEN cells[p + 2] ELSE 0

\* The one handle that may write the header holds the last one set; without one it is
\* in the file, unless it could not be written.
HeaderHeld ==
    ~rivals => /\ \A g, h \in Handles : access_[g] = "rw" /\ access_[h] = "rw" => g = h
               /\ ~astray /\ ~unsaved => \A h \in Handles : access_[h] = "rw" => header_[h] = {lastHeader}
               /\ ~astray /\ ~unsaved /\ (\A h \in Handles : access_[h] # "rw")
                  => lastHeader = IF Len(cells) >= 1 THEN cells[1] ELSE 0

PagerInv == PagerTypes /\ PagesHeld /\ HeaderHeld

LEMMA PagerStarts == ASSUME Paged!PagerFileInit PROVE PagerInv
<1>1. PagerTypes
  <2>1. cells = <<>> /\ lastHeader = 0 /\ astray = FALSE /\ rivals = FALSE /\ unsaved = FALSE
    BY DEF Paged!PagerFileInit
  <2>4. cells \in Seq(PageData)
    BY <2>1
  <2>5. lastHeader \in PageData
    BY <2>1 DEF PageData
  <2>2. lastPut \in [0..MaxPage -> PageData]
    BY DEF Paged!PagerFileInit, PageData, Paged!Pages
  <2>3. /\ access_ \in [Handles -> {"none", "rd", "rw", "wr"}] /\ header_ \in [Handles -> SUBSET PageData]
        /\ \A h \in Handles : access_[h] = "rw" => header_[h] # {}
    BY DEF Paged!PagerFileInit
  <2> QED BY <2>1, <2>2, <2>3, <2>4, <2>5 DEF PagerTypes
<1>2. PagesHeld
  BY DEF Paged!PagerFileInit, PagesHeld, Paged!Pages
<1>3. HeaderHeld
  BY DEF Paged!PagerFileInit, HeaderHeld
<1> QED BY <1>1, <1>2, <1>3 DEF PagerInv

LEMMA PagerImplied == ASSUME Paged!PagerFileAssumption, PagerInv PROVE Paged!PagesKept
<1>1. ASSUME ~astray, NEW p \in Paged!Pages, Paged!PageAt(p) < Len(cells)
      PROVE  cells[Paged!PageAt(p) + 1] = lastPut[p]
  <2>1. p \in 0..MaxPage /\ p \in Nat /\ Paged!PageAt(p) = p + 1 /\ Paged!PageAt(p) + 1 = p + 2
    BY DEF Paged!Pages, Paged!PageAt, Paged!Offset, Paged!PagerFileAssumption
  <2> QED BY <1>1, <2>1 DEF PagerInv, PagesHeld
<1>2. ASSUME ~rivals, ~astray, ~unsaved, \A h \in Handles : access_[h] # "rw", Len(cells) >= 1 PROVE cells[1] = lastHeader
  BY <1>2 DEF PagerInv, HeaderHeld
<1> QED BY <1>1, <1>2 DEF Paged!PagesKept, Paged!Offset

\* The file as pwrite() and ftruncate() leave it.
LEMMA WriteFacts ==
    ASSUME PagerTypes, NEW n \in Nat, NEW v \in PageData
    PROVE  /\ Paged!WriteAt(n, v) \in Seq(PageData)
           /\ Len(Paged!WriteAt(n, v)) = IF n + 1 > Len(cells) THEN n + 1 ELSE Len(cells)
           /\ \A i \in 1..Len(Paged!WriteAt(n, v)) :
                  Paged!WriteAt(n, v)[i] = IF i = n + 1 THEN v ELSE IF i <= Len(cells) THEN cells[i] ELSE 0
<1>1. PICK m \in Nat : m = IF n + 1 > Len(cells) THEN n + 1 ELSE Len(cells)
  BY DEF PagerTypes
<1>2. \A i \in 1..m : (IF i = n + 1 THEN v ELSE IF i <= Len(cells) THEN cells[i] ELSE 0) \in PageData
  BY DEF PagerTypes, PageData
<1>3. PICK f : f = [i \in 1..m |-> IF i = n + 1 THEN v ELSE IF i <= Len(cells) THEN cells[i] ELSE 0]
  OBVIOUS
<1>4. f \in Seq(PageData) /\ Len(f) = m /\ \A i \in 1..m : f[i] = IF i = n + 1 THEN v ELSE IF i <= Len(cells) THEN cells[i] ELSE 0
  BY <1>2, <1>3
<1> QED BY <1>1, <1>3, <1>4 DEF Paged!WriteAt

LEMMA TruncateFacts ==
    ASSUME PagerTypes, NEW m \in Nat
    PROVE  /\ Paged!Truncate(m) \in Seq(PageData) /\ Len(Paged!Truncate(m)) = m
           /\ \A i \in 1..m : Paged!Truncate(m)[i] = IF i <= Len(cells) THEN cells[i] ELSE 0
<1>2. \A i \in 1..m : (IF i <= Len(cells) THEN cells[i] ELSE 0) \in PageData
  BY DEF PagerTypes, PageData
<1>3. PICK f : f = [i \in 1..m |-> IF i <= Len(cells) THEN cells[i] ELSE 0]
  OBVIOUS
<1>4. f \in Seq(PageData) /\ Len(f) = m /\ \A i \in 1..m : f[i] = IF i <= Len(cells) THEN cells[i] ELSE 0
  BY <1>2, <1>3
<1> QED BY <1>3, <1>4 DEF Paged!Truncate

\* What sync() leaves: the pages as they were, and the handle's header.
LEMMA SyncedFacts ==
    ASSUME PagerTypes, NEW h \in Handles
    PROVE  LET c == Paged!Synced(h)
           IN  /\ c \in Seq(PageData)
               /\ \A p \in Nat : (p + 1 < Len(c) <=> p + 1 < Len(cells)) /\ (p + 1 < Len(c) => c[p + 2] = cells[p + 2])
               /\ access_[h] # "rw" => c = cells
               /\ access_[h] = "rw" => Len(c) >= 1 /\ \A v : header_[h] = {v} => c[1] = v
<1>1. CASE access_[h] # "rw"
  BY <1>1 DEF Paged!Synced, PagerTypes
<1>2. CASE access_[h] = "rw"
  <2>1. PICK v : v = CHOOSE x \in header_[h] : TRUE
    OBVIOUS
  <2>2. v \in header_[h] /\ header_[h] \in SUBSET PageData
    BY <1>2, <2>1 DEF PagerTypes
  <2>3. v \in PageData /\ \A x : header_[h] = {x} => v = x
    BY <2>2
  <2>4. PICK c : c = Paged!Synced(h)
    OBVIOUS
  <2>5. c = Paged!WriteAt(0, v)
    BY <1>2, <2>1, <2>4 DEF Paged!Synced, Paged!Position
  <2>6. /\ c \in Seq(PageData) /\ Len(c) = IF 1 > Len(cells) THEN 1 ELSE Len(cells)
        /\ \A i \in 1..Len(c) : c[i] = IF i = 1 THEN v ELSE IF i <= Len(cells) THEN cells[i] ELSE 0
    <3>1. PICK z \in Nat : z = 0
      OBVIOUS
    <3>2. c = Paged!WriteAt(z, v)
      BY <2>5, <3>1
    <3>3. /\ c \in Seq(PageData) /\ Len(c) = IF z + 1 > Len(cells) THEN z + 1 ELSE Len(cells)
          /\ \A i \in 1..Len(c) : c[i] = IF i = z + 1 THEN v ELSE IF i <= Len(cells) THEN cells[i] ELSE 0
      BY <2>3, <3>2, WriteFacts
    <3>4. z + 1 = 1
      BY <3>1
    <3> QED BY <3>3, <3>4
  <2>7. PICK m \in Nat : m = Len(cells)
    BY DEF PagerTypes
  <2>8. ASSUME NEW p \in Nat PROVE (p + 1 < Len(c) <=> p + 1 < Len(cells)) /\ (p + 1 < Len(c) => c[p + 2] = cells[p + 2])
    BY <2>6, <2>7
  <2>9. Len(c) >= 1 /\ c[1] = v
    BY <2>6, <2>7
  <2> QED BY <1>2, <2>3, <2>4, <2>6, <2>8, <2>9
<1> QED BY <1>1, <1>2

\* Calls that leave the file and the headers alone.
LEMMA PagerFrame ==
    ASSUME PagerInv, UNCHANGED <<cells, access_, header_, lastPut, lastHeader, astray, rivals, unsaved>> PROVE PagerInv'
  BY DEF PagerInv, PagerTypes, PagesHeld, HeaderHeld

LEMMA PagerOpenKeeps ==
    ASSUME PagerInv, NEW h \in Handles, NEW how \in {"shared", "exclusive", "append", "create"}, Paged!Open(h, how)
    PROVE  PagerInv'
<1>1. UNCHANGED <<cells, lastPut, lastHeader, astray, unsaved>> /\ access_[h] = "none"
  BY DEF Paged!Open
<1>2. PICK acc \in {"none", "rd", "rw", "wr"} :
         /\ access_' = [access_ EXCEPT ![h] = acc]
         /\ header_' = [header_ EXCEPT ![h] = IF acc \in {"none", "wr"} THEN {} ELSE IF Len(cells) < 1 THEN {0} ELSE {cells[1]}]
         /\ rivals' = (rivals \/ (acc = "rw" /\ \E g \in Handles : access_[g] = "rw"))
  <2>1. PICK o \in BOOLEAN, acc \in {"rd", "rw", "wr"} :
         /\ access_' = [access_ EXCEPT ![h] = IF o THEN acc ELSE "none"]
         /\ header_' = [header_ EXCEPT ![h] =
                IF ~o \/ acc = "wr" THEN {} ELSE IF Len(cells) < Paged!Offset THEN {0} ELSE {cells[1]}]
         /\ rivals' = (rivals \/ (o /\ acc = "rw" /\ \E g \in Handles : access_[g] = "rw"))
    <3>1. CASE how = "shared"
      BY <3>1 DEF Paged!Open
    <3>2. CASE how = "exclusive"
      BY <3>2 DEF Paged!Open
    <3>3. CASE how = "append"
      BY <3>3 DEF Paged!Open
    <3>4. CASE how = "create"
      BY <3>4 DEF Paged!Open
    <3> QED BY <3>1, <3>2, <3>3, <3>4
  <2>2. CASE o
    BY <2>1, <2>2 DEF Paged!Offset
  <2>3. CASE ~o
    BY <2>1, <2>3 DEF Paged!Offset
  <2> QED BY <2>2, <2>3
<1>3. Len(cells) \in Nat /\ (~(Len(cells) < 1) => cells[1] \in PageData) /\ 0 \in PageData
  BY DEF PagerInv, PagerTypes, PageData
<1>4. PagerTypes'
  BY <1>1, <1>2, <1>3 DEF PagerInv, PagerTypes
<1>5. PagesHeld'
  BY <1>1 DEF PagerInv, PagesHeld
<1>6. ASSUME ~rivals' PROVE HeaderHeld'
  <2>1. ~rivals /\ (acc = "rw" => \A g \in Handles : access_[g] # "rw")
    BY <1>2, <1>6
  <2>2. \A g \in Handles : /\ access_'[g] = IF g = h THEN acc ELSE access_[g]
                           /\ g # h => header_'[g] = header_[g]
    BY <1>2 DEF PagerInv, PagerTypes
  <2>3. CASE acc # "rw"
    BY <1>1, <2>1, <2>2, <2>3 DEF PagerInv, HeaderHeld
  <2>4. CASE acc = "rw"
    <3>1. ~astray /\ ~unsaved => lastHeader = IF Len(cells) >= 1 THEN cells[1] ELSE 0
      BY <2>1, <2>4 DEF PagerInv, HeaderHeld
    <3>2. header_'[h] = IF Len(cells) < 1 THEN {0} ELSE {cells[1]}
      BY <1>2, <2>4 DEF PagerInv, PagerTypes
    <3> QED BY <1>1, <1>3, <2>1, <2>2, <2>4, <3>1, <3>2 DEF PagerInv, HeaderHeld
  <2> QED BY <2>3, <2>4
<1> QED BY <1>4, <1>5, <1>6 DEF PagerInv, HeaderHeld

LEMMA WritePageKeeps ==
    ASSUME Paged!PagerFileAssumption, PagerInv, NEW p \in Paged!Pages, NEW n \in Nat, NEW v \in PageData, NEW u \in PageData,
           cells' = Paged!WriteAt(n, v), lastPut' = [lastPut EXCEPT ![p] = u], astray' \in BOOLEAN,
           astray \/ u # v \/ n # Paged!PageAt(p) => astray',
           UNCHANGED <<access_, header_, lastHeader, rivals, unsaved>>
    PROVE  PagerInv'
<1>1. p \in 0..MaxPage /\ p \in Nat /\ Paged!PageAt(p) = p + 1
  BY DEF Paged!Pages, Paged!PageAt, Paged!Offset, Paged!PagerFileAssumption
<1>3. lastPut' = [lastPut EXCEPT ![p] = u]
  OBVIOUS
<1>4. /\ cells' \in Seq(PageData) /\ Len(cells') = IF n + 1 > Len(cells) THEN n + 1 ELSE Len(cells)
      /\ \A i \in 1..Len(cells') : cells'[i] = IF i = n + 1 THEN v ELSE IF i <= Len(cells) THEN cells[i] ELSE 0
  BY <1>1, WriteFacts DEF PagerInv
<1>5. PICK m \in Nat : m = Len(cells)
  BY DEF PagerInv, PagerTypes
<1>6. PagerTypes'
  BY <1>1, <1>3, <1>4 DEF PagerInv, PagerTypes
<1>7. ASSUME ~astray' PROVE ~astray /\ n = p + 1 /\ u = v
  BY <1>1, <1>7
<1>8. ASSUME ~astray', NEW q \in 0..MaxPage
      PROVE  lastPut'[q] = IF q + 1 < Len(cells') THEN cells'[q + 2] ELSE 0
  <2>1. q \in Nat /\ lastPut[q] = IF q + 1 < m THEN cells[q + 2] ELSE 0
    BY <1>5, <1>7, <1>8 DEF PagerInv, PagesHeld, Paged!PagerFileAssumption
  <2>2. lastPut'[q] = IF q = p THEN v ELSE lastPut[q]
    BY <1>3, <1>7, <1>8 DEF PagerInv, PagerTypes
  <2>3. q + 1 < Len(cells') => cells'[q + 2] = IF q + 2 = p + 2 THEN v ELSE IF q + 2 <= m THEN cells[q + 2] ELSE 0
    <3>1. ASSUME q + 1 < Len(cells') PROVE q + 2 \in 1..Len(cells') /\ n + 1 = p + 2
      BY <1>1, <1>4, <1>5, <1>7, <1>8, <2>1, <3>1
    <3> QED BY <1>4, <1>5, <3>1
  <2>4. Len(cells') = IF p + 2 > m THEN p + 2 ELSE m
    BY <1>1, <1>4, <1>5, <1>7, <1>8
  <2> QED BY <1>1, <1>5, <2>1, <2>2, <2>3, <2>4
<1>9. ASSUME ~astray' PROVE Len(cells') >= 1 /\ cells'[1] = IF m >= 1 THEN cells[1] ELSE 0
  <2>1. n = p + 1 /\ 1 # n + 1
    BY <1>1, <1>7, <1>9
  <2>2. 1 \in 1..Len(cells')
    BY <1>1, <1>4, <1>5, <2>1
  <2>3. cells'[1] = IF 1 = n + 1 THEN v ELSE IF 1 <= Len(cells) THEN cells[1] ELSE 0
    BY <1>4, <2>2
  <2> QED BY <1>5, <2>1, <2>2, <2>3
<1>10. PagesHeld'
  BY <1>8 DEF PagesHeld
<1>11. HeaderHeld'
  BY <1>3, <1>5, <1>7, <1>9 DEF PagerInv, HeaderHeld
<1> QED BY <1>6, <1>10, <1>11 DEF PagerInv

LEMMA PagePutKeeps ==
    ASSUME Paged!PagerFileAssumption, PagerInv, NEW h \in Handles, NEW p \in Paged!Pages,
           (\E v \in PageValues : Paged!PutPage(h, p, v)) \/ Paged!PutFails(h, p)
    PROVE  PagerInv'
<1>1. p \in Nat /\ Paged!PageAt(p) \in Nat
  BY DEF Paged!Pages, Paged!PageAt, Paged!Offset, Paged!PagerFileAssumption
<1>2. PICK n \in Nat : n = Paged!Position(h, Paged!PageAt(p))
  BY <1>1 DEF Paged!Position, PagerInv, PagerTypes
<1>3. Torn \in PageData /\ PageValues \subseteq PageData
  BY DEF PageData
<1>4. ASSUME NEW v \in PageValues, Paged!PutPage(h, p, v) PROVE PagerInv'
  <2>1. PICK ragged \in BOOLEAN :
            /\ cells' = Paged!WriteAt(n, IF ragged THEN Torn ELSE v)
            /\ astray' = (astray \/ ragged \/ n # Paged!PageAt(p))
    BY <1>2, <1>4 DEF Paged!PutPage
  <2>2. PICK w \in PageData : w = IF ragged THEN Torn ELSE v
    BY <1>3
  <2>3. /\ cells' = Paged!WriteAt(n, w) /\ lastPut' = [lastPut EXCEPT ![p] = v]
        /\ UNCHANGED <<access_, header_, lastHeader, rivals, unsaved>>
    BY <1>4, <2>1, <2>2 DEF Paged!PutPage
  <2>4. astray' \in BOOLEAN /\ (astray \/ v # w \/ n # Paged!PageAt(p) => astray')
    BY <2>1, <2>2 DEF PagerInv, PagerTypes
  <2> QED BY <1>3, <2>3, <2>4, WritePageKeeps
<1>5. CASE Paged!PutFails(h, p)
  <2>1. UNCHANGED <<access_, header_, lastHeader, rivals, unsaved>>
    BY <1>5 DEF Paged!PutFails
  <2>2. CASE UNCHANGED <<cells, lastPut, astray>>
    BY <2>1, <2>2, PagerFrame
  <2>3. CASE /\ cells' = Paged!WriteAt(n, Torn) /\ lastPut' = [lastPut EXCEPT ![p] = Torn]
             /\ astray' = (astray \/ n # Paged!PageAt(p))
    <3>1. astray' \in BOOLEAN /\ (astray \/ Torn # Torn \/ n # Paged!PageAt(p) => astray')
      BY <2>3 DEF PagerInv, PagerTypes
    <3> QED BY <1>3, <2>1, <2>3, <3>1, WritePageKeeps
  <2> QED BY <1>2, <1>5, <2>2, <2>3 DEF Paged!PutFails
<1> QED BY <1>4, <1>5

LEMMA ResizeKeeps ==
    ASSUME Paged!PagerFileAssumption, PagerInv, NEW h \in Handles, NEW n \in Paged!Pages, Paged!Resize(h, n)
    PROVE  PagerInv'
<1>1. n \in Nat /\ Paged!PageAt(n) = n + 1
  BY DEF Paged!Pages, Paged!PageAt, Paged!Offset, Paged!PagerFileAssumption
<1>2. /\ cells' = Paged!Truncate(n + 1)
      /\ lastPut' = [p \in 0..MaxPage |-> IF p < n THEN lastPut[p] ELSE 0]
      /\ UNCHANGED <<access_, header_, lastHeader, astray, rivals, unsaved>>
  BY <1>1 DEF Paged!Resize, Paged!Pages
<1>3. /\ cells' \in Seq(PageData) /\ Len(cells') = n + 1
      /\ \A i \in 1..n + 1 : cells'[i] = IF i <= Len(cells) THEN cells[i] ELSE 0
  <2>1. PICK k \in Nat : k = n + 1
    BY <1>1
  <2>2. cells' = Paged!Truncate(k)
    BY <1>2, <2>1
  <2> QED BY <2>1, <2>2, TruncateFacts DEF PagerInv
<1>4. PICK m \in Nat : m = Len(cells)
  BY DEF PagerInv, PagerTypes
<1>5. PagerTypes'
  BY <1>2, <1>3 DEF PagerInv, PagerTypes, PageData
<1>6. ASSUME ~astray, NEW q \in 0..MaxPage
      PROVE  lastPut'[q] = IF q + 1 < Len(cells') THEN cells'[q + 2] ELSE 0
  <2>1. q \in Nat /\ lastPut[q] = IF q + 1 < m THEN cells[q + 2] ELSE 0
    BY <1>4, <1>6 DEF PagerInv, PagesHeld, Paged!PagerFileAssumption
  <2>2. lastPut'[q] = IF q < n THEN lastPut[q] ELSE 0
    BY <1>2
  <2>3. q < n => cells'[q + 2] = IF q + 2 <= m THEN cells[q + 2] ELSE 0
    BY <1>1, <1>3, <1>4, <2>1
  <2> QED BY <1>1, <1>3, <1>4, <2>1, <2>2, <2>3
<1>7. Len(cells') >= 1 /\ cells'[1] = IF m >= 1 THEN cells[1] ELSE 0
  BY <1>1, <1>3, <1>4
<1>8. PagesHeld'
  BY <1>2, <1>6 DEF PagesHeld
<1>9. HeaderHeld'
  BY <1>2, <1>4, <1>7 DEF PagerInv, HeaderHeld
<1> QED BY <1>5, <1>8, <1>9 DEF PagerInv

\* A header that could not be written is in no page, and is missed only once the
\* handle is gone.
LEMMA SyncKeeps ==
    ASSUME Paged!PagerFileAssumption, PagerInv, NEW h \in Handles,
           Paged!Sync(h) \/ Paged!SyncFails(h) \/ Paged!Destroy(h) PROVE PagerInv'
<1>1. /\ UNCHANGED <<lastPut, lastHeader, astray, rivals>>
      /\ \/ UNCHANGED <<access_, header_, unsaved>> /\ (cells' = Paged!Synced(h) \/ cells' \in Paged!SyncCut(h))
         \/ /\ access_' = [access_ EXCEPT ![h] = "none"] /\ header_' = [header_ EXCEPT ![h] = {}]
            /\ \/ cells' = Paged!Synced(h) /\ unsaved' = unsaved
               \/ cells' \in Paged!SyncCut(h) /\ unsaved' = TRUE
  BY DEF Paged!Sync, Paged!SyncFails, Paged!Destroy
<1>2. ASSUME cells' = Paged!Synced(h)
      PROVE  /\ cells' \in Seq(PageData)
             /\ \A p \in Nat : (p + 1 < Len(cells') <=> p + 1 < Len(cells)) /\ (p + 1 < Len(cells') => cells'[p + 2] = cells[p + 2])
             /\ access_[h] # "rw" => cells' = cells
             /\ access_[h] = "rw" => Len(cells') >= 1 /\ \A v : header_[h] = {v} => cells'[1] = v
  BY <1>2, SyncedFacts DEF PagerInv
<1>3. ASSUME cells' \in Paged!SyncCut(h)
      PROVE  /\ cells' \in Seq(PageData) /\ access_[h] = "rw"
             /\ \A p \in Nat : (p + 1 < Len(cells') <=> p + 1 < Len(cells)) /\ (p + 1 < Len(cells') => cells'[p + 2] = cells[p + 2])
  <2>1. access_[h] = "rw" /\ (cells' = cells \/ cells' = Paged!WriteAt(0, Torn))
    BY <1>3 DEF Paged!SyncCut
  <2>2. CASE cells' = cells
    BY <2>1, <2>2 DEF PagerInv, PagerTypes
  <2>3. CASE cells' = Paged!WriteAt(0, Torn)
    <3>1. PICK z \in Nat : z = 0
      OBVIOUS
    <3>2. cells' = Paged!WriteAt(z, Torn) /\ Torn \in PageData
      BY <2>3, <3>1 DEF PageData
    <3>3. /\ cells' \in Seq(PageData) /\ Len(cells') = IF z + 1 > Len(cells) THEN z + 1 ELSE Len(cells)
          /\ \A i \in 1..Len(cells') : cells'[i] = IF i = z + 1 THEN Torn ELSE IF i <= Len(cells) THEN cells[i] ELSE 0
      BY <3>2, WriteFacts DEF PagerInv
    <3>4. PICK m \in Nat : m = Len(cells)
      BY DEF PagerInv, PagerTypes
    <3>5. ASSUME NEW p \in Nat
          PROVE  (p + 1 < Len(cells') <=> p + 1 < Len(cells)) /\ (p + 1 < Len(cells') => cells'[p + 2] = cells[p + 2])
      BY <3>1, <3>3, <3>4
    <3> QED BY <2>1, <3>3, <3>5
  <2> QED BY <2>1, <2>2, <2>3
<1>4. PagerTypes'
  BY <1>1, <1>2, <1>3 DEF PagerInv, PagerTypes
<1>5. PagesHeld'
  <2>1. \A p \in 0..MaxPage : p \in Nat
    BY DEF Paged!PagerFileAssumption
  <2>2. \A p \in Nat : (p + 1 < Len(cells') <=> p + 1 < Len(cells)) /\ (p + 1 < Len(cells') => cells'[p + 2] = cells[p + 2])
    BY <1>1, <1>2, <1>3
  <2> QED BY <1>1, <2>1, <2>2 DEF PagerInv, PagesHeld
<1>6. ASSUME ~rivals PROVE HeaderHeld'
  <2>1. CASE UNCHANGED <<access_, header_, unsaved>>
    <3>1. CASE access_[h] = "rw"
      BY <1>1, <1>6, <2>1, <3>1 DEF PagerInv, HeaderHeld
    <3>2. CASE access_[h] # "rw"
      <4>1. cells' = cells
        BY <1>1, <1>2, <1>3, <3>2
      <4> QED BY <1>1, <1>6, <2>1, <4>1 DEF PagerInv, HeaderHeld
    <3> QED BY <3>1, <3>2
  <2>2. CASE /\ access_' = [access_ EXCEPT ![h] = "none"] /\ header_' = [header_ EXCEPT ![h] = {}]
             /\ \/ cells' = Paged!Synced(h) /\ unsaved' = unsaved
                \/ cells' \in Paged!SyncCut(h) /\ unsaved' = TRUE
    <3>1. \A g \in Handles : access_'[g] = (IF g = h THEN "none" ELSE access_[g]) /\ (g # h => header_'[g] = header_[g])
      BY <2>2 DEF PagerInv, PagerTypes
    <3>2. \A g, k \in Handles : access_'[g] = "rw" /\ access_'[k] = "rw" => g = k
      BY <1>6, <3>1 DEF PagerInv, HeaderHeld
    <3>3. CASE unsaved' = TRUE
      BY <3>2, <3>3 DEF HeaderHeld
    <3>4. CASE cells' = Paged!Synced(h) /\ unsaved' = unsaved
      <4>1. CASE access_[h] = "rw"
        BY <1>1, <1>2, <1>6, <3>1, <3>4, <4>1 DEF PagerInv, HeaderHeld
      <4>2. CASE access_[h] # "rw"
        BY <1>1, <1>2, <1>6, <3>1, <3>4, <4>2 DEF PagerInv, HeaderHeld
      <4> QED BY <4>1, <4>2
    <3> QED BY <2>2, <3>3, <3>4
  <2> QED BY <1>1, <2>1, <2>2
<1> QED BY <1>1, <1>4, <1>5, <1>6 DEF PagerInv, HeaderHeld

LEMMA PagerStep ==
    ASSUME Paged!PagerFileAssumption, PagerInv, [Paged!PagerFileNext]_(Paged!pagerFileVars) PROVE PagerInv'
<1>1. CASE UNCHANGED Paged!pagerFileVars
  BY <1>1, PagerFrame DEF Paged!pagerFileVars
<1>2. ASSUME NEW h \in Handles, NEW how \in {"shared", "exclusive", "append", "create"}, Paged!Open(h, how)
      PROVE  PagerInv'
  BY <1>2, PagerOpenKeeps
<1>3. ASSUME NEW h \in Handles, NEW p \in Paged!Pages,
             (\E v \in PageValues : Paged!PutPage(h, p, v)) \/ Paged!PutFails(h, p) PROVE PagerInv'
  BY <1>3, PagePutKeeps
<1>4. ASSUME NEW h \in Handles, NEW n \in Paged!Pages, Paged!Resize(h, n) PROVE PagerInv'
  BY <1>4, ResizeKeeps
<1>5. ASSUME NEW h \in Handles, Paged!Sync(h) \/ Paged!SyncFails(h) \/ Paged!Destroy(h) PROVE PagerInv'
  BY <1>5, SyncKeeps
<1>6. ASSUME NEW h \in Handles, NEW p \in Paged!Pages, Paged!GetPage(h, p) PROVE PagerInv'
  BY <1>6, PagerFrame DEF Paged!GetPage
<1>7. ASSUME NEW h \in Handles, Paged!UseFailed(h) \/ Paged!TakeErr(h) \/ Paged!Rewind(h) \/ Paged!ResizeFails(h)
      PROVE  PagerInv'
  BY <1>7, PagerFrame DEF Paged!UseFailed, Paged!TakeErr, Paged!Rewind, Paged!ResizeFails
<1>8. ASSUME NEW h \in Handles, NEW v \in PageValues, Paged!SetHeader(h, v) PROVE PagerInv'
  <2>1. /\ header_[h] # {} /\ header_' = [header_ EXCEPT ![h] = {v}]
        /\ IF access_[h] = "rw" THEN lastHeader' = v /\ unsaved' = FALSE ELSE UNCHANGED <<lastHeader, unsaved>>
        /\ UNCHANGED <<cells, access_, lastPut, astray, rivals>>
    BY <1>8 DEF Paged!SetHeader
  <2>2. PagerTypes' /\ PagesHeld'
    BY <2>1 DEF PagerInv, PagerTypes, PagesHeld, PageData
  <2>3. HeaderHeld'
    <3>1. \A g \in Handles : header_'[g] = IF g = h THEN {v} ELSE header_[g]
      BY <2>1 DEF PagerInv, PagerTypes
    <3>2. CASE access_[h] = "rw"
      BY <2>1, <3>1, <3>2 DEF PagerInv, HeaderHeld
    <3>3. CASE access_[h] # "rw"
      BY <2>1, <3>1, <3>3 DEF PagerInv, HeaderHeld
    <3> QED BY <3>2, <3>3
  <2> QED BY <2>2, <2>3 DEF PagerInv
<1> QED BY <1>1, <1>2, <1>3, <1>4, <1>5, <1>6, <1>7, <1>8 DEF Paged!PagerFileNext

-----------------------------------------------------------------------------
(* keyfile. *)

KeySections == Sections \cup {"_"}
Cells == KeySections \X Keys \X Key!Values
Lines == [kind : {"section"}, name : KeySections] \cup [kind : {"key"}, name : Keys, value : Key!Values]

\* The headers above line i of a file f, and the section that line is in.
Above(f, i) == {j \in 1..(i - 1) : f[j].kind = "section"}
Latest(S) == CHOOSE j \in S : \A n \in S : n <= j
Sec(f, i) == IF Above(f, i) = {} THEN "_" ELSE f[Latest(Above(f, i))].name

\* No key is twice in one section.
Functional(D) == \A e, g \in D : e[1] = g[1] /\ e[2] = g[2] => e = g

\* Line i is that of entry e, cut off perhaps when e is in C.
StandsFor(f, i, e, C) ==
    /\ f[i].kind = "key" /\ Sec(f, i) = e[1] /\ f[i].name = e[2]
    /\ f[i].value = Key!Trim(e[3]) \/ (e \in C /\ f[i].value \in Key!Cuts(e[3]))

\* The key lines of f are those of the entries D, one each.
Recorded(f, D, C) ==
    /\ \A i \in 1..Len(f) : f[i].kind = "key" => \E e \in D : StandsFor(f, i, e, C)
    /\ \A e \in D : \E i \in 1..Len(f) : StandsFor(f, i, e, C)
    /\ \A i, j \in 1..Len(f) :
           (f[i].kind = "key" /\ f[j].kind = "key" /\ Sec(f, i) = Sec(f, j) /\ f[i].name = f[j].name)
           => i = j

KeyTypes ==
    /\ made \in 1..MaxData /\ ptr_ \in [Handles -> 0..MaxData]
    /\ entries \in [1..MaxData -> SUBSET Cells]
    /\ file \in Seq(Lines) /\ writer \in 0..MaxData
    /\ whole \in BOOLEAN /\ broken \in BOOLEAN /\ (writer # 0 => ~whole) /\ (writer # 0 /\ broken => pending # {})
    /\ wanted \subseteq Cells /\ pending \subseteq wanted
    /\ Functional(wanted) /\ \A d \in 1..MaxData : Functional(entries[d])

\* While write() runs the file holds what is no longer pending, each line in the
\* section of its entry; what a failed or interrupted one leaves is part of that,
\* and the line of one entry more that may be cut off.
Saving(D, C) ==
    /\ Recorded(file, D, C) /\ \A x, y \in C : x = y
    /\ ~broken => C = {}
    /\ (writer # 0 /\ ~broken) => D = wanted \ pending /\ section = Sec(file, Len(file) + 1)
    /\ whole => D = wanted /\ C = {}

FileInv == Key!OneLine(wanted) => \E D \in SUBSET wanted, C \in SUBSET wanted : Saving(D, C)

KeyInv == KeyTypes /\ FileInv

LEMMA LatestIn ==
    ASSUME NEW n \in Nat, NEW S, S \subseteq 1..n, S # {}
    PROVE  Latest(S) \in S /\ \A j \in S : j <= Latest(S)
<1> DEFINE R == OpToRel(<, Nat)
           T == {n - j : j \in S}
<1>1. IsWellFoundedOn(R, Nat)
  BY NatLessThanWellFounded, Zenon
<1>2. \A x, y \in Nat : <<y, x>> \in R <=> y < x
  BY DEF OpToRel
<1>3. T \subseteq Nat /\ T # {} /\ \A j \in S : n - j \in T
  <2>1. \A j \in S : n - j \in Nat
    OBVIOUS
  <2>2. \A j \in S : n - j \in T
    OBVIOUS
  <2> QED BY <2>1, <2>2
<1> HIDE DEF R
<1>4. PICK x \in T : \A y \in T : ~(<<y, x>> \in R)
  <2> HIDE DEF T
  <2> QED BY <1>1, <1>3, WFMin, Zenon
<1>5. PICK m \in S : x = n - m
  BY <1>4
<1>6. ASSUME NEW j \in S PROVE j <= m
  <2>1. ~(n - j < x) /\ n - j \in Nat /\ x \in Nat
    BY <1>2, <1>3, <1>4
  <2> QED BY <1>5, <2>1
<1> QED BY <1>5, <1>6 DEF Latest

\* Appending a line does not move the ones before it to another section.
LEMMA SecAppend ==
    ASSUME NEW f \in Seq(Lines), NEW x \in Lines, NEW i \in 1..Len(f) + 1
    PROVE  Sec(Append(f, x), i) = Sec(f, i)
<1>1. PICK n \in Nat : n = Len(f)
  OBVIOUS
<1>2. \A j \in 1..n : Append(f, x)[j] = f[j]
  BY <1>1
<1>3. Above(f, i) \subseteq 1..n
  BY <1>1 DEF Above
<1>4. Above(Append(f, x), i) = Above(f, i)
  <2>1. \A j \in 1..(i - 1) : Append(f, x)[j] = f[j]
    BY <1>1, <1>2
  <2> QED BY <2>1 DEF Above
<1>5. CASE Above(f, i) = {}
  BY <1>4, <1>5 DEF Sec
<1>6. CASE Above(f, i) # {}
  <2>1. Latest(Above(f, i)) \in 1..n
    BY <1>3, <1>6, LatestIn
  <2> QED BY <1>2, <1>4, <1>6, <2>1 DEF Sec
<1> QED BY <1>5, <1>6

\* What follows a line is in the section that the line begins, or in its own.
LEMMA SecNext ==
    ASSUME NEW f \in Seq(Lines), NEW x \in Lines
    PROVE  Sec(Append(f, x), Len(Append(f, x)) + 1) = IF x.kind = "section" THEN x.name ELSE Sec(f, Len(f) + 1)
<1>1. PICK n \in Nat : n = Len(f)
  OBVIOUS
<1>2. PICK g : g = Append(f, x)
  OBVIOUS
<1>3. g \in Seq(Lines) /\ Len(g) = n + 1 /\ g[n + 1] = x /\ \A j \in 1..n : g[j] = f[j]
  BY <1>1, <1>2
<1>4. CASE x.kind = "section"
  <2>1. n + 1 \in Above(g, n + 2) /\ Above(g, n + 2) \subseteq 1..(n + 1)
    BY <1>3, <1>4 DEF Above
  <2>2. PICK m : m = Latest(Above(g, n + 2))
    OBVIOUS
  <2>3. m \in 1..(n + 1) /\ n + 1 <= m
    <3>1. n + 1 \in Nat /\ Above(g, n + 2) # {}
      BY <2>1
    <3>2. m \in Above(g, n + 2) /\ \A j \in Above(g, n + 2) : j <= m
      BY <2>1, <2>2, <3>1, LatestIn
    <3> QED BY <2>1, <3>2
  <2>4. m = n + 1
    BY <2>3
  <2>5. Sec(g, n + 2) = x.name
    BY <1>3, <2>1, <2>2, <2>4 DEF Sec
  <2>6. Len(g) + 1 = n + 2
    BY <1>3
  <2> QED BY <1>2, <1>4, <2>5, <2>6
<1>5. CASE x.kind # "section"
  <2>1. Above(g, n + 2) = Above(g, n + 1)
    BY <1>3, <1>5 DEF Above
  <2>2. Sec(g, n + 2) = Sec(g, n + 1)
    BY <2>1 DEF Sec
  <2>3. n + 1 \in 1..Len(f) + 1 /\ Len(g) + 1 = n + 2 /\ Len(f) + 1 = n + 1
    BY <1>1, <1>3
  <2>4. Sec(g, n + 1) = Sec(f, n + 1)
    BY <1>2, <2>3, SecAppend
  <2> QED BY <1>2, <1>5, <2>2, <2>3, <2>4
<1> QED BY <1>4, <1>5

LEMMA RecordMore ==
    ASSUME NEW f \in Seq(Lines), NEW D, NEW W, NEW C, Recorded(f, D, {}), D \subseteq W, Functional(W),
           NEW e \in W, e \notin D, NEW x \in Lines,
           x.kind = "key", x.name = e[2], Sec(f, Len(f) + 1) = e[1],
           x.value = Key!Trim(e[3]) \/ (C = {e} /\ x.value \in Key!Cuts(e[3])),
           C \in {{}, {e}}
    PROVE  Recorded(Append(f, x), D \cup {e}, C)
<1>1. PICK n \in Nat : n = Len(f)
  OBVIOUS
<1>2. PICK g : g = Append(f, x)
  OBVIOUS
<1>3. g \in Seq(Lines) /\ Len(g) = n + 1 /\ g[n + 1] = x /\ \A j \in 1..n : g[j] = f[j]
  BY <1>1, <1>2
<1>4. \A i \in 1..n + 1 : Sec(g, i) = Sec(f, i)
  BY <1>1, <1>2, SecAppend
<1>5. n + 1 \in 1..n + 1 /\ \A i \in 1..n + 1 : i \in 1..n \/ i = n + 1
  OBVIOUS
<1>6. \A i \in 1..n : i \in 1..n + 1 /\ i # n + 1
  OBVIOUS
<1>7. Sec(g, n + 1) = e[1]
  BY <1>1, <1>4, <1>5
<1>8. StandsFor(g, n + 1, e, C)
  BY <1>3, <1>7 DEF StandsFor
<1>9. \A i \in 1..n, d \in D : StandsFor(g, i, d, C) <=> StandsFor(f, i, d, {})
  BY <1>3, <1>4, <1>6 DEF StandsFor
<1>10. ASSUME NEW i \in 1..n + 1, g[i].kind = "key" PROVE \E d \in D \cup {e} : StandsFor(g, i, d, C)
  <2>1. CASE i = n + 1
    BY <1>8, <2>1
  <2>2. CASE i \in 1..n
    <3>1. PICK d \in D : StandsFor(f, i, d, {})
      BY <1>1, <1>3, <1>10, <2>2 DEF Recorded
    <3> QED BY <1>9, <2>2, <3>1
  <2> QED BY <1>5, <2>1, <2>2
<1>11. ASSUME NEW d \in D \cup {e} PROVE \E i \in 1..n + 1 : StandsFor(g, i, d, C)
  <2>1. CASE d = e
    BY <1>5, <1>8, <2>1
  <2>2. CASE d \in D
    <3>1. PICK i \in 1..n : StandsFor(f, i, d, {})
      BY <1>1, <2>2 DEF Recorded
    <3> QED BY <1>6, <1>9, <2>2, <3>1
  <2> QED BY <2>1, <2>2
\* The entry's key is in no earlier line of its section.
<1>12. ASSUME NEW i \in 1..n, g[i].kind = "key", Sec(g, i) = e[1], g[i].name = e[2] PROVE FALSE
  <2>1. PICK d \in D : StandsFor(f, i, d, {})
    BY <1>1, <1>3, <1>12 DEF Recorded
  <2>2. d[1] = e[1] /\ d[2] = e[2]
    BY <1>9, <1>12, <2>1 DEF StandsFor
  <2> QED BY <2>2 DEF Functional
<1>13. ASSUME NEW i \in 1..n + 1, NEW j \in 1..n + 1, g[i].kind = "key", g[j].kind = "key",
              Sec(g, i) = Sec(g, j), g[i].name = g[j].name
       PROVE  i = j
  <2>1. CASE i = n + 1 /\ j = n + 1
    BY <2>1
  <2>2. CASE i = n + 1 /\ j \in 1..n
    BY <1>3, <1>7, <1>12, <1>13, <2>2
  <2>3. CASE i \in 1..n /\ j = n + 1
    BY <1>3, <1>7, <1>12, <1>13, <2>3
  <2>4. CASE i \in 1..n /\ j \in 1..n
    BY <1>1, <1>3, <1>4, <1>6, <1>13, <2>4 DEF Recorded
  <2> QED BY <1>5, <2>1, <2>2, <2>3, <2>4
<1>14. Recorded(g, D \cup {e}, C)
  <2>1. 1..Len(g) = 1..n + 1
    BY <1>3
  <2>2. \A i \in 1..Len(g) : g[i].kind = "key" => \E d \in D \cup {e} : StandsFor(g, i, d, C)
    BY <1>10, <2>1
  <2>3. \A d \in D \cup {e} : \E i \in 1..Len(g) : StandsFor(g, i, d, C)
    BY <1>11, <2>1, Zenon
  <2>4. \A i, j \in 1..Len(g) :
            (g[i].kind = "key" /\ g[j].kind = "key" /\ Sec(g, i) = Sec(g, j) /\ g[i].name = g[j].name)
            => i = j
    BY <1>13, <2>1, Zenon
  <2> QED BY <2>2, <2>3, <2>4, Zenon DEF Recorded
<1> QED BY <1>2, <1>14

LEMMA RecordHeader ==
    ASSUME NEW f \in Seq(Lines), NEW D, Recorded(f, D, {}), NEW x \in Lines, x.kind = "section"
    PROVE  Recorded(Append(f, x), D, {})
<1>1. PICK n \in Nat : n = Len(f)
  OBVIOUS
<1>2. PICK g : g = Append(f, x)
  OBVIOUS
<1>3. g \in Seq(Lines) /\ Len(g) = n + 1 /\ g[n + 1] = x /\ \A j \in 1..n : g[j] = f[j]
  BY <1>1, <1>2
<1>4. \A i \in 1..n + 1 : Sec(g, i) = Sec(f, i)
  BY <1>1, <1>2, SecAppend
<1>5. \A i \in 1..n + 1 : g[i].kind = "key" => i \in 1..n
  <2>1. \A i \in 1..n + 1 : i \in 1..n \/ i = n + 1
    OBVIOUS
  <2> QED BY <1>3, <2>1
<1>6. \A i \in 1..n : i \in 1..n + 1
  OBVIOUS
<1>7. \A i \in 1..n, d \in D : StandsFor(g, i, d, {}) <=> StandsFor(f, i, d, {})
  BY <1>3, <1>4, <1>6 DEF StandsFor
<1>8. Recorded(g, D, {})
  <2>1. 1..Len(g) = 1..n + 1
    BY <1>3
  <2>2. ASSUME NEW i \in 1..Len(g), g[i].kind = "key" PROVE \E d \in D : StandsFor(g, i, d, {})
    <3>1. i \in 1..n /\ f[i].kind = "key"
      BY <1>3, <1>5, <2>1, <2>2
    <3>2. PICK d \in D : StandsFor(f, i, d, {})
      BY <1>1, <3>1 DEF Recorded
    <3> QED BY <1>7, <3>1, <3>2
  <2>3. ASSUME NEW d \in D PROVE \E i \in 1..Len(g) : StandsFor(g, i, d, {})
    <3>1. PICK i \in 1..n : StandsFor(f, i, d, {})
      BY <1>1 DEF Recorded
    <3> QED BY <1>6, <1>7, <2>1, <3>1
  <2>4. ASSUME NEW i \in 1..Len(g), NEW j \in 1..Len(g), g[i].kind = "key", g[j].kind = "key",
               Sec(g, i) = Sec(g, j), g[i].name = g[j].name
        PROVE  i = j
    <3>1. i \in 1..n /\ j \in 1..n
      BY <1>5, <2>1, <2>4
    <3> QED BY <1>1, <1>3, <1>4, <1>6, <2>4, <3>1 DEF Recorded
  <2> QED BY <2>2, <2>3, <2>4, Zenon DEF Recorded
<1> QED BY <1>2, <1>8

LEMMA KeyStarts == ASSUME Key!KeyAssumption, Key!KeyInit PROVE KeyInv
<1>1. KeyTypes
  <2>1. made = 1 /\ file = <<>> /\ writer = 0 /\ whole = TRUE /\ broken = FALSE /\ wanted = {} /\ pending = {}
    BY DEF Key!KeyInit
  <2>2. 1 \in 1..MaxData /\ 1 \in 0..MaxData /\ 0 \in 0..MaxData
    BY DEF Key!KeyAssumption
  <2>3. ptr_ \in [Handles -> 0..MaxData] /\ entries \in [1..MaxData -> SUBSET Cells]
    BY <2>2 DEF Key!KeyInit
  <2>4. Functional(wanted) /\ \A d \in 1..MaxData : Functional(entries[d])
    BY <2>1 DEF Key!KeyInit, Functional
  <2>5. file \in Seq(Lines)
    BY <2>1
  <2> QED BY <2>1, <2>2, <2>3, <2>4, <2>5 DEF KeyTypes
<1>2. Recorded(file, {}, {}) /\ wanted = {} /\ writer = 0
  <2>1. Len(file) = 0
    BY DEF Key!KeyInit
  <2>2. \A i \in 1..Len(file) : FALSE
    BY <2>1
  <2> QED BY <2>2 DEF Recorded, Key!KeyInit
<1>3. FileInv
  <2>1. Saving({}, {})
    BY <1>2 DEF Saving
  <2> QED BY <1>2, <2>1 DEF FileInv
<1> QED BY <1>1, <1>3 DEF KeyInv

\* KeyFile's view of its own file.
LEMMA SectionIs == \A i : Key!SectionAt(i) = Sec(file, i)
  BY DEF Key!SectionAt, Sec, Above, Latest

LEMMA TakenIs ==
    ASSUME file \in Seq(Lines)
    PROVE  Key!Taken = {i \in 1..Len(file) : file[i].kind = "key" /\ file[i].name \notin OddKeys}
<1>1. DOMAIN file = 1..Len(file)
  OBVIOUS
<1> QED BY <1>1 DEF Key!Taken

\* Each thing load() finds stands on a key line that no later one overrides.
LEMMA OnFileIs ==
    ASSUME file \in Seq(Lines), NEW x \in Key!OnFile
    PROVE  \E i \in Key!Taken : /\ x = <<Sec(file, i), file[i].name, file[i].value>>
                                /\ \A n \in Key!Taken : n > i => Sec(file, n) # Sec(file, i) \/ file[n].name # file[i].name
<1>1. PICK i \in {j \in Key!Taken : \A n \in Key!Taken :
                     n > j => Key!SectionAt(n) # Key!SectionAt(j) \/ file[n].name # file[j].name} :
            x = <<Key!SectionAt(i), file[i].name, file[i].value>>
  BY Zenon DEF Key!OnFile
<1> QED BY <1>1, SectionIs

LEMMA TrimIn ==
    ASSUME NEW v \in Key!Values
    PROVE  Key!Trim(v) \in Key!Values /\ Key!Cuts(v) \subseteq Key!Values
  BY DEF Key!Trim, Key!Cuts, Key!Values

LEMMA OnFileTypes == ASSUME KeyInv PROVE Key!OnFile \subseteq Cells /\ Functional(Key!OnFile)
<1>1. file \in Seq(Lines)
  BY DEF KeyInv, KeyTypes
<1>2. ASSUME NEW i \in 1..Len(file) + 1 PROVE Sec(file, i) \in KeySections
  <2>1. CASE Above(file, i) = {}
    BY <2>1 DEF Sec, KeySections
  <2>2. CASE Above(file, i) # {}
    <3>1. PICK m : m = Latest(Above(file, i))
      OBVIOUS
    <3>2. m \in Above(file, i) /\ Len(file) \in Nat /\ Above(file, i) \subseteq 1..Len(file)
      <4>1. Len(file) \in Nat /\ Above(file, i) \subseteq 1..Len(file)
        BY <1>1 DEF Above
      <4> QED BY <2>2, <3>1, <4>1, LatestIn
    <3>3. file[m] \in Lines /\ file[m].kind = "section"
      BY <1>1, <3>2 DEF Above
    <3>4. file[m].name \in KeySections
      BY <3>3 DEF Lines
    <3> QED BY <2>2, <3>1, <3>4 DEF Sec
  <2> QED BY <2>1, <2>2
<1>3. Key!OnFile \subseteq Cells
  <2> SUFFICES ASSUME NEW x \in Key!OnFile PROVE x \in Cells
    OBVIOUS
  <2>1. PICK i \in Key!Taken : x = <<Sec(file, i), file[i].name, file[i].value>>
    BY <1>1, OnFileIs
  <2>2. i \in 1..Len(file) /\ file[i].kind = "key" /\ file[i] \in Lines
    BY <1>1, TakenIs
  <2>3. file[i].name \in Keys /\ file[i].value \in Key!Values
    BY <2>2 DEF Lines
  <2>4. i \in 1..Len(file) + 1
    BY <1>1, <2>2
  <2>5. Sec(file, i) \in KeySections
    BY <1>2, <2>4
  <2> QED BY <2>1, <2>3, <2>5 DEF Cells
<1>6. ASSUME NEW x \in Key!OnFile, NEW y \in Key!OnFile, x[1] = y[1], x[2] = y[2] PROVE x = y
  <2>1. PICK i \in Key!Taken : /\ x = <<Sec(file, i), file[i].name, file[i].value>>
                                /\ \A n \in Key!Taken : n > i => Sec(file, n) # Sec(file, i) \/ file[n].name # file[i].name
    BY <1>1, OnFileIs
  <2>2. PICK j \in Key!Taken : /\ y = <<Sec(file, j), file[j].name, file[j].value>>
                                /\ \A n \in Key!Taken : n > j => Sec(file, n) # Sec(file, j) \/ file[n].name # file[j].name
    BY <1>1, OnFileIs
  <2>3. i \in Nat /\ j \in Nat
    BY <1>1, TakenIs
  <2>4. Sec(file, i) = Sec(file, j) /\ file[i].name = file[j].name
    BY <1>6, <2>1, <2>2
  <2>5. ~(i > j) /\ ~(j > i)
    BY <2>1, <2>2, <2>4
  <2>6. i = j
    BY <2>3, <2>5
  <2> QED BY <2>1, <2>2, <2>6
<1> QED BY <1>3, <1>6, Zenon DEF Functional

\* What load() finds is what an entry was written as.
LEMMA OnFileFrom ==
    ASSUME KeyInv, NEW D \in SUBSET wanted, NEW C \in SUBSET wanted, Recorded(file, D, C), NEW x \in Key!OnFile
    PROVE  \E e \in D : /\ e[2] \notin OddKeys /\ e[1] = x[1] /\ e[2] = x[2] /\ x = <<e[1], e[2], x[3]>>
                        /\ x[3] = Key!Trim(e[3]) \/ (e \in C /\ x[3] \in Key!Cuts(e[3]))
<1>1. file \in Seq(Lines)
  BY DEF KeyInv, KeyTypes
<1>2. PICK i \in Key!Taken : x = <<Sec(file, i), file[i].name, file[i].value>>
  BY <1>1, OnFileIs
<1>3. i \in 1..Len(file) /\ file[i].kind = "key" /\ file[i].name \notin OddKeys
  BY <1>1, TakenIs
<1>4. PICK e \in D : StandsFor(file, i, e, C)
  BY <1>3 DEF Recorded
<1> QED BY <1>2, <1>3, <1>4 DEF StandsFor

LEMMA KeyImplied == ASSUME KeyInv PROVE Key!ReadsBack
<1> SUFFICES ASSUME Key!OneLine(wanted)
             PROVE  /\ (whole /\ writer = 0) => Key!OnFile = Key!Readable(wanted)
                    /\ ~broken => Key!OnFile \subseteq Key!Readable(wanted)
                    /\ \A f \in Key!OnFile \ Key!Readable(wanted) :
                           /\ \E e \in wanted : e[1] = f[1] /\ e[2] = f[2] /\ f[3] \in Key!Cuts(e[3])
                           /\ \A g \in Key!OnFile \ Key!Readable(wanted) : f = g
  BY Zenon DEF Key!ReadsBack
<1>1. file \in Seq(Lines) /\ wanted \subseteq Cells
  BY DEF KeyInv, KeyTypes
<1>2. PICK D \in SUBSET wanted, C \in SUBSET wanted : Saving(D, C)
  BY Zenon DEF KeyInv, FileInv
<1>3. /\ Recorded(file, D, C) /\ (~broken => C = {}) /\ (whole => D = wanted /\ C = {})
      /\ \A x, y \in C : x = y
  BY <1>2, Zenon DEF Saving
<1>4. ASSUME NEW x \in Key!OnFile, x \notin Key!Readable(wanted)
      PROVE  \E e \in C : e \in wanted /\ e[1] = x[1] /\ e[2] = x[2] /\ x[3] \in Key!Cuts(e[3])
  <2>1. PICK e \in D : /\ e[2] \notin OddKeys /\ e[1] = x[1] /\ e[2] = x[2] /\ x = <<e[1], e[2], x[3]>>
                       /\ x[3] = Key!Trim(e[3]) \/ (e \in C /\ x[3] \in Key!Cuts(e[3]))
    BY <1>3, OnFileFrom
  <2>2. x[3] # Key!Trim(e[3])
    <3> SUFFICES ASSUME x[3] = Key!Trim(e[3]) PROVE FALSE
      OBVIOUS
    <3>1. e \in wanted /\ e[2] \notin OddKeys /\ x = <<e[1], e[2], Key!Trim(e[3])>>
      BY <2>1
    <3>2. x \in Key!Readable(wanted)
      BY <3>1, Zenon DEF Key!Readable
    <3> QED BY <1>4, <3>2
  <2> QED BY <2>1, <2>2
<1>5. ~broken => Key!OnFile \subseteq Key!Readable(wanted)
  BY <1>3, <1>4
<1>6. ASSUME NEW x \in Key!OnFile \ Key!Readable(wanted), NEW y \in Key!OnFile \ Key!Readable(wanted) PROVE x = y
  <2>1. x \in Key!OnFile /\ x \notin Key!Readable(wanted) /\ y \in Key!OnFile /\ y \notin Key!Readable(wanted)
    OBVIOUS
  <2>2. PICK e \in C : e[1] = x[1] /\ e[2] = x[2]
    BY <1>4, <2>1
  <2>3. PICK g \in C : g[1] = y[1] /\ g[2] = y[2]
    BY <1>4, <2>1
  <2>4. x[1] = y[1] /\ x[2] = y[2]
    BY <1>3, <2>2, <2>3
  <2> QED BY <2>1, <2>4, OnFileTypes, Zenon DEF Functional
<1>7. ASSUME whole, NEW x \in Key!Readable(wanted) PROVE x \in Key!OnFile
  <2>1. Recorded(file, wanted, {})
    BY <1>3, <1>7
  <2>2. PICK e \in wanted : e[2] \notin OddKeys /\ x = <<e[1], e[2], Key!Trim(e[3])>>
    BY <1>7, Zenon DEF Key!Readable
  <2>3. PICK i \in 1..Len(file) : StandsFor(file, i, e, {})
    BY <2>1 DEF Recorded
  <2>4. i \in Key!Taken /\ x = <<Sec(file, i), file[i].name, file[i].value>>
    BY <1>1, <2>2, <2>3, TakenIs DEF StandsFor
  <2>5. ASSUME NEW n \in Key!Taken, n > i PROVE Sec(file, n) # Sec(file, i) \/ file[n].name # file[i].name
    <3>1. n \in 1..Len(file) /\ file[n].kind = "key" /\ file[i].kind = "key"
      BY <1>1, <2>3, TakenIs DEF StandsFor
    <3>2. n # i
      BY <2>5, <3>1
    <3> QED BY <2>1, <3>1, <3>2 DEF Recorded
  <2>6. i \in {j \in Key!Taken : \A n \in Key!Taken :
                     n > j => Key!SectionAt(n) # Key!SectionAt(j) \/ file[n].name # file[j].name}
    BY <2>4, <2>5, SectionIs, Zenon
  <2>7. x = <<Key!SectionAt(i), file[i].name, file[i].value>>
    BY <2>4, SectionIs
  <2> QED BY <2>6, <2>7, Zenon DEF Key!OnFile
<1>8. whole => Key!OnFile \subseteq Key!Readable(wanted)
  BY <1>3, <1>4
<1>9. ASSUME NEW f \in Key!OnFile \ Key!Readable(wanted)
      PROVE  \E e \in wanted : e[1] = f[1] /\ e[2] = f[2] /\ f[3] \in Key!Cuts(e[3])
  BY <1>4
<1> QED BY <1>5, <1>6, <1>7, <1>8, <1>9

LEMMA PutIn ==
    ASSUME NEW D \in SUBSET Cells, Functional(D), NEW s \in Sections, NEW k \in Keys, NEW v \in Key!Values
    PROVE  Key!Put(D, s, k, v) \in SUBSET Cells /\ Functional(Key!Put(D, s, k, v))
<1>1. PICK x : x = <<s, k, v>>
  OBVIOUS
<1>2. x \in Cells /\ x[1] = s /\ x[2] = k
  BY <1>1 DEF Cells, KeySections
<1>3. Key!Put(D, s, k, v) = {e \in D : e[1] # s \/ e[2] # k} \cup {x}
  BY <1>1 DEF Key!Put
<1> QED BY <1>2, <1>3 DEF Functional

LEMMA LoadIn ==
    ASSUME NEW D \in SUBSET Cells, Functional(D), NEW F \in SUBSET Cells, Functional(F)
    PROVE  LET r == {e \in D : \A f \in F : e[1] # f[1] \/ e[2] # f[2]} \cup F
           IN  r \in SUBSET Cells /\ Functional(r)
  BY DEF Functional

\* Calls that change the data of one keyfile only.
LEMMA EntriesKeep ==
    ASSUME KeyInv, NEW d \in 1..MaxData, NEW D \in SUBSET Cells, Functional(D),
           entries' = [entries EXCEPT ![d] = D],
           UNCHANGED <<ptr_, made, file, writer, section, pending, broken, wanted, whole>>
    PROVE  KeyInv'
<1>1. KeyTypes'
  BY DEF KeyInv, KeyTypes
<1>2. FileInv'
  BY Zenon DEF KeyInv, FileInv, Saving
<1> QED BY <1>1, <1>2 DEF KeyInv

\* Calls that change who refers to which data only.
LEMMA PointersKeep ==
    ASSUME KeyInv, ptr_' \in [Handles -> 0..MaxData], made' \in 1..MaxData,
           UNCHANGED <<entries, file, writer, section, pending, broken, wanted, whole>>
    PROVE  KeyInv'
<1>1. KeyTypes'
  BY DEF KeyInv, KeyTypes
<1>2. FileInv'
  BY Zenon DEF KeyInv, FileInv, Saving
<1> QED BY <1>1, <1>2 DEF KeyInv

LEMMA KeyOpenKeeps == ASSUME Key!KeyAssumption, KeyInv, NEW h \in Handles, Key!Open(h) PROVE KeyInv'
<1>1. /\ ptr_[h] \in 1..MaxData /\ writer' = ptr_[h] /\ file' = <<>> /\ section' = "_" /\ whole' = FALSE /\ broken' = FALSE
      /\ pending' = Key!Savable(ptr_[h]) /\ wanted' = Key!Savable(ptr_[h]) /\ UNCHANGED <<ptr_, entries, made>>
  <2>1. ptr_[h] \in 0..MaxData /\ ptr_[h] # 0
    BY DEF Key!Open, KeyInv, KeyTypes
  <2>2. ptr_[h] \in 1..MaxData
    BY <2>1 DEF Key!KeyAssumption
  <2> QED BY <2>2 DEF Key!Open
<1>2. Key!Savable(ptr_[h]) \subseteq entries[ptr_[h]]
  BY DEF Key!Savable
<1>3. wanted' \subseteq Cells /\ Functional(wanted')
  BY <1>1, <1>2 DEF KeyInv, KeyTypes, Functional
<1>4. KeyTypes'
  <2>1. writer' \in 0..MaxData
    <3>1. ptr_[h] \in 1..MaxData /\ writer' = ptr_[h]
      BY <1>1
    <3> QED BY <3>1 DEF Key!KeyAssumption
  <2>2. file' \in Seq(Lines)
    <3>1. file' = <<>>
      BY <1>1
    <3> QED BY <3>1
  <2>3. whole' \in BOOLEAN /\ ~whole' /\ broken' \in BOOLEAN /\ ~broken' /\ pending' \subseteq wanted'
    BY <1>1
  <2> QED BY <1>1, <1>3, <2>1, <2>2, <2>3 DEF KeyInv, KeyTypes
<1>5. Len(file') = 0 /\ Sec(file', Len(file') + 1) = "_"
  <2>1. Len(file') = 0
    BY <1>1
  <2>2. \A j \in 1..(Len(file') + 1 - 1) : FALSE
    BY <2>1
  <2>3. Above(file', Len(file') + 1) = {}
    BY <2>2 DEF Above
  <2> QED BY <2>1, <2>3 DEF Sec
<1>6. Recorded(file', {}, {})
  <2>1. \A i \in 1..Len(file') : FALSE
    <3>1. Len(file') = 0
      BY <1>5
    <3> QED BY <3>1
  <2> QED BY <2>1 DEF Recorded
<1>7. FileInv'
  <2>1. Saving({}, {})'
    BY <1>1, <1>5, <1>6 DEF Saving
  <2> QED BY <2>1, Zenon DEF FileInv
<1> QED BY <1>4, <1>7 DEF KeyInv

LEMMA LineIn ==
    ASSUME KeyInv, NEW e \in pending, NEW v \in {Key!Trim(e[3])} \cup Key!Cuts(e[3])
    PROVE  LET x == Key!Line(e[2], v) IN x \in Lines /\ x.kind = "key" /\ x.name = e[2] /\ x.value = v
<1>1. e[2] \in Keys /\ e[3] \in Key!Values
  BY DEF KeyInv, KeyTypes, Cells
<1>2. v \in Key!Values
  BY <1>1, TrimIn
<1> QED BY <1>1, <1>2 DEF Key!Line, Lines

LEMMA WrittenIn ==
    ASSUME KeyInv, NEW e \in pending, NEW f \in Key!Written(file, e[2], e[3])
    PROVE  /\ f \in Seq(Lines)
           /\ e[3] # "text+" => f = Append(file, Key!Line(e[2], Key!Trim(e[3])))
<1>1. file \in Seq(Lines)
  BY DEF KeyInv, KeyTypes
<1>2. PICK x : x = Key!Line(e[2], Key!Trim(e[3]))
  OBVIOUS
<1>3. x \in Lines
  BY <1>2, LineIn
<1>4. Key!Strays \subseteq Lines
  <2>1. Key!Cuts("text") \subseteq Key!Values
    <3>1. "text" \in Key!Values
      BY DEF Key!Values
    <3> QED BY <3>1, TrimIn
  <2>2. [kind : {"key"}, name : Keys, value : Key!Cuts("text")] \subseteq Lines
    BY <2>1 DEF Lines
  <2>3. \A s \in Sections : Key!Header(s) \in Lines
    BY DEF Key!Header, Lines, KeySections
  <2> QED BY <2>2, <2>3 DEF Key!Strays
<1>5. f = Append(file, x) \/ \E y \in IF e[3] = "text+" THEN Key!Strays ELSE {} : f = Append(Append(file, x), y)
  BY <1>2, Zenon DEF Key!Written
<1>6. CASE f = Append(file, x)
  BY <1>1, <1>2, <1>3, <1>6
<1>7. CASE \E y \in IF e[3] = "text+" THEN Key!Strays ELSE {} : f = Append(Append(file, x), y)
  <2>1. PICK y \in IF e[3] = "text+" THEN Key!Strays ELSE {} : f = Append(Append(file, x), y)
    BY <1>7
  <2>2. e[3] = "text+" /\ y \in Lines
    BY <1>4, <2>1
  <2>3. Append(file, x) \in Seq(Lines)
    BY <1>1, <1>3
  <2>4. f \in Seq(Lines)
    BY <2>1, <2>2, <2>3
  <2> QED BY <2>2, <2>4
<1> QED BY <1>5, <1>6, <1>7

LEMMA WriteKeyKeeps == ASSUME KeyInv, NEW e \in pending, Key!WriteKey(e) PROVE KeyInv'
<1>1. /\ writer # 0 /\ ~broken /\ e[1] = section /\ pending' = pending \ {e} /\ file' \in Key!Written(file, e[2], e[3])
      /\ UNCHANGED <<ptr_, entries, made, writer, section, broken, wanted, whole>>
  BY DEF Key!WriteKey
<1>2. e \in wanted /\ file \in Seq(Lines) /\ Functional(wanted) /\ pending \subseteq wanted
  BY DEF KeyInv, KeyTypes
<1>3. KeyTypes'
  <2>1. file' \in Seq(Lines)
    BY <1>1, WrittenIn
  <2> QED BY <1>1, <2>1 DEF KeyInv, KeyTypes
<1>4. ASSUME Key!OneLine(wanted) PROVE \E D \in SUBSET wanted', C \in SUBSET wanted' : Saving(D, C)'
  <2>1. PICK D \in SUBSET wanted, C \in SUBSET wanted : Saving(D, C)
    BY <1>4, Zenon DEF KeyInv, FileInv
  <2>2. /\ Recorded(file, D, {}) /\ D = wanted \ pending
        /\ section = Sec(file, Len(file) + 1)
    <3>1. C = {} /\ Recorded(file, D, C) /\ D = wanted \ pending /\ section = Sec(file, Len(file) + 1)
      BY <1>1, <2>1, Zenon DEF Saving
    <3> QED BY <3>1
  <2>3. PICK x : x = Key!Line(e[2], Key!Trim(e[3]))
    OBVIOUS
  <2>4. x \in Lines /\ x.kind = "key" /\ x.name = e[2] /\ x.value = Key!Trim(e[3])
    BY <2>3, LineIn
  <2>5. file' = Append(file, x)
    <3>1. e[3] # "text+"
      BY <1>2, <1>4 DEF Key!OneLine
    <3> QED BY <1>1, <2>3, <3>1, WrittenIn
  <2>6. PICK N : N = {}
    OBVIOUS
  <2>7. Recorded(Append(file, x), D \cup {e}, N)
    <3>1. e \notin D /\ D \subseteq wanted /\ Sec(file, Len(file) + 1) = e[1] /\ N \in {{}, {e}} /\ Recorded(file, D, {})
      BY <1>1, <2>2, <2>6
    <3> QED BY <1>2, <2>4, <3>1, RecordMore, Zenon
  <2>8. Sec(file', Len(file') + 1) = section'
    BY <1>1, <1>2, <2>2, <2>4, <2>5, SecNext
  <2>9. D \cup {e} \in SUBSET wanted' /\ D \cup {e} = wanted' \ pending'
    BY <1>1, <1>2, <2>2
  <2>10. Recorded(file', D \cup {e}, {}) /\ ~whole' /\ ~broken'
    BY <1>1, <2>5, <2>6, <2>7 DEF KeyInv, KeyTypes
  <2>11. Saving(D \cup {e}, {})'
    BY <2>8, <2>9, <2>10 DEF Saving
  <2> QED BY <2>9, <2>11
<1>5. FileInv'
  <2>1. wanted' = wanted
    BY <1>1
  <2> QED BY <1>4, <2>1 DEF FileInv, Key!OneLine
<1> QED BY <1>3, <1>5 DEF KeyInv

LEMMA WriteHeaderKeeps == ASSUME KeyInv, NEW s \in Sections, Key!WriteHeader(s) PROVE KeyInv'
<1>1. /\ writer # 0 /\ ~broken /\ section' = s /\ file' = Append(file, Key!Header(s))
      /\ UNCHANGED <<ptr_, entries, made, writer, pending, broken, wanted, whole>>
  BY DEF Key!WriteHeader
<1>2. file \in Seq(Lines)
  BY DEF KeyInv, KeyTypes
<1>3. PICK x : x = Key!Header(s)
  OBVIOUS
<1>4. x \in Lines /\ x.kind = "section" /\ x.name = s
  BY <1>3 DEF Key!Header, Lines, KeySections
<1>5. KeyTypes'
  <2>1. file' \in Seq(Lines)
    BY <1>1, <1>2, <1>3, <1>4
  <2> QED BY <1>1, <2>1 DEF KeyInv, KeyTypes
<1>6. ASSUME Key!OneLine(wanted) PROVE \E D \in SUBSET wanted', C \in SUBSET wanted' : Saving(D, C)'
  <2>1. PICK D \in SUBSET wanted, C \in SUBSET wanted : Saving(D, C)
    BY <1>6, Zenon DEF KeyInv, FileInv
  <2>2. Recorded(file, D, {}) /\ D = wanted \ pending
    <3>1. C = {} /\ Recorded(file, D, C) /\ D = wanted \ pending
      BY <1>1, <2>1, Zenon DEF Saving
    <3> QED BY <3>1
  <2>3. Recorded(file', D, {})
    BY <1>1, <1>2, <1>3, <1>4, <2>2, RecordHeader
  <2>4. Sec(file', Len(file') + 1) = section'
    BY <1>1, <1>2, <1>3, <1>4, SecNext
  <2>5. D \in SUBSET wanted' /\ D = wanted' \ pending' /\ ~whole' /\ ~broken'
    BY <1>1, <2>2 DEF KeyInv, KeyTypes
  <2>6. Saving(D, {})'
    BY <2>3, <2>4, <2>5 DEF Saving
  <2> QED BY <2>5, <2>6
<1>7. FileInv'
  <2>1. wanted' = wanted
    BY <1>1
  <2> QED BY <1>6, <2>1 DEF FileInv, Key!OneLine
<1> QED BY <1>5, <1>7 DEF KeyInv

\* What a failing write() leaves of the line it was writing.
LEMMA WriteFailsKeeps == ASSUME KeyInv, Key!WriteFails PROVE KeyInv'
<1>1. /\ writer # 0 /\ ~broken /\ broken' = TRUE /\ pending # {}
      /\ UNCHANGED <<ptr_, entries, made, writer, section, pending, wanted, whole>>
      /\ file' = file \/ \E e \in pending : e[1] = section /\ file' \in Key!CutShort(file, e[2], e[3])
  BY DEF Key!WriteFails
<1>2. file \in Seq(Lines) /\ Functional(wanted) /\ pending \subseteq wanted /\ ~whole
  BY <1>1 DEF KeyInv, KeyTypes
<1>3. ASSUME NEW D, NEW C, D \subseteq wanted, C \subseteq wanted, Recorded(file', D, C), \A x, y \in C : x = y
      PROVE  FileInv'
  <2>1. Saving(D, C)' /\ wanted' = wanted
    BY <1>1, <1>2, <1>3 DEF Saving
  <2> QED BY <1>3, <2>1 DEF FileInv
<1>4. ASSUME Key!OneLine(wanted)
      PROVE  \E D \in SUBSET wanted : Recorded(file, D, {}) /\ D = wanted \ pending /\ section = Sec(file, Len(file) + 1)
  <2>1. PICK D \in SUBSET wanted, C \in SUBSET wanted : Saving(D, C)
    BY <1>4, Zenon DEF KeyInv, FileInv
  <2>2. C = {} /\ Recorded(file, D, C) /\ D = wanted \ pending /\ section = Sec(file, Len(file) + 1)
    BY <1>1, <2>1, Zenon DEF Saving
  <2> QED BY <2>2
<1>5. ~Key!OneLine(wanted) => FileInv'
  BY <1>1 DEF FileInv, Key!OneLine
<1>6. CASE file' = file
  <2>1. KeyTypes'
    BY <1>1, <1>6 DEF KeyInv, KeyTypes
  <2>2. FileInv'
    <3>1. ASSUME Key!OneLine(wanted) PROVE FileInv'
      <4>1. PICK D \in SUBSET wanted : Recorded(file, D, {})
        BY <1>4, <3>1
      <4>2. PICK N : N = {}
        OBVIOUS
      <4>3. D \subseteq wanted /\ N \subseteq wanted /\ Recorded(file', D, N) /\ \A x, y \in N : x = y
        BY <1>6, <4>1, <4>2
      <4> QED BY <1>3, <4>3
    <3> QED BY <1>5, <3>1
  <2> QED BY <2>1, <2>2 DEF KeyInv
<1>7. ASSUME NEW e \in pending, e[1] = section, file' \in Key!CutShort(file, e[2], e[3]) PROVE KeyInv'
  <2>1. \/ \E c \in Key!Cuts(e[3]) : file' = Append(file, Key!Line(e[2], c))
        \/ e[3] = "text+" /\ file' \in Key!Written(file, e[2], e[3])
    BY <1>7 DEF Key!CutShort
  <2>2. CASE e[3] = "text+" /\ file' \in Key!Written(file, e[2], e[3])
    <3>1. file' \in Seq(Lines)
      BY <2>2, WrittenIn
    <3>2. KeyTypes'
      BY <1>1, <3>1 DEF KeyInv, KeyTypes
    <3>3. ~Key!OneLine(wanted)
      BY <1>2, <2>2 DEF Key!OneLine
    <3> QED BY <1>5, <3>2, <3>3 DEF KeyInv
  <2>3. ASSUME NEW c \in Key!Cuts(e[3]), file' = Append(file, Key!Line(e[2], c)) PROVE KeyInv'
    <3>1. PICK x : x = Key!Line(e[2], c)
      OBVIOUS
    <3>2. x \in Lines /\ x.kind = "key" /\ x.name = e[2] /\ x.value = c
      BY <3>1, LineIn
    <3>3. KeyTypes'
      <4>1. file' \in Seq(Lines)
        BY <1>2, <2>3, <3>1, <3>2
      <4> QED BY <1>1, <4>1 DEF KeyInv, KeyTypes
    <3>4. ASSUME Key!OneLine(wanted) PROVE FileInv'
      <4>1. PICK D \in SUBSET wanted : Recorded(file, D, {}) /\ D = wanted \ pending /\ section = Sec(file, Len(file) + 1)
        BY <1>4, <3>4
      <4>2. PICK C : C = {e}
        OBVIOUS
      <4>3. Recorded(Append(file, x), D \cup {e}, C)
        <5>1. /\ e \in wanted /\ e \notin D /\ D \subseteq wanted /\ Sec(file, Len(file) + 1) = e[1] /\ C \in {{}, {e}}
              /\ C = {e} /\ x.value \in Key!Cuts(e[3])
          BY <1>2, <1>7, <3>2, <4>1, <4>2
        <5> QED BY <1>2, <3>2, <4>1, <5>1, RecordMore, Zenon
      <4>4. PICK E : E = D \cup {e}
        OBVIOUS
      <4>5. E \subseteq wanted /\ C \subseteq wanted /\ Recorded(file', E, C) /\ \A u, v \in C : u = v
        BY <1>2, <2>3, <3>1, <4>2, <4>3, <4>4
      <4> QED BY <1>3, <4>5
    <3> QED BY <1>5, <3>3, <3>4 DEF KeyInv
  <2> QED BY <2>1, <2>2, <2>3
<1> QED BY <1>1, <1>6, <1>7

\* The end of a write(), orderly or not.
LEMMA EndKeeps == ASSUME Key!KeyAssumption, KeyInv, Key!Finish \/ Key!Crash PROVE KeyInv'
<1>1. writer # 0 /\ writer' = 0 /\ pending' = {} /\ UNCHANGED <<entries, file, section, broken, wanted>>
  BY DEF Key!Finish, Key!Crash
<1>2. ~whole /\ (broken => pending # {})
  BY <1>1 DEF KeyInv, KeyTypes
<1>3. whole' \in BOOLEAN /\ (whole' => pending = {}) /\ ptr_' \in [Handles -> 0..MaxData] /\ made' \in 1..MaxData
  <2>1. CASE Key!Finish
    BY <2>1 DEF Key!Finish, KeyInv, KeyTypes
  <2>2. CASE Key!Crash
    <3>1. made' = made + 1 /\ ptr_' = [h \in Handles |-> made + 1] /\ made < MaxData /\ whole' = whole
      BY <2>2 DEF Key!Crash
    <3>2. made + 1 \in 1..MaxData /\ made + 1 \in 0..MaxData
      BY <3>1 DEF KeyInv, KeyTypes, Key!KeyAssumption
    <3>3. ptr_' \in [Handles -> 0..MaxData] /\ made' \in 1..MaxData
      BY <3>1, <3>2
    <3>4. ~whole'
      BY <1>2, <3>1
    <3> QED BY <3>3, <3>4, <3>1 DEF KeyInv, KeyTypes
  <2> QED BY <2>1, <2>2
<1>4. KeyTypes'
  <2>1. writer' \in 0..MaxData /\ pending' \subseteq wanted'
    BY <1>1 DEF Key!KeyAssumption
  <2> QED BY <1>1, <1>3, <2>1 DEF KeyInv, KeyTypes
<1>5. ASSUME Key!OneLine(wanted) PROVE \E D \in SUBSET wanted', C \in SUBSET wanted' : Saving(D, C)'
  <2>1. PICK D \in SUBSET wanted, C \in SUBSET wanted : Saving(D, C)
    BY <1>5, Zenon DEF KeyInv, FileInv
  <2>2. /\ Recorded(file, D, C) /\ (\A x, y \in C : x = y) /\ (~broken => C = {})
        /\ ~broken => D = wanted \ pending
    BY <1>1, <2>1, Zenon DEF Saving
  <2>3. whole' => D = wanted' /\ C = {}
    BY <1>1, <1>2, <1>3, <2>2
  <2>4. Saving(D, C)'
    BY <1>1, <2>2, <2>3 DEF Saving
  <2>5. D \in SUBSET wanted' /\ C \in SUBSET wanted'
    BY <1>1, <2>1
  <2> QED BY <2>4, <2>5
<1>6. FileInv'
  <2>1. wanted' = wanted
    BY <1>1
  <2> QED BY <1>5, <2>1 DEF FileInv, Key!OneLine
<1> QED BY <1>4, <1>6 DEF KeyInv

LEMMA KeyStep == ASSUME Key!KeyAssumption, KeyInv, [Key!KeyNext]_(Key!keyVars) PROVE KeyInv'
<1>1. CASE UNCHANGED Key!keyVars
  <2>1. UNCHANGED <<ptr_, made, entries, file, writer, section, pending, broken, wanted, whole>>
    BY <1>1 DEF Key!keyVars
  <2>2. ptr_' \in [Handles -> 0..MaxData] /\ made' \in 1..MaxData
    BY <2>1 DEF KeyInv, KeyTypes
  <2> QED BY <2>1, <2>2, PointersKeep
<1>2. ASSUME NEW h \in Handles, ptr_[h] # 0
      PROVE  ptr_[h] \in 1..MaxData /\ entries[ptr_[h]] \in SUBSET Cells /\ Functional(entries[ptr_[h]])
  BY <1>2 DEF KeyInv, KeyTypes
<1>3. ASSUME NEW h \in Handles, NEW s \in Sections, NEW k \in Keys, NEW v \in Key!Values, Key!Assign(h, s, k, v)
      PROVE  KeyInv'
  <2>1. /\ ptr_[h] # 0 /\ entries' = [entries EXCEPT ![ptr_[h]] = Key!Put(entries[ptr_[h]], s, k, v)]
        /\ UNCHANGED <<ptr_, made, file, writer, section, pending, broken, wanted, whole>>
    BY <1>3 DEF Key!Assign
  <2>2. PICK D : D = Key!Put(entries[ptr_[h]], s, k, v)
    OBVIOUS
  <2>3. D \in SUBSET Cells /\ Functional(D)
    BY <1>2, <2>1, <2>2, PutIn
  <2> QED BY <1>2, <2>1, <2>2, <2>3, EntriesKeep
<1>4. ASSUME NEW h \in Handles, NEW s \in Sections, Key!Remove(h, s) PROVE KeyInv'
  <2>1. /\ ptr_[h] # 0 /\ entries' = [entries EXCEPT ![ptr_[h]] = {e \in entries[ptr_[h]] : e[1] # s}]
        /\ UNCHANGED <<ptr_, made, file, writer, section, pending, broken, wanted, whole>>
    BY <1>4 DEF Key!Remove
  <2>2. PICK D : D = {e \in entries[ptr_[h]] : e[1] # s}
    OBVIOUS
  <2>3. D \in SUBSET Cells /\ Functional(D)
    BY <1>2, <2>1, <2>2 DEF Functional
  <2> QED BY <1>2, <2>1, <2>2, <2>3, EntriesKeep
<1>5. ASSUME NEW h \in Handles, Key!Load(h) PROVE KeyInv'
  <2>1. /\ ptr_[h] # 0
        /\ entries' = [entries EXCEPT ![ptr_[h]] =
               {e \in entries[ptr_[h]] : \A f \in Key!OnFile : e[1] # f[1] \/ e[2] # f[2]} \cup Key!OnFile]
        /\ UNCHANGED <<ptr_, made, file, writer, section, pending, broken, wanted, whole>>
    BY <1>5 DEF Key!Load
  <2>2. PICK D : D = {e \in entries[ptr_[h]] : \A f \in Key!OnFile : e[1] # f[1] \/ e[2] # f[2]} \cup Key!OnFile
    OBVIOUS
  <2>3. D \in SUBSET Cells /\ Functional(D)
    <3>1. PICK F : F = Key!OnFile
      OBVIOUS
    <3>2. F \in SUBSET Cells /\ Functional(F)
      BY <3>1, OnFileTypes
    <3>3. PICK E : E = entries[ptr_[h]]
      OBVIOUS
    <3>4. E \in SUBSET Cells /\ Functional(E)
      BY <1>2, <2>1, <3>3
    <3>5. D = {e \in E : \A f \in F : e[1] # f[1] \/ e[2] # f[2]} \cup F
      BY <2>2, <3>1, <3>3
    <3> QED BY <3>2, <3>4, <3>5, LoadIn
  <2> QED BY <1>2, <2>1, <2>2, <2>3, EntriesKeep
<1>6. ASSUME NEW h \in Handles, NEW g \in Handles, Key!Share(h, g) PROVE KeyInv'
  <2>1. ptr_' \in [Handles -> 0..MaxData] /\ made' \in 1..MaxData
    BY <1>6 DEF Key!Share, KeyInv, KeyTypes
  <2> QED BY <1>6, <2>1, PointersKeep DEF Key!Share
<1>7. ASSUME NEW h \in Handles, Key!Clear(h) PROVE KeyInv'
  <2>1. ptr_' \in [Handles -> 0..MaxData] /\ made' \in 1..MaxData
    BY <1>7 DEF Key!Clear, KeyInv, KeyTypes, Key!KeyAssumption
  <2> QED BY <1>7, <2>1, PointersKeep DEF Key!Clear
<1>8. ASSUME NEW h \in Handles, Key!Create(h) PROVE KeyInv'
  <2>1. ptr_' \in [Handles -> 0..MaxData] /\ made' \in 1..MaxData
    BY <1>8 DEF Key!Create, KeyInv, KeyTypes, Key!KeyAssumption
  <2> QED BY <1>8, <2>1, PointersKeep DEF Key!Create
<1>10. CASE Key!KeyNext
  BY <1>3, <1>4, <1>5, <1>6, <1>7, <1>8, <1>10, KeyOpenKeeps, WriteKeyKeeps, WriteHeaderKeeps,
     WriteFailsKeeps, EndKeeps
  DEF Key!KeyNext
<1> QED BY <1>1, <1>10

-----------------------------------------------------------------------------
(* socket_stream.  Bytes are numbered, so that order and loss can be read off *)
(* the pieces of the way they take.                                          *)

Rising(s) == \A i, j \in 1..Len(s) : i < j => s[i] < s[j]
Below(s, t) == \A i \in 1..Len(s), j \in 1..Len(t) : s[i] < t[j]
UpTo(s, n) == \A i \in 1..Len(s) : s[i] <= n

LEMMA RisingIncreases == ASSUME NEW s \in Seq(Nat), Rising(s) PROVE Conn!Increasing(s)
  BY DEF Rising, Conn!Increasing

LEMMA SeqFacts ==
    ASSUME NEW s \in Seq(Nat)
    PROVE  /\ Len(s) \in Nat /\ DOMAIN s = 1..Len(s) /\ \A i \in 1..Len(s) : s[i] \in Nat /\ i \in Nat
           /\ s \o <<>> = s /\ <<>> \o s = s /\ <<>> \in Seq(Nat) /\ (s # <<>> => Len(s) > 0)
  OBVIOUS

LEMMA SameSeq ==
    ASSUME NEW s \in Seq(Nat), NEW t \in Seq(Nat), Len(s) = Len(t), \A i \in 1..Len(s) : s[i] = t[i]
    PROVE  s = t
  OBVIOUS

\* Where the elements of two sequences are in one after the other.
Joint(u, s, t) ==
    /\ u \in Seq(Nat) /\ Len(u) = Len(s) + Len(t)
    /\ \A i \in 1..Len(s) : u[i] = s[i]
    /\ \A j \in 1..Len(t) : u[Len(s) + j] = t[j]
    /\ \A i \in 1..Len(u) : i \in 1..Len(s) \/ \E j \in 1..Len(t) : i = Len(s) + j

LEMMA JoinAt == ASSUME NEW s \in Seq(Nat), NEW t \in Seq(Nat) PROVE Joint(s \o t, s, t)
<1>0. PICK u : u = s \o t
  OBVIOUS
<1>1. Len(s) \in Nat /\ Len(t) \in Nat /\ u \in Seq(Nat) /\ Len(u) = Len(s) + Len(t)
  BY <1>0
<1>2. \A i \in 1..Len(s) : u[i] = s[i]
  BY <1>0, <1>1
<1>3. ASSUME NEW j \in 1..Len(t) PROVE u[Len(s) + j] = t[j]
  BY <1>0, <1>1
<1>4. ASSUME NEW i \in 1..Len(u), i \notin 1..Len(s) PROVE \E j \in 1..Len(t) : i = Len(s) + j
  <2>1. i - Len(s) \in 1..Len(t) /\ i = Len(s) + (i - Len(s))
    BY <1>1, <1>4
  <2> QED BY <2>1
<1> QED BY <1>0, <1>1, <1>2, <1>3, <1>4 DEF Joint

\* Two sequences, the second above the first.
LEMMA JoinRises ==
    ASSUME NEW s \in Seq(Nat), NEW t \in Seq(Nat), Rising(s), Rising(t), Below(s, t)
    PROVE  Rising(s \o t)
<1>1. PICK u : u = s \o t
  OBVIOUS
<1>2. PICK m \in Nat, n \in Nat : m = Len(s) /\ n = Len(t)
  BY SeqFacts
<1>3. /\ Len(u) = m + n
      /\ \A i \in 1..m : u[i] = s[i]
      /\ \A j \in 1..n : u[m + j] = t[j]
      /\ \A i \in 1..Len(u) : i \in 1..m \/ \E j \in 1..n : i = m + j
  <2>1. Joint(u, s, t)
    BY <1>1, JoinAt
  <2> QED BY <1>2, <2>1, Zenon DEF Joint
<1> SUFFICES ASSUME NEW i \in 1..Len(u), NEW j \in 1..Len(u), i < j PROVE u[i] < u[j]
  BY <1>1 DEF Rising
<1>4. CASE j \in 1..m
  <2>1. i \in 1..m
    BY <1>3, <1>4
  <2> QED BY <1>2, <1>3, <1>4, <2>1 DEF Rising
<1>5. CASE i \in 1..m /\ j \notin 1..m
  <2>1. PICK y \in 1..n : j = m + y
    BY <1>3, <1>5
  <2> QED BY <1>2, <1>3, <1>5, <2>1 DEF Below
<1>6. CASE i \notin 1..m /\ j \notin 1..m
  <2>1. PICK x \in 1..n, y \in 1..n : i = m + x /\ j = m + y
    BY <1>3, <1>6
  <2>2. x < y /\ u[i] = t[x] /\ u[j] = t[y]
    BY <1>3, <2>1
  <2> QED BY <1>2, <2>2 DEF Rising
<1>7. ~(i \notin 1..m /\ j \in 1..m)
  BY <1>3
<1> QED BY <1>4, <1>5, <1>6, <1>7

LEMMA JoinBelow ==
    ASSUME NEW s \in Seq(Nat), NEW t \in Seq(Nat), NEW v \in Seq(Nat)
    PROVE  /\ Below(s, v) /\ Below(t, v) => Below(s \o t, v)
           /\ Below(v, s) /\ Below(v, t) => Below(v, s \o t)
<1>1. PICK u : u = s \o t
  OBVIOUS
<1>2. Joint(u, s, t)
  BY <1>1, JoinAt
<1>3. ASSUME NEW i \in 1..Len(u)
      PROVE  (\E k \in 1..Len(s) : u[i] = s[k]) \/ (\E k \in 1..Len(t) : u[i] = t[k])
  BY <1>2, Zenon DEF Joint
<1> QED BY <1>1, <1>3 DEF Below

\* A byte with the next number.
LEMMA OneMore ==
    ASSUME NEW s \in Seq(Nat), NEW n \in Nat, UpTo(s, n)
    PROVE  /\ Append(s, n + 1) \in Seq(Nat)
           /\ Rising(s) => Rising(Append(s, n + 1))
           /\ UpTo(Append(s, n + 1), n + 1)
           /\ \A t \in Seq(Nat) : UpTo(t, n) /\ Below(t, s) => Below(t, Append(s, n + 1))
           /\ s = Conn!FirstNumbers(n) => Append(s, n + 1) = Conn!FirstNumbers(n + 1)
<1>0. PICK m \in Nat : m = Len(s) /\ \A i \in 1..m : s[i] \in Nat /\ s[i] <= n /\ s[i] < n + 1 /\ s[i] <= n + 1
  BY SeqFacts DEF UpTo
<1>1. PICK u : u = Append(s, n + 1)
  OBVIOUS
<1>2. /\ u \in Seq(Nat) /\ Len(u) = m + 1 /\ u[m + 1] = n + 1 /\ \A i \in 1..m : u[i] = s[i]
  BY <1>0, <1>1
<1>a. \A i \in 1..m + 1 : i \in 1..m \/ i = m + 1
  OBVIOUS
<1>3. ASSUME Rising(s) PROVE Rising(u)
  <2> SUFFICES ASSUME NEW i \in 1..m + 1, NEW j \in 1..m + 1, i < j PROVE u[i] < u[j]
    BY <1>2 DEF Rising
  <2>1. CASE j \in 1..m
    <3>1. i \in 1..m
      BY <2>1
    <3> QED BY <1>0, <1>2, <1>3, <2>1, <3>1 DEF Rising
  <2>2. CASE j = m + 1
    <3>1. i \in 1..m
      BY <2>2
    <3> QED BY <1>0, <1>2, <2>2, <3>1
  <2> QED BY <1>a, <2>1, <2>2
<1>4. UpTo(u, n + 1)
  BY <1>0, <1>2, <1>a DEF UpTo
<1>5. ASSUME NEW t \in Seq(Nat), UpTo(t, n), Below(t, s) PROVE Below(t, u)
  <2>1. \A i \in 1..Len(t) : t[i] < n + 1
    BY <1>5, SeqFacts DEF UpTo
  <2> QED BY <1>0, <1>2, <1>a, <1>5, <2>1 DEF Below
<1>6. ASSUME s = Conn!FirstNumbers(n) PROVE u = Conn!FirstNumbers(n + 1)
  <2>1. Len(s) = n /\ \A i \in 1..n : s[i] = i
    BY <1>0, <1>6 DEF Conn!FirstNumbers
  <2>2. u = [i \in 1..n + 1 |-> u[i]] /\ \A i \in 1..n + 1 : u[i] = i
    BY <1>0, <1>2, <1>a, <2>1
  <2> QED BY <2>2 DEF Conn!FirstNumbers
<1> QED BY <1>1, <1>2, <1>3, <1>4, <1>5, <1>6

\* A piece of a sequence keeps its order.
LEMMA PieceOf ==
    ASSUME NEW s \in Seq(Nat), NEW m \in 1..Len(s) + 1, NEW n \in 0..Len(s)
    PROVE  /\ SubSeq(s, m, n) \in Seq(Nat)
           /\ Rising(s) => Rising(SubSeq(s, m, n))
           /\ \A k \in Nat : UpTo(s, k) => UpTo(SubSeq(s, m, n), k)
           /\ \A t \in Seq(Nat) : Below(t, s) => Below(t, SubSeq(s, m, n))
           /\ \A t \in Seq(Nat) : Below(s, t) => Below(SubSeq(s, m, n), t)
<1>1. PICK u : u = SubSeq(s, m, n)
  OBVIOUS
<1>2. /\ u \in Seq(Nat) /\ Len(u) = IF m <= n THEN n - m + 1 ELSE 0
      /\ \A i \in 1..Len(u) : u[i] = s[m + i - 1] /\ m + i - 1 \in 1..Len(s)
  BY <1>1
<1>a. m \in Nat /\ Len(u) \in Nat
  BY <1>2
<1>3. ASSUME Rising(s) PROVE Rising(u)
  <2> SUFFICES ASSUME NEW i \in 1..Len(u), NEW j \in 1..Len(u), i < j PROVE u[i] < u[j]
    BY DEF Rising
  <2>1. u[i] = s[m + i - 1] /\ m + i - 1 \in 1..Len(s) /\ u[j] = s[m + j - 1] /\ m + j - 1 \in 1..Len(s)
    BY <1>2
  <2>2. m + i - 1 < m + j - 1
    BY <1>a
  <2> QED BY <1>3, <2>1, <2>2 DEF Rising
<1>4. \A k \in Nat : UpTo(s, k) => UpTo(u, k)
  BY <1>2 DEF UpTo
<1>5. \A t \in Seq(Nat) : (Below(t, s) => Below(t, u)) /\ (Below(s, t) => Below(u, t))
  BY <1>2 DEF Below
<1> QED BY <1>1, <1>2, <1>3, <1>4, <1>5

\* The two pieces of a sequence that is cut, put together again.
LEMMA Uncut ==
    ASSUME NEW s \in Seq(Nat), NEW n \in 0..Len(s)
    PROVE  /\ SubSeq(s, 1, n) \o SubSeq(s, n + 1, Len(s)) = s
           /\ Rising(s) => Below(SubSeq(s, 1, n), SubSeq(s, n + 1, Len(s)))
<1>1. PICK u, v : u = SubSeq(s, 1, n) /\ v = SubSeq(s, n + 1, Len(s))
  OBVIOUS
<1>2. u \in Seq(Nat) /\ v \in Seq(Nat) /\ Len(u) = n /\ Len(v) = Len(s) - n /\ n \in Nat /\ Len(s) \in Nat
  BY <1>1
<1>3. (\A i \in 1..n : u[i] = s[i]) /\ (\A i \in 1..Len(s) - n : v[i] = s[n + i])
  BY <1>1
<1>4. u \o v = s
  <2>1. PICK w : w = u \o v
    OBVIOUS
  <2>2. Joint(w, u, v)
    BY <1>2, <2>1, JoinAt
  <2>3. Len(w) = Len(s)
    BY <1>2, <2>2 DEF Joint
  <2>4. ASSUME NEW i \in 1..Len(w) PROVE w[i] = s[i]
    <3>1. CASE i \in 1..Len(u)
      BY <1>2, <1>3, <2>2, <3>1 DEF Joint
    <3>2. CASE i \notin 1..Len(u)
      <4>1. PICK j \in 1..Len(v) : i = n + j
        BY <1>2, <2>2, <3>2 DEF Joint
      <4> QED BY <1>2, <1>3, <2>2, <4>1 DEF Joint
    <3> QED BY <3>1, <3>2
  <2> QED BY <1>2, <2>1, <2>2, <2>3, <2>4, SameSeq DEF Joint
<1>5. ASSUME Rising(s), NEW i \in 1..n, NEW j \in 1..Len(s) - n PROVE u[i] < v[j]
  <2>1. i \in 1..Len(s) /\ n + j \in 1..Len(s) /\ i < n + j /\ u[i] = s[i] /\ v[j] = s[n + j]
    BY <1>2, <1>3
  <2> QED BY <1>5, <2>1 DEF Rising
<1>6. Rising(s) => Below(u, v)
  BY <1>2, <1>5 DEF Below
<1> QED BY <1>1, <1>4, <1>6

LEMMA JoinUpTo ==
    ASSUME NEW s \in Seq(Nat), NEW t \in Seq(Nat), NEW n \in Nat, UpTo(s, n), UpTo(t, n)
    PROVE  UpTo(s \o t, n)
<1>1. PICK u : u = s \o t
  OBVIOUS
<1>2. Joint(u, s, t)
  BY <1>1, JoinAt
<1>3. ASSUME NEW i \in 1..Len(u) PROVE u[i] <= n
  <2>1. CASE i \in 1..Len(s)
    BY <1>2, <2>1 DEF Joint, UpTo
  <2>2. CASE i \notin 1..Len(s)
    <3>1. PICK j \in 1..Len(t) : i = Len(s) + j
      BY <1>2, <2>2 DEF Joint
    <3> QED BY <1>2, <3>1 DEF Joint, UpTo
  <2> QED BY <2>1, <2>2
<1> QED BY <1>1, <1>3 DEF UpTo

LEMMA AppendIsJoin ==
    ASSUME NEW s \in Seq(Nat), NEW t \in Seq(Nat), NEW n \in Nat
    PROVE  Append(s, n) = s \o <<n>> /\ <<n>> \in Seq(Nat) /\ s \o t \in Seq(Nat)
  OBVIOUS

LEMMA JoinAssociates ==
    ASSUME NEW s \in Seq(Nat), NEW t \in Seq(Nat), NEW v \in Seq(Nat)
    PROVE  (s \o t) \o v = s \o (t \o v)
<1>1. PICK l, r, x, y : l = s \o t /\ r = t \o v /\ x = l \o v /\ y = s \o r
  OBVIOUS
<1>2. Joint(l, s, t) /\ Joint(r, t, v)
  BY <1>1, JoinAt
<1>3. l \in Seq(Nat) /\ r \in Seq(Nat) /\ Len(l) = Len(s) + Len(t) /\ Len(r) = Len(t) + Len(v)
  BY <1>2 DEF Joint
<1>4. Joint(x, l, v) /\ Joint(y, s, r)
  BY <1>1, <1>3, JoinAt
<1>5. PICK ls \in Nat, lt \in Nat, lv \in Nat : ls = Len(s) /\ lt = Len(t) /\ lv = Len(v)
  BY SeqFacts
<1>6. x \in Seq(Nat) /\ y \in Seq(Nat) /\ Len(x) = ls + lt + lv /\ Len(y) = ls + lt + lv
  BY <1>3, <1>4, <1>5 DEF Joint
<1>7. ASSUME NEW i \in 1..ls + lt + lv PROVE x[i] = y[i]
  <2>1. CASE i \in 1..ls
    <3>1. i \in 1..Len(l)
      BY <1>3, <1>5, <2>1
    <3> QED BY <1>2, <1>4, <1>5, <2>1, <3>1 DEF Joint
  <2>2. CASE i > ls /\ i <= ls + lt
    <3>1. PICK j \in 1..lt : i = ls + j /\ i \in 1..ls + lt /\ j \in 1..lt + lv
      <4>1. i - ls \in 1..lt /\ i = ls + (i - ls) /\ i \in 1..ls + lt /\ i - ls \in 1..lt + lv
        BY <2>2
      <4> QED BY <4>1
    <3>2. x[i] = l[i] /\ l[ls + j] = t[j] /\ y[ls + j] = r[j] /\ r[j] = t[j]
      BY <1>2, <1>3, <1>4, <1>5, <3>1 DEF Joint
    <3> QED BY <3>1, <3>2
  <2>3. CASE i > ls + lt
    <3>1. PICK j \in 1..lv, k \in 1..lt + lv : i = (ls + lt) + j /\ i = ls + k /\ k = lt + j
      <4>1. i - (ls + lt) \in 1..lv /\ i = (ls + lt) + (i - (ls + lt)) /\ i - ls \in 1..lt + lv
            /\ i = ls + (i - ls) /\ i - ls = lt + (i - (ls + lt))
        BY <2>3
      <4> QED BY <4>1
    <3>2. x[(ls + lt) + j] = v[j] /\ y[ls + k] = r[k] /\ r[lt + j] = v[j]
      BY <1>2, <1>3, <1>4, <1>5, <3>1 DEF Joint
    <3> QED BY <3>1, <3>2
  <2> QED BY <2>1, <2>2, <2>3
<1> QED BY <1>1, <1>6, <1>7, SameSeq

LEMMA HeadAndTail ==
    ASSUME NEW s \in Seq(Nat), s # <<>>
    PROVE  /\ Head(s) \in Nat /\ 1 \in 0..Len(s)
           /\ <<Head(s)>> = SubSeq(s, 1, 1) /\ Tail(s) = SubSeq(s, 1 + 1, Len(s))
<1>1. Len(s) \in Nat /\ Len(s) > 0 /\ Head(s) = s[1] /\ s[1] \in Nat
  BY SeqFacts
<1>2. <<Head(s)>> = SubSeq(s, 1, 1)
  BY <1>1
<1>3. Tail(s) = SubSeq(s, 1 + 1, Len(s))
  BY <1>1
<1> QED BY <1>1, <1>2, <1>3

\* Bytes on their way through three places, numbered up to n: those in a come before
\* those in b, and these before those in c.
Way(a_, b, c, n) ==
    /\ a_ \in Seq(Nat) /\ b \in Seq(Nat) /\ c \in Seq(Nat) /\ n \in Nat
    /\ Rising(a_) /\ Rising(b) /\ Rising(c)
    /\ Below(a_, b) /\ Below(a_, c) /\ Below(b, c)
    /\ UpTo(a_, n) /\ UpTo(b, n) /\ UpTo(c, n)

Whole(a_, b, c) == (a_ \o b) \o c

LEMMA EmptyFacts ==
    ASSUME NEW s \in Seq(Nat), NEW n \in Nat
    PROVE  <<>> \in Seq(Nat) /\ Rising(<<>>) /\ Below(s, <<>>) /\ Below(<<>>, s) /\ UpTo(<<>>, n)
  BY DEF Rising, Below, UpTo

LEMMA WayRises ==
    ASSUME NEW a_, NEW b, NEW c, NEW n, Way(a_, b, c, n)
    PROVE  Conn!Increasing(Whole(a_, b, c))
<1>1. a_ \o b \in Seq(Nat) /\ Rising(a_ \o b) /\ Below(a_ \o b, c)
  BY JoinAt, JoinRises, JoinBelow DEF Way, Joint
<1>2. (a_ \o b) \o c \in Seq(Nat) /\ Rising((a_ \o b) \o c)
  BY <1>1, JoinAt, JoinRises DEF Way, Joint
<1> QED BY <1>2, RisingIncreases DEF Whole

\* A new byte comes in last.
LEMMA WayMore ==
    ASSUME NEW a_, NEW b, NEW c, NEW n, Way(a_, b, c, n)
    PROVE  /\ Way(a_, b, Append(c, n + 1), n + 1)
           /\ Whole(a_, b, c) = Conn!FirstNumbers(n)
              => Whole(a_, b, Append(c, n + 1)) = Conn!FirstNumbers(n + 1)
<1>1. a_ \in Seq(Nat) /\ b \in Seq(Nat) /\ c \in Seq(Nat) /\ n \in Nat /\ n + 1 \in Nat
  BY DEF Way
<1>2. /\ Append(c, n + 1) \in Seq(Nat) /\ Rising(Append(c, n + 1)) /\ UpTo(Append(c, n + 1), n + 1)
      /\ Below(a_, Append(c, n + 1)) /\ Below(b, Append(c, n + 1))
  BY <1>1, OneMore DEF Way
<1>3. UpTo(a_, n + 1) /\ UpTo(b, n + 1)
  BY <1>1, SeqFacts DEF Way, UpTo
<1>4. Way(a_, b, Append(c, n + 1), n + 1)
  BY <1>1, <1>2, <1>3 DEF Way
<1>5. PICK w : w = Whole(a_, b, c)
  OBVIOUS
<1>6. w \in Seq(Nat) /\ Whole(a_, b, Append(c, n + 1)) = Append(w, n + 1)
  <2>1. a_ \o b \in Seq(Nat) /\ w \in Seq(Nat)
    BY <1>1, <1>5, AppendIsJoin DEF Whole
  <2>2. <<n + 1>> \in Seq(Nat) /\ Append(c, n + 1) = c \o <<n + 1>> /\ Append(w, n + 1) = w \o <<n + 1>>
    BY <1>1, <2>1, AppendIsJoin
  <2>3. ((a_ \o b) \o c) \o <<n + 1>> = (a_ \o b) \o (c \o <<n + 1>>)
    <3>1. PICK p, q : p = a_ \o b /\ q = <<n + 1>>
      OBVIOUS
    <3>2. p \in Seq(Nat) /\ c \in Seq(Nat) /\ q \in Seq(Nat)
      BY <1>1, <2>1, <2>2, <3>1
    <3>3. (p \o c) \o q = p \o (c \o q)
      BY <3>2, JoinAssociates, Zenon
    <3> QED BY <3>1, <3>3
  <2> QED BY <1>5, <2>1, <2>2, <2>3 DEF Whole
<1>7. ASSUME w = Conn!FirstNumbers(n) PROVE Append(w, n + 1) = Conn!FirstNumbers(n + 1)
  <2>1. UpTo(w, n)
    BY <1>1, <1>6, <1>7 DEF UpTo, Conn!FirstNumbers
  <2> QED BY <1>1, <1>6, <1>7, <2>1, OneMore
<1> QED BY <1>4, <1>5, <1>6, <1>7

\* What is in the last place, or in the middle one, is thrown away.
LEMMA WayLess ==
    ASSUME NEW a_, NEW b, NEW c, NEW n, Way(a_, b, c, n)
    PROVE  Way(a_, b, <<>>, n) /\ Way(a_, <<>>, c, n)
<1>1. \A s \in Seq(Nat) : <<>> \in Seq(Nat) /\ Rising(<<>>) /\ Below(s, <<>>) /\ Below(<<>>, s) /\ UpTo(<<>>, n)
  BY EmptyFacts DEF Way
<1> QED BY <1>1, Zenon DEF Way

\* k bytes go from the last place to the empty one before it.
LEMMA WayFill ==
    ASSUME NEW a_, NEW c, NEW n, Way(a_, <<>>, c, n), NEW k \in 0..Len(c)
    PROVE  /\ Way(a_, SubSeq(c, 1, k), SubSeq(c, k + 1, Len(c)), n)
           /\ Whole(a_, SubSeq(c, 1, k), SubSeq(c, k + 1, Len(c))) = Whole(a_, <<>>, c)
<1>1. a_ \in Seq(Nat) /\ c \in Seq(Nat) /\ n \in Nat /\ Len(c) \in Nat
  BY DEF Way
<1>2. 1 \in 1..Len(c) + 1 /\ k + 1 \in 1..Len(c) + 1 /\ Len(c) \in 0..Len(c)
  BY <1>1
<1>3. PICK u, v : u = SubSeq(c, 1, k) /\ v = SubSeq(c, k + 1, Len(c))
  OBVIOUS
<1>4. u \in Seq(Nat) /\ Rising(u) /\ UpTo(u, n) /\ Below(a_, u)
  BY <1>1, <1>2, <1>3, PieceOf DEF Way
<1>5. v \in Seq(Nat) /\ Rising(v) /\ UpTo(v, n) /\ Below(a_, v)
  BY <1>1, <1>2, <1>3, PieceOf DEF Way
<1>6. u \o v = c /\ Below(u, v)
  BY <1>1, <1>3, Uncut DEF Way
<1>7. Way(a_, u, v, n)
  BY <1>1, <1>4, <1>5, <1>6 DEF Way
<1>8. Whole(a_, u, v) = Whole(a_, <<>>, c)
  <2>1. (a_ \o u) \o v = a_ \o (u \o v) /\ a_ \o <<>> = a_
    BY <1>1, <1>4, <1>5, JoinAssociates, SeqFacts
  <2> QED BY <1>6, <2>1 DEF Whole
<1> QED BY <1>3, <1>7, <1>8

\* What is in the middle place goes on to the first one.
LEMMA WayOn ==
    ASSUME NEW a_, NEW b, NEW c, NEW n, Way(a_, b, c, n)
    PROVE  /\ Way(a_ \o b, <<>>, c, n)
           /\ Whole(a_ \o b, <<>>, c) = Whole(a_, b, c)
<1>1. a_ \in Seq(Nat) /\ b \in Seq(Nat) /\ c \in Seq(Nat) /\ n \in Nat
  BY DEF Way
<1>2. PICK u : u = a_ \o b
  OBVIOUS
<1>3. u \in Seq(Nat) /\ Rising(u) /\ Below(u, c)
  BY <1>1, <1>2, JoinAt, JoinRises, JoinBelow DEF Way, Joint
<1>4. UpTo(u, n)
  BY <1>1, <1>2, JoinUpTo DEF Way
<1>5. Way(u, <<>>, c, n)
  BY <1>1, <1>3, <1>4, EmptyFacts DEF Way
<1>6. u \o <<>> = u
  BY <1>3
<1> QED BY <1>2, <1>5, <1>6 DEF Whole

\* The first byte of the middle place goes on.
LEMMA WayRead ==
    ASSUME NEW a_, NEW b, NEW c, NEW n, Way(a_, b, c, n), b # <<>>
    PROVE  /\ Way(Append(a_, Head(b)), Tail(b), c, n)
           /\ Whole(Append(a_, Head(b)), Tail(b), c) = Whole(a_, b, c)
<1>1. a_ \in Seq(Nat) /\ b \in Seq(Nat) /\ c \in Seq(Nat) /\ n \in Nat
  BY DEF Way
<1>2. PICK u, v : u = SubSeq(b, 1, 1) /\ v = SubSeq(b, 1 + 1, Len(b))
  OBVIOUS
<1>3. u = <<Head(b)>> /\ v = Tail(b) /\ Head(b) \in Nat /\ 1 \in 0..Len(b)
  BY <1>1, <1>2, HeadAndTail
<1>4. 1 \in 1..Len(b) + 1 /\ 1 + 1 \in 1..Len(b) + 1 /\ Len(b) \in 0..Len(b)
  BY <1>1, <1>3
<1>5. u \in Seq(Nat) /\ Rising(u) /\ UpTo(u, n) /\ Below(a_, u) /\ Below(u, c)
  BY <1>1, <1>2, <1>3, <1>4, PieceOf DEF Way
<1>6. v \in Seq(Nat) /\ Rising(v) /\ UpTo(v, n) /\ Below(a_, v) /\ Below(v, c)
  BY <1>1, <1>2, <1>4, PieceOf DEF Way
<1>7. u \o v = b /\ Below(u, v)
  BY <1>1, <1>2, <1>3, Uncut DEF Way
<1>8. Append(a_, Head(b)) = a_ \o u
  BY <1>1, <1>3, AppendIsJoin
<1>9. PICK w : w = a_ \o u
  OBVIOUS
<1>10. w \in Seq(Nat) /\ Rising(w) /\ Below(w, c) /\ Below(w, v)
  BY <1>1, <1>5, <1>6, <1>7, <1>9, JoinAt, JoinRises, JoinBelow DEF Way, Joint
<1>11. UpTo(w, n)
  BY <1>1, <1>5, <1>9, JoinUpTo DEF Way
<1>12. Way(w, v, c, n)
  BY <1>1, <1>6, <1>10, <1>11 DEF Way
<1>13. Whole(w, v, c) = Whole(a_, b, c)
  <2>1. (a_ \o u) \o v = a_ \o (u \o v)
    BY <1>1, <1>5, <1>6, JoinAssociates
  <2> QED BY <1>7, <1>9, <2>1 DEF Whole
<1> QED BY <1>3, <1>8, <1>9, <1>12, <1>13

StreamPlace == {"idle", "send", "recv", "poll", "take", "clear", "close"}

StreamTypes ==
    /\ pc \in [Conn!StreamThreads -> StreamPlace]
    /\ so_ \in Fds \cup {0} /\ so \in [Conn!StreamThreads -> Fds \cup {0}]
    /\ table \in [Fds -> {"free", "stream", "app"}]

\* From the user to the peer.
OutInv ==
    /\ Way(sent, <<>>, pbuf, wrote)
    /\ lost = {} => Whole(sent, <<>>, pbuf) = Conn!FirstNumbers(wrote) /\ (pbuf = <<>> \/ Conn!Connected)

\* From the peer to the user; recv() is called when gbuf has been read.
InInv ==
    /\ Way(got, gbuf, unread, arrived)
    /\ ~dropped => Whole(got, gbuf, unread) = Conn!FirstNumbers(arrived)
    /\ pc["user"] = "recv" => gbuf = <<>>

LEMMA StreamStarts == ASSUME Conn!StreamAssumption, Conn!StreamInit PROVE StreamTypes /\ OutInv /\ InInv
<1>1. StreamTypes
  BY DEF Conn!StreamAssumption, Conn!StreamInit, StreamTypes, StreamPlace, Conn!StreamThreads
<1>2. Way(<<>>, <<>>, <<>>, 0)
  BY DEF Way, Rising, Below, UpTo
<1>3. Whole(<<>>, <<>>, <<>>) = Conn!FirstNumbers(0)
  BY DEF Whole, Conn!FirstNumbers
<1>4. pc["user"] # "recv"
  BY DEF Conn!StreamInit, Conn!StreamThreads
<1> QED BY <1>1, <1>2, <1>3, <1>4 DEF Conn!StreamInit, OutInv, InInv

LEMMA StreamImplied == ASSUME OutInv, InInv PROVE Conn!DeliveredInOrder
<1>1. sent \o <<>> = sent
  BY SeqFacts DEF OutInv, Way
<1>2. Conn!Increasing((sent \o <<>>) \o pbuf) /\ Conn!Increasing((got \o gbuf) \o unread)
  BY WayRises DEF OutInv, InInv, Whole
<1> QED BY <1>1, <1>2 DEF OutInv, InInv, Whole, Conn!DeliveredInOrder

LEMMA StreamTypesKept ==
    ASSUME Conn!StreamAssumption, StreamTypes, [Conn!StreamNext]_(Conn!streamVars) PROVE StreamTypes'
<1> USE DEF StreamTypes, Conn!StreamThreads, StreamPlace, Conn!Goto, Conn!UserIdle
<1>1. CASE Conn!Put \/ Conn!Get \/ Conn!PeerSends \/ Conn!PeerHangsUp \/ Conn!MoveStream
           \/ UNCHANGED Conn!streamVars
  BY <1>1 DEF Conn!Put, Conn!Get, Conn!PeerSends, Conn!PeerHangsUp, Conn!MoveStream, Conn!streamVars
<1>2. CASE Conn!Flush \/ Conn!Overflow \/ Conn!CloseStream \/ Conn!Underflow \/ Conn!Wait
  BY <1>2 DEF Conn!Flush, Conn!Overflow, Conn!CloseStream, Conn!Underflow, Conn!Wait, Conn!Enter
<1>3. CASE Conn!NotSent \/ Conn!BrokenPipe \/ Conn!IoError \/ Conn!Polled \/ Conn!Stop
  BY <1>3 DEF Conn!NotSent, Conn!BrokenPipe, Conn!IoError, Conn!Polled, Conn!Stop
<1>4. ASSUME NEW n \in 0..BufSize, Conn!Sent(n) \/ Conn!Received(n) PROVE StreamTypes'
  BY <1>4 DEF Conn!Sent, Conn!Received
<1>5. ASSUME NEW t \in Conn!StreamThreads, Conn!TakeSo(t) \/ Conn!ClearSo(t) \/ Conn!CloseSo(t)
      PROVE  StreamTypes'
  BY <1>5 DEF Conn!TakeSo, Conn!ClearSo, Conn!CloseSo
<1>6. CASE Conn!DestroyStream \/ Conn!OtherOpens
  BY <1>6 DEF Conn!DestroyStream, Conn!OtherOpens
<1> QED BY <1>1, <1>2, <1>3, <1>4, <1>5, <1>6 DEF Conn!StreamNext

\* However much of the buffer a send takes, and wherever it goes, bytes reach the peer
\* in order, and with none missing unless the history says so.
LEMMA SentKeeps ==
    ASSUME Conn!StreamAssumption, StreamTypes, OutInv, NEW n \in 0..BufSize, Conn!Sent(n) PROVE OutInv'
<1>1. n \in 1..Len(pbuf) /\ pbuf \in Seq(Nat) /\ sent \in Seq(Nat) /\ Len(pbuf) \in Nat /\ n \in 0..Len(pbuf)
  <2>1. n \in 1..Len(pbuf)
    BY Zenon DEF Conn!Sent
  <2>2. pbuf \in Seq(Nat) /\ sent \in Seq(Nat)
    BY DEF OutInv, Way
  <2>3. Len(pbuf) \in Nat
    BY <2>2, SeqFacts
  <2> QED BY <2>1, <2>2, <2>3
<1>2. PICK u, v : u = SubSeq(pbuf, 1, n) /\ v = SubSeq(pbuf, n + 1, Len(pbuf))
  OBVIOUS
<1>3. Way(sent, u, v, wrote) /\ Whole(sent, u, v) = Whole(sent, <<>>, pbuf)
  BY <1>1, <1>2, WayFill DEF OutInv
<1>4. Way(sent \o u, <<>>, v, wrote) /\ Whole(sent \o u, <<>>, v) = Whole(sent, u, v)
  BY <1>3, WayOn
<1>5. Way(sent \o u, <<>>, <<>>, wrote) /\ Way(sent, <<>>, <<>>, wrote)
  BY <1>4, WayLess DEF OutInv
<1>6. Conn!Target \in {"free", "stream", "app"} /\ Conn!Target # "free"
  BY DEF Conn!Target, StreamTypes, Conn!Sent, Conn!StreamThreads
<1>7. PICK w : w = sent'
  OBVIOUS
<1>8. w \in {sent, sent \o u} /\ Way(w, <<>>, <<>>, wrote)
  BY <1>2, <1>5, <1>7 DEF Conn!Sent
<1>9. ASSUME lost' = {} PROVE Whole(w, <<>>, <<>>) = Conn!FirstNumbers(wrote) /\ Conn!Connected'
  <2>1. lost = {} /\ n = Len(pbuf) /\ Conn!Target = "stream"
    <3>1. lost' = lost \cup Conn!Because("short send", n < Len(pbuf)) \cup Conn!Because("sent elsewhere", Conn!Target = "app")
      BY DEF Conn!Sent
    <3>2. lost = {} /\ ~(n < Len(pbuf)) /\ ~(Conn!Target = "app")
      BY <1>9, <3>1 DEF Conn!Because
    <3> QED BY <1>1, <1>6, <3>2
  <2>2. v = <<>> /\ w = sent \o u
    <3>1. sent' = sent \o SubSeq(pbuf, 1, n)
      <4>1. sent' = IF Conn!Target = "stream" THEN sent \o SubSeq(pbuf, 1, n) ELSE sent
        BY Zenon DEF Conn!Sent
      <4> QED BY <2>1, <4>1
    <3>2. v = <<>>
      BY <1>1, <1>2, <2>1
    <3> QED BY <1>2, <1>7, <3>1, <3>2
  <2>3. Conn!Connected'
    <3>1. so["user"] \in Fds /\ table[so["user"]] = "stream" /\ table' = table
      BY <2>1 DEF Conn!Target, Conn!Sent, StreamTypes, Conn!StreamThreads
    <3> QED BY <3>1 DEF Conn!Connected
  <2> QED BY <1>3, <1>4, <2>1, <2>2, <2>3 DEF OutInv
<1>10. CASE after # "store"
  <2>1. pbuf' = <<>> /\ wrote' = wrote
    BY <1>10 DEF Conn!Sent, Conn!Remaining
  <2> QED BY <1>7, <1>8, <1>9, <2>1 DEF OutInv
<1>11. CASE after = "store"
  <2>1. pbuf' = Append(<<>>, wrote + 1) /\ wrote' = wrote + 1
    BY <1>11 DEF Conn!Sent, Conn!Remaining
  <2>2. /\ Way(w, <<>>, Append(<<>>, wrote + 1), wrote + 1)
        /\ Whole(w, <<>>, <<>>) = Conn!FirstNumbers(wrote)
           => Whole(w, <<>>, Append(<<>>, wrote + 1)) = Conn!FirstNumbers(wrote + 1)
    BY <1>8, WayMore
  <2> QED BY <1>7, <1>9, <2>1, <2>2 DEF OutInv
<1> QED BY <1>10, <1>11

LEMMA OutStep ==
    ASSUME Conn!StreamAssumption, StreamTypes, OutInv, [Conn!StreamNext]_(Conn!streamVars) PROVE OutInv'
<1>1. CASE Conn!Put
  <2>1. sent' = sent /\ pbuf' = Append(pbuf, wrote + 1) /\ wrote' = wrote + 1
        /\ lost' = lost \cup Conn!Because("written late", ~Conn!Connected) /\ table' = table
    BY <1>1 DEF Conn!Put
  <2>3. lost' = {} => lost = {} /\ Conn!Connected'
    BY <2>1 DEF Conn!Because, Conn!Connected
  <2>2. /\ Way(sent, <<>>, Append(pbuf, wrote + 1), wrote + 1)
        /\ Whole(sent, <<>>, pbuf) = Conn!FirstNumbers(wrote)
           => Whole(sent, <<>>, Append(pbuf, wrote + 1)) = Conn!FirstNumbers(wrote + 1)
    BY WayMore DEF OutInv
  <2> QED BY <2>1, <2>2, <2>3 DEF OutInv
<1>2. ASSUME NEW n \in 0..BufSize, Conn!Sent(n) PROVE OutInv'
  BY <1>2, SentKeeps
<1>3. CASE Conn!MoveStream \/ Conn!DestroyStream
  <2>1. sent' = sent /\ wrote' = wrote /\ pbuf' = <<>>
    BY <1>3 DEF Conn!MoveStream, Conn!DestroyStream
  <2>2. lost' = {} => lost = {} /\ pbuf = <<>>
    BY <1>3 DEF Conn!MoveStream, Conn!DestroyStream, Conn!Because
  <2> QED BY <2>1, <2>2, WayLess DEF OutInv
<1>4. ASSUME UNCHANGED <<sent, pbuf, wrote>>, lost' = {} => lost = {} /\ (pbuf = <<>> \/ (Conn!Connected => Conn!Connected'))
      PROVE  OutInv'
  BY <1>4 DEF OutInv
<1>a. ASSUME UNCHANGED <<sent, pbuf, wrote, lost, table>> PROVE OutInv'
  BY <1>4, <1>a DEF Conn!Connected
<1>5. CASE Conn!Flush \/ Conn!Overflow \/ Conn!CloseStream \/ Conn!Underflow \/ Conn!Wait
  BY <1>a, <1>5 DEF Conn!Flush, Conn!Overflow, Conn!CloseStream, Conn!Underflow, Conn!Wait, Conn!Enter
<1>6. CASE Conn!NotSent \/ Conn!BrokenPipe \/ Conn!IoError \/ Conn!Polled \/ Conn!Stop \/ Conn!Get
  BY <1>a, <1>6 DEF Conn!NotSent, Conn!BrokenPipe, Conn!IoError, Conn!Polled, Conn!Stop, Conn!Get
<1>7. ASSUME NEW n \in 0..BufSize, Conn!Received(n) PROVE OutInv'
  BY <1>a, <1>7 DEF Conn!Received
<1>8. ASSUME NEW t \in Conn!StreamThreads, Conn!TakeSo(t) \/ Conn!ClearSo(t) PROVE OutInv'
  BY <1>a, <1>8 DEF Conn!TakeSo, Conn!ClearSo
\* A descriptor that another call closes is not the connection's.
<1>9. ASSUME NEW t \in Conn!StreamThreads, Conn!CloseSo(t) PROVE OutInv'
  <2>1. UNCHANGED <<sent, pbuf, wrote>> /\ table' = [f \in Fds |-> IF f = so[t] THEN "free" ELSE table[f]]
    BY <1>9 DEF Conn!CloseSo
  <2>2. CASE \E f \in Fds : f = so[t] /\ table[f] = "stream"
    <3>1. lost' = lost \cup Conn!Because("closed", pbuf # <<>>)
      BY <1>9, <2>2 DEF Conn!CloseSo
    <3>2. lost' = {} => lost = {} /\ pbuf = <<>>
      BY <3>1 DEF Conn!Because
    <3> QED BY <1>4, <2>1, <3>2
  <2>3. CASE ~\E f \in Fds : f = so[t] /\ table[f] = "stream"
    <3>1. lost' = lost
      BY <1>9, <2>3 DEF Conn!CloseSo
    <3>2. Conn!Connected => Conn!Connected'
      BY <2>1, <2>3 DEF Conn!Connected
    <3> QED BY <1>4, <2>1, <3>1, <3>2
  <2> QED BY <2>2, <2>3
<1>10. CASE Conn!OtherOpens
  <2>1. UNCHANGED <<sent, pbuf, wrote, lost>> /\ \E f \in Fds : table[f] = "free" /\ table' = [table EXCEPT ![f] = "app"]
    BY <1>10 DEF Conn!OtherOpens
  <2>2. Conn!Connected => Conn!Connected'
    BY <2>1 DEF Conn!Connected, StreamTypes
  <2> QED BY <1>4, <2>1, <2>2
<1>11. CASE Conn!PeerSends \/ Conn!PeerHangsUp \/ UNCHANGED Conn!streamVars
  BY <1>a, <1>11 DEF Conn!PeerSends, Conn!PeerHangsUp, Conn!streamVars
<1> QED BY <1>1, <1>2, <1>3, <1>5, <1>6, <1>7, <1>8, <1>9, <1>10, <1>11 DEF Conn!StreamNext

LEMMA InStep ==
    ASSUME Conn!StreamAssumption, StreamTypes, InInv, [Conn!StreamNext]_(Conn!streamVars) PROVE InInv'
<1>0. "user" \in Conn!StreamThreads /\ \A t \in Conn!StreamThreads : t = "user" \/ t = "stopper"
  BY DEF Conn!StreamThreads
<1>1. ASSUME UNCHANGED <<got, gbuf, unread, arrived, dropped>>,
             pc'["user"] = "recv" => pc["user"] = "recv" \/ gbuf = <<>> PROVE InInv'
  BY <1>1 DEF InInv
<1>2. CASE Conn!Get
  <2>1. /\ got' = Append(got, Head(gbuf)) /\ gbuf' = Tail(gbuf) /\ gbuf # <<>>
        /\ UNCHANGED <<unread, arrived, dropped, pc>> /\ pc["user"] # "recv"
    BY <1>2 DEF Conn!Get, Conn!UserIdle
  <2> QED BY <2>1, WayRead DEF InInv
<1>3. ASSUME NEW n \in 0..BufSize, Conn!Received(n) PROVE InInv'
  <2>1. pc'["user"] = "idle" /\ UNCHANGED <<got, arrived, dropped>> /\ gbuf = <<>>
    BY <1>0, <1>3 DEF Conn!Received, Conn!Goto, StreamTypes, InInv
  <2>2. CASE Conn!Target = "stream"
    <3>1. gbuf' = SubSeq(unread, 1, n) /\ unread' = SubSeq(unread, n + 1, Len(unread)) /\ n \in 0..Len(unread)
      BY <1>3, <2>2, SeqFacts DEF Conn!Received, InInv, Way, Conn!StreamAssumption
    <3>2. /\ Way(got, SubSeq(unread, 1, n), SubSeq(unread, n + 1, Len(unread)), arrived)
          /\ Whole(got, SubSeq(unread, 1, n), SubSeq(unread, n + 1, Len(unread))) = Whole(got, <<>>, unread)
      BY <2>1, <3>1, WayFill DEF InInv
    <3> QED BY <2>1, <3>1, <3>2 DEF InInv
  <2>3. CASE Conn!Target # "stream"
    BY <1>1, <1>3, <2>1, <2>3 DEF Conn!Received
  <2> QED BY <2>2, <2>3
<1>4. CASE Conn!MoveStream
  <2>1. UNCHANGED <<got, unread, arrived, pc>> /\ gbuf' = <<>> /\ (~dropped' => ~dropped /\ gbuf = <<>>)
    BY <1>4 DEF Conn!MoveStream
  <2> QED BY <2>1, WayLess DEF InInv
<1>5. CASE Conn!PeerSends
  <2>1. UNCHANGED <<got, gbuf, dropped, pc>> /\ unread' = Append(unread, arrived + 1) /\ arrived' = arrived + 1
    BY <1>5 DEF Conn!PeerSends
  <2> QED BY <2>1, WayMore DEF InInv
<1>6. ASSUME NEW t \in Conn!StreamThreads, Conn!CloseSo(t) PROVE InInv'
  <2>1. UNCHANGED <<got, gbuf, arrived>> /\ (pc'["user"] = "recv" => pc["user"] = "recv")
    BY <1>0, <1>6 DEF Conn!CloseSo, Conn!Goto, StreamTypes
  <2>2. CASE unread' = unread /\ dropped' = dropped
    BY <1>1, <2>1, <2>2
  <2>3. CASE unread' = <<>> /\ (~dropped' => ~dropped /\ unread = <<>>)
    BY <2>1, <2>3, WayLess DEF InInv
  <2> QED BY <1>6, <2>2, <2>3 DEF Conn!CloseSo
<1>7. CASE Conn!Flush \/ Conn!Overflow \/ Conn!CloseStream \/ Conn!Underflow \/ Conn!Wait
  BY <1>0, <1>1, <1>7 DEF Conn!Flush, Conn!Overflow, Conn!CloseStream, Conn!Underflow, Conn!Wait, Conn!Enter,
     Conn!Goto, StreamTypes
<1>8. CASE Conn!NotSent \/ Conn!BrokenPipe \/ Conn!IoError \/ Conn!Polled \/ Conn!Stop
  BY <1>0, <1>1, <1>8 DEF Conn!NotSent, Conn!BrokenPipe, Conn!IoError, Conn!Polled, Conn!Stop, Conn!Goto, StreamTypes
<1>9. ASSUME NEW n \in 0..BufSize, Conn!Sent(n) PROVE InInv'
  BY <1>0, <1>1, <1>9 DEF Conn!Sent, Conn!Goto, StreamTypes
<1>10. ASSUME NEW t \in Conn!StreamThreads, Conn!TakeSo(t) \/ Conn!ClearSo(t) PROVE InInv'
  BY <1>0, <1>1, <1>10 DEF Conn!TakeSo, Conn!ClearSo, Conn!Goto, StreamTypes
<1>11. CASE Conn!Put \/ Conn!OtherOpens \/ Conn!PeerHangsUp \/ UNCHANGED Conn!streamVars
  BY <1>1, <1>11 DEF Conn!Put, Conn!OtherOpens, Conn!PeerHangsUp, Conn!streamVars
<1>12. CASE Conn!DestroyStream
  <2>1. UNCHANGED <<got, arrived, pc>> /\ gbuf' = <<>> /\ unread' = <<>>
        /\ (~dropped' => ~dropped /\ gbuf = <<>> /\ unread = <<>>)
    BY <1>12 DEF Conn!DestroyStream
  <2>2. Way(got, <<>>, unread, arrived)
    BY WayLess DEF InInv
  <2>3. Way(got, <<>>, <<>>, arrived)
    BY <2>2, WayLess
  <2> QED BY <2>1, <2>3 DEF InInv
<1> QED BY <1>12, <1>2, <1>3, <1>4, <1>5, <1>6, <1>7, <1>8, <1>9, <1>10, <1>11 DEF Conn!StreamNext

-----------------------------------------------------------------------------
(* Side by side. *)

\* Whatever is in focus, each group of classes sees a step of its own or none.
LEMMA StepOfEach ==
    ASSUME [Next]_allVars
    PROVE  [Map!MapNext]_(Map!mapVars) /\ [Child!ChildNext]_(Child!childVars)
           /\ [Tty!SerialNext]_(Tty!serialVars)
           /\ [Addr!AddrNext]_(Addr!addrVars) /\ [Addr!ListNext]_(Addr!listVars)
           /\ [Fd!FdNext]_(Fd!fdVars) /\ [Key!KeyNext]_(Key!keyVars)
           /\ [Paged!PagerFileNext]_(Paged!pagerFileVars) /\ [Conn!StreamNext]_(Conn!streamVars)
<1> USE DEF allVars, fdV, Fd!fdVars, mapV, childV, ttyV, addrV, listV, Map!mapVars, Child!childVars, Tty!serialVars,
            Addr!addrVars, Addr!listVars, keyV, Key!keyVars, pagedV, Paged!pagerFileVars, connV, Conn!streamVars
<1>1. CASE UNCHANGED allVars
  BY <1>1
<1>2. CASE Next
  BY <1>2 DEF Next
<1> QED BY <1>1, <1>2

\* Through any calls of any number of map_t objects, none points at memory that is not
\* mapped, no two share a mapping, and release() unlinks a name only from the segment
\* its object created, unless two objects have created one name at once.
THEOREM MapsCorrect == Spec => []MappingsHeld
<1>1. Init => MappingInv /\ NameInv
  BY MapStarts DEF Init
<1>2. MappingInv /\ NameInv /\ [Next]_allVars => (MappingInv /\ NameInv)'
  BY SystemAssumption, StepOfEach, MappingStep, NameStep
<1>3. MappingInv /\ NameInv => MappingsHeld
  BY DEF MappingInv, NameInv, MappingsHeld, Map!UnlinksItsOwn
<1> QED BY <1>1, <1>2, <1>3, PTL DEF Spec

\* However many threads start children, wait for them, are interrupted or fail to
\* fork, a thread that waited for a child is told how that child ended, or 255 where
\* its own wait was interrupted or a spawn() without a child reaped it first.
THEOREM ChildrenCorrect == Spec => []AnswersForItsChild
<1>1. Init => ChildInv
  BY SystemAssumption, ChildStarts DEF Init
<1>2. ChildInv /\ [Next]_allVars => ChildInv'
  BY SystemAssumption, StepOfEach, ChildStep
<1>3. ChildInv => AnswersForItsChild
  BY DEF ChildInv, AnswersForItsChild
<1> QED BY <1>1, <1>2, <1>3, PTL DEF Spec

\* Any number of handles, copied, moved, reopened and closed in any order, give the
\* terminal its first settings back when the last is closed, unless it was opened
\* while open; and current_ is what is in force until another handle interferes.
THEOREM SerialCorrect == Spec => []SettingsKept
<1>1. Init => SerialInv
  BY SerialStarts DEF Init
<1>2. SerialInv /\ [Next]_allVars => SerialInv'
  BY StepOfEach, SerialStep
<1>3. SerialInv => SettingsKept
  BY DEF SerialInv, SettingsKept
<1> QED BY <1>1, <1>2, <1>3, PTL DEF Spec

\* An address that any chain of operations makes comes back from its text, but for its
\* scope and for a path cut before its slash, which has none; a copy is whole but for a
\* Unix path, and lookups keep the family; a list is freed once and held once, and
\* size() is its length until a second update().
THEOREM AddressesCorrect == Spec => []AddressesKept
<1>1. Init => AddrInv /\ ListInv
  BY SystemAssumption, AddrStarts, ListStarts DEF Init
<1>2. AddrInv /\ ListInv /\ [Next]_allVars => (AddrInv /\ ListInv)'
  BY SystemAssumption, StepOfEach, AddrStep, ListStep
<1>3. AddrInv /\ ListInv => AddressesKept
  <2> SUFFICES ASSUME AddrInv, ListInv PROVE AddressesKept
    OBVIOUS
  <2>1. Addr!TextRoundTrip
    BY SystemAssumption, RoundTrip DEF AddrInv, Addr!TextRoundTrip
  <2> QED BY <2>1, SystemAssumption, ListImplied DEF AddrInv, AddressesKept
<1> QED BY <1>1, <1>2, <1>3, PTL DEF Spec

\* In a process with any number of sockets, references, files and descriptor numbers,
\* no object closes a number that is another file's by now, and every open file has
\* one holder, unless a file was moved by assignment or a loop dropped a socket.
THEOREM DescriptorsCorrect == Spec => []DescriptorsOwned
<1>1. Init => FdInv
  BY SystemAssumption, FdStarts DEF Init
<1>2. FdInv /\ [Next]_allVars => FdInv'
  BY SystemAssumption, StepOfEach, FdStep
<1> QED BY <1>1, <1>2, FdImplied, PTL DEF Spec

\* However keyfiles are shared, changed, loaded and saved, a file that write() completed
\* is read back as it was meant when no value has a newline, and one cut short by a crash
\* or a full disk gives some of the entries, and at most one value cut off, under its own
\* key; a page of a pager_file holds what was last put there, in part if that write was,
\* and the header is the last one set once its only writer has written it and is gone.
THEOREM FilesCorrect == Spec => []FilesKept
<1>1. Init => KeyInv /\ PagerInv
  BY SystemAssumption, KeyStarts, PagerStarts DEF Init
<1>2. KeyInv /\ PagerInv /\ [Next]_allVars => (KeyInv /\ PagerInv)'
  BY SystemAssumption, StepOfEach, KeyStep, PagerStep
<1>3. KeyInv /\ PagerInv => FilesKept
  BY SystemAssumption, KeyImplied, PagerImplied DEF FilesKept
<1> QED BY <1>1, <1>2, <1>3, PTL DEF Spec

\* For buffers of any size, bytes leave and arrive in the order they were written, none
\* twice; one that was written has been sent or waits for an open connection, unless a
\* send was short or went to another file, or the stream was moved, destroyed or closed
\* with bytes buffered, or written to afterwards; and one that came in can be read, unless
\* a move, the end of the stream or a hang-up discarded it.
THEOREM StreamCorrect == Spec => []DeliveredInOrder
<1>1. Init => StreamTypes /\ OutInv /\ InInv
  BY SystemAssumption, StreamStarts DEF Init
<1>2. (StreamTypes /\ OutInv /\ InInv) /\ [Next]_allVars => (StreamTypes /\ OutInv /\ InInv)'
  BY SystemAssumption, StepOfEach, StreamTypesKept, OutStep, InStep
<1>3. OutInv /\ InInv => DeliveredInOrder
  BY StreamImplied DEF DeliveredInOrder
<1> QED BY <1>1, <1>2, <1>3, PTL DEF Spec
=============================================================================
