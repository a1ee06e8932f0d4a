------------------------------- MODULE KeyFile -------------------------------
(***************************************************************************)
(* keyfile of keyfile.hpp.  Copies of a keyfile share its data through a   *)
(* std::shared_ptr.  write() truncates the file and then writes and        *)
(* flushes line after line, in the order of an unordered map; a full disk  *)
(* or a crash loses the lines that follow and may cut one off.             *)
(* Text is abstracted to what load() tells apart: whether a key begins     *)
(* with a letter or digit, and whether a value is empty, blank or padded,  *)
(* is part of another one or goes on after a newline.  Names have no "=",  *)
(* newline, bracket or surrounding blank of their own, and a disk that was *)
(* full has no room again before the file is closed.                       *)
(***************************************************************************)
EXTENDS Naturals, Sequences, FiniteSets

CONSTANTS Handles,            \* keyfile objects
          Sections, Keys,     \* names; "_" is the section without a header
          OddKeys,            \* the keys that load() takes for comments
          MaxData, MaxCalls

VARIABLES ptr_,               \* ptr_[h]: the data h refers to, or 0
          entries,            \* entries[d]: set of <<section, key, value>>
          made, calls,
          file,               \* the lines on disk
          writer, section,    \* the data being saved, or 0; section last begun
          pending,            \* entries still to be written
          broken,             \* the output stream has failed
          wanted, whole       \* history: what the last write() was to save, and
                              \* whether every line reached the file

KeyAssumption == MaxData \in Nat \ {0}

keyVars == <<ptr_, entries, made, calls, file, writer, section, pending, broken, wanted, whole>>

\* "te" is what may be left of "text" when its line is cut off; "text+" is
\* "text", a newline and more.
Values == {"", " ", "te", "text", " text ", "text+"}

\* What load() finds on the line that v begins, and what of it in a cut line.
Trim(v) == CASE v = " " -> "" [] v \in {" text ", "text+"} -> "text" [] OTHER -> v
Cuts(v) == {"", Trim(v)} \cup (IF Trim(v) = "text" THEN {"te"} ELSE {})

Header(s) == [kind |-> "section", name |-> s]
Line(k, v) == [kind |-> "key", name |-> k, value |-> v]

\* What follows a newline in a value is a line of its own: one load() skips, an
\* entry or the header of a section.
Strays == [kind : {"key"}, name : Keys, value : Cuts("text")] \cup {Header(s) : s \in Sections}
Written(f, k, v) ==
    {Append(f, Line(k, Trim(v)))}
    \cup {Append(Append(f, Line(k, Trim(v))), x) : x \in IF v = "text+" THEN Strays ELSE {}}

\* A line cut off before its "=" is no entry, nor is a header without its "]".
CutShort(f, k, v) ==
    {Append(f, Line(k, c)) : c \in Cuts(v)} \cup (IF v = "text+" THEN Written(f, k, v) ELSE {})

KeyInit ==
    /\ ptr_ = [h \in Handles |-> 1] /\ made = 1 /\ calls = 0
    /\ entries = [d \in 1..MaxData |-> {}]
    /\ file = <<>> /\ writer = 0 /\ section = "_" /\ pending = {} /\ broken = FALSE
    /\ wanted = {} /\ whole = TRUE

Call == calls < MaxCalls /\ calls' = calls + 1 /\ writer = 0

Put(d, s, k, v) == {e \in d : e[1] # s \/ e[2] # k} \cup {<<s, k, v>>}

-----------------------------------------------------------------------------
(* Mutated forms of definitions below. *)

WriteAnywhere(e) ==
    /\ writer # 0 /\ e \in pending /\ ~broken
    /\ file' \in Written(file, e[2], e[3])
    /\ pending' = pending \ {e}
    /\ UNCHANGED <<ptr_, entries, made, calls, writer, section, broken, wanted, whole>>

-----------------------------------------------------------------------------

\* operator[], keyset() and load(id, list): assign to a key.
Assign(h, s, k, v) ==
    /\ Call /\ ptr_[h] # 0
    /\ entries' = [entries EXCEPT ![ptr_[h]] = Put(@, s, k, v)]
    /\ UNCHANGED <<ptr_, made, file, writer, section, pending, broken, wanted, whole>>

Remove(h, s) ==
    /\ Call /\ ptr_[h] # 0
    /\ entries' = [entries EXCEPT ![ptr_[h]] = {e \in @ : e[1] # s}]
    /\ UNCHANGED <<ptr_, made, file, writer, section, pending, broken, wanted, whole>>

\* clear() drops the reference, not the data that copies share.
Clear(h) ==
    /\ Call /\ ptr_[h] # 0
    /\ ptr_' = [ptr_ EXCEPT ![h] = 0]
    /\ UNCHANGED <<entries, made, file, writer, section, pending, broken, wanted, whole>>

\* Copy assignment shares; a new keyfile has data of its own.
Share(h, g) ==
    /\ Call /\ ptr_[h] # ptr_[g]
    /\ ptr_' = [ptr_ EXCEPT ![h] = ptr_[g]]
    /\ UNCHANGED <<entries, made, file, writer, section, pending, broken, wanted, whole>>

Create(h) ==
    /\ Call /\ made < MaxData
    /\ made' = made + 1 /\ ptr_' = [ptr_ EXCEPT ![h] = made + 1]
    /\ UNCHANGED <<entries, file, writer, section, pending, broken, wanted, whole>>

\* The section in force at line i, and the lines load() takes for entries.
SectionAt(i) ==
    LET before == {j \in 1..(i - 1) : file[j].kind = "section"}
    IN  IF before = {} THEN "_" ELSE file[CHOOSE j \in before : \A n \in before : n <= j].name
Taken == {i \in DOMAIN file : file[i].kind = "key" /\ file[i].name \notin OddKeys}

\* What a load() adds or replaces: the last line for a key counts.
OnFile == {<<SectionAt(i), file[i].name, file[i].value>> :
              i \in {j \in Taken : \A n \in Taken :
                        (n > j => SectionAt(n) # SectionAt(j) \/ file[n].name # file[j].name)}}

\* load(path): a value that was kept stays unless the file has one for its key.
Load(h) ==
    /\ Call /\ ptr_[h] # 0
    /\ entries' = [entries EXCEPT ![ptr_[h]] =
           {e \in @ : \A f \in OnFile : e[1] # f[1] \/ e[2] # f[2]} \cup OnFile]
    /\ UNCHANGED <<ptr_, made, file, writer, section, pending, broken, wanted, whole>>

Savable(d) == {e \in entries[d] : e[3] # ""}

\* write(path): the file is truncated when it is opened ...
Open(h) ==
    /\ Call /\ ptr_[h] # 0
    /\ writer' = ptr_[h] /\ file' = <<>> /\ section' = "_" /\ broken' = FALSE
    /\ pending' = Savable(ptr_[h]) /\ wanted' = Savable(ptr_[h]) /\ whole' = FALSE
    /\ UNCHANGED <<ptr_, entries, made>>

\* ... the keys of a section follow its header, those of "_" come first ...
WriteKey(e) ==
    /\ writer # 0 /\ e \in pending /\ e[1] = section /\ ~broken
    /\ file' \in Written(file, e[2], e[3])
    /\ pending' = pending \ {e}
    /\ UNCHANGED <<ptr_, entries, made, calls, writer, section, broken, wanted, whole>>

WriteHeader(s) ==
    /\ writer # 0 /\ ~broken /\ \A e \in pending : e[1] # section
    /\ \E e \in pending : e[1] = s
    /\ section' = s /\ file' = Append(file, Header(s))
    /\ UNCHANGED <<ptr_, entries, made, calls, writer, pending, broken, wanted, whole>>

\* ... a failed write leaves part of its line or none of it and loses every line
\* after it, unnoticed ...
WriteFails ==
    /\ writer # 0 /\ ~broken /\ pending # {}
    /\ broken' = TRUE
    /\ \/ UNCHANGED file
       \/ \E e \in pending : e[1] = section /\ file' \in CutShort(file, e[2], e[3])
    /\ UNCHANGED <<ptr_, entries, made, calls, writer, section, pending, wanted, whole>>

\* ... and save() returns true.
Finish ==
    /\ writer # 0 /\ (pending = {} \/ broken)
    /\ writer' = 0 /\ whole' = (pending = {}) /\ pending' = {}
    /\ UNCHANGED <<ptr_, entries, made, calls, file, section, broken, wanted>>

\* The process ends in the middle of a save, between two lines or in one
\* (WriteFails before it); a new one has an empty keyfile.
Crash ==
    /\ writer # 0 /\ made < MaxData
    /\ made' = made + 1 /\ ptr_' = [h \in Handles |-> made + 1]
    /\ writer' = 0 /\ pending' = {}
    /\ UNCHANGED <<entries, calls, file, section, broken, wanted, whole>>

KeyNext ==
    \/ \E h \in Handles :
        \/ \E s \in Sections, k \in Keys, v \in Values : Assign(h, s, k, v)
        \/ \E s \in Sections : Remove(h, s)
        \/ \E g \in Handles : Share(h, g)
        \/ Clear(h) \/ Create(h) \/ Load(h) \/ Open(h)
    \/ \E e \in pending : WriteKey(e)
    \/ \E s \in Sections : WriteHeader(s)
    \/ WriteFails \/ Finish \/ Crash

-----------------------------------------------------------------------------
Readable(d) == {<<e[1], e[2], Trim(e[3])>> : e \in {f \in d : f[2] \notin OddKeys}}
OneLine(d) == \A e \in d : e[3] # "text+"

\* When no value saved has a newline, a file that write() completed is read back
\* as the entries with a value, blanks around it apart, under names that load()
\* accepts.  One that a crash or a full disk cut short gives some of these, no key
\* of it in another section, and beyond them at most one value that nobody set:
\* the cut-off one of an entry, under its own key.
ReadsBack == OneLine(wanted) =>
    /\ (whole /\ writer = 0) => OnFile = Readable(wanted)
    /\ ~broken => OnFile \subseteq Readable(wanted)
    /\ \A f \in OnFile \ Readable(wanted) :
           /\ \E e \in wanted : e[1] = f[1] /\ e[2] = f[2] /\ f[3] \in Cuts(e[3])
           /\ \A g \in OnFile \ Readable(wanted) : f = g
=============================================================================
