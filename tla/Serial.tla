------------------------------- MODULE Serial -------------------------------
(***************************************************************************)
(* serial_t of serial.hpp on one POSIX terminal.  A handle keeps the       *)
(* settings it found when it opened the terminal (original_) and the ones  *)
(* it means to be in force (current_); close() puts the former back, and a *)
(* copied handle closes on its own.  A struct termios is abstracted to     *)
(* line or packet mode, character format, flow control, speed.             *)
(***************************************************************************)
EXTENDS Naturals, FiniteSets

CONSTANTS Handles,            \* serial_t objects, used by one thread or several
          MaxSerialCalls

VARIABLES tty,                \* the settings the terminal driver has
          device_, original_, current_, timed_, err_,
          temp,               \* temp[h]: {what dtr() will put back}, or {}
          serialCalls,
          first,              \* history: the settings before anyone opened it
          overlap,            \* history: two handles have opened it independently
          alone               \* history: the handles nobody has changed it behind

serialVars == <<tty, device_, original_, current_, timed_, err_, temp, serialCalls,
                first, overlap, alone>>

Speeds == {0, 300, 9600}      \* 0 is B0: hang up
Formats == {"5n1", "7e2", "8n1"}
NoSettings == [line |-> FALSE, chars |-> "5n1", flow |-> FALSE, speed |-> 0]

SerialInit ==
    /\ tty = [line |-> TRUE, chars |-> "8n1", flow |-> TRUE, speed |-> 9600]
    /\ first = tty
    /\ device_ = [h \in Handles |-> FALSE]
    /\ original_ = [h \in Handles |-> NoSettings] /\ current_ = original_
    /\ timed_ = [h \in Handles |-> 0] /\ err_ = timed_
    /\ temp = [h \in Handles |-> {}]
    /\ serialCalls = 0 /\ overlap = FALSE /\ alone = {}

Opened == {h \in Handles : device_[h]}

SerialCall == serialCalls < MaxSerialCalls /\ serialCalls' = serialCalls + 1

\* reset(): raw 1-byte mode; the format and flow control of before are kept, the
\* speed bits of c_cflag are not.
Reset(s) == [s EXCEPT !.line = FALSE, !.speed = 0]

\* h sets the terminal to s through tcsetattr().
SetAttr(h, s) ==
    /\ tty' = s /\ alone' = alone \cap {h}

-----------------------------------------------------------------------------
(* Mutated forms of definitions below. *)

LeaveAsIs(h) == tty

-----------------------------------------------------------------------------

\* What close() leaves in the terminal.
Restored(h) == IF device_[h] THEN original_[h] ELSE tty

\* close() and the destructor.
Close(h) ==
    /\ SerialCall /\ temp[h] = {}
    /\ tty' = Restored(h)
    /\ alone' = IF device_[h] THEN {} ELSE alone
    /\ device_' = [device_ EXCEPT ![h] = FALSE]
    /\ timed_' = [timed_ EXCEPT ![h] = 0]
    /\ err_' = [err_ EXCEPT ![h] = 0]
    /\ UNCHANGED <<original_, current_, temp, first, overlap>>

\* open() of something that cannot be opened, or (without an error) is no terminal.
OpenFails(h, e) ==
    /\ SerialCall /\ temp[h] = {}
    /\ tty' = Restored(h)
    /\ alone' = IF device_[h] THEN {} ELSE alone
    /\ device_' = [device_ EXCEPT ![h] = FALSE]
    /\ timed_' = [timed_ EXCEPT ![h] = 0]
    /\ err_' = [err_ EXCEPT ![h] = e]
    /\ UNCHANGED <<original_, current_, temp, first, overlap>>

Open(h) ==
    /\ SerialCall /\ temp[h] = {}
    /\ device_' = [device_ EXCEPT ![h] = TRUE]
    /\ original_' = [original_ EXCEPT ![h] = Restored(h)]
    /\ current_' = [current_ EXCEPT ![h] = Reset(Restored(h))]
    /\ tty' = Reset(Restored(h))
    /\ timed_' = [timed_ EXCEPT ![h] = 0]
    /\ err_' = [err_ EXCEPT ![h] = 0]
    /\ overlap' = (overlap \/ Opened \ {h} # {})
    /\ alone' = {h}
    /\ UNCHANGED <<temp, first>>

\* The copy constructor: a handle of its own, with the source's settings.
Copy(h, from) ==
    /\ SerialCall /\ h # from /\ ~device_[h] /\ device_[from] /\ temp[from] = {}
    /\ device_' = [device_ EXCEPT ![h] = TRUE]
    /\ original_' = [original_ EXCEPT ![h] = original_[from]]
    /\ current_' = [current_ EXCEPT ![h] = current_[from]]
    /\ timed_' = [timed_ EXCEPT ![h] = timed_[from]]
    /\ err_' = [err_ EXCEPT ![h] = err_[from]]
    /\ alone' = IF from \in alone THEN alone \cup {h} ELSE alone \ {h}
    /\ UNCHANGED <<tty, temp, first, overlap>>

\* The move constructor (h has nothing open) and assignment (closes what h has).
Move(h, from) ==
    /\ SerialCall /\ h # from /\ temp[h] = {} /\ temp[from] = {}
    /\ tty' = Restored(h)
    /\ device_' = [device_ EXCEPT ![h] = device_[from], ![from] = FALSE]
    /\ original_' = [original_ EXCEPT ![h] = original_[from]]
    /\ current_' = [current_ EXCEPT ![h] = current_[from]]
    /\ timed_' = [timed_ EXCEPT ![h] = timed_[from]]
    /\ err_' = [err_ EXCEPT ![h] = err_[from], ![from] = 0]
    /\ alone' = IF device_[h] \/ from \notin alone THEN {} ELSE {h} \cup (alone \ {from})
    /\ UNCHANGED <<temp, first, overlap>>

\* An operation of h that changes current_ and installs it.
Install(h, s) ==
    /\ SerialCall /\ device_[h] /\ temp[h] = {}
    /\ current_' = [current_ EXCEPT ![h] = s]
    /\ SetAttr(h, s)
    /\ UNCHANGED <<device_, original_, err_, temp, first, overlap>>

TimedMode(h) ==
    /\ Install(h, [current_[h] EXCEPT !.line = FALSE])
    /\ timed_' = [timed_ EXCEPT ![h] = 1]

LineMode(h) ==
    /\ Install(h, [current_[h] EXCEPT !.line = TRUE])
    /\ timed_' = [timed_ EXCEPT ![h] = 0]

Flow(h, on) ==
    /\ Install(h, [current_[h] EXCEPT !.flow = on])
    /\ UNCHANGED timed_

\* A rate the switch does not know changes nothing, and is left out.
Speed(h, rate) ==
    /\ Install(h, [current_[h] EXCEPT !.speed = rate])
    /\ UNCHANGED timed_

Format(h, f) ==
    /\ Install(h, [current_[h] EXCEPT !.chars = f])
    /\ UNCHANGED timed_

\* A format with a NUL byte: strchr() finds it, no case takes it, and current_ has
\* lost its format (5 bits, no parity) by the time format() returns false.
FormatNul(h) ==
    /\ SerialCall /\ device_[h] /\ temp[h] = {}
    /\ current_' = [current_ EXCEPT ![h].chars = "5n1"]
    /\ alone' = alone \ {h}
    /\ UNCHANGED <<tty, device_, original_, timed_, err_, temp, first, overlap>>

\* dtr(): the speed goes to 0 ...
DtrDrop(h, msec) ==
    /\ SerialCall /\ device_[h] /\ temp[h] = {}
    /\ LET s == [current_[h] EXCEPT !.speed = 0]
       IN current_' = [current_ EXCEPT ![h] = s] /\ SetAttr(h, s)
    /\ temp' = IF msec = 0 THEN temp ELSE [temp EXCEPT ![h] = {tty}]
    /\ UNCHANGED <<device_, original_, timed_, err_, first, overlap>>

\* ... and after the sleep everything is as it was found, whoever changed it since.
DtrRestore(h) ==
    /\ \E s \in temp[h] : tty' = s /\ current_' = [current_ EXCEPT ![h] = s]
    /\ temp' = [temp EXCEPT ![h] = {}]
    /\ alone' = {h}
    /\ UNCHANGED <<device_, original_, timed_, err_, serialCalls, first, overlap>>

\* get() and put(), with or without echo: a failed read or write reports -result,
\* which is 1 whatever errno is.
Transfer(h, e) ==
    /\ SerialCall /\ device_[h] /\ temp[h] = {}
    /\ err_' = [err_ EXCEPT ![h] = e]
    /\ UNCHANGED <<tty, device_, original_, current_, timed_, temp, first, overlap, alone>>

SerialNext ==
    \E h \in Handles :
        \/ Close(h) \/ Open(h)
        \/ \E e \in {0, 2} : OpenFails(h, e)
        \/ \E from \in Handles : Copy(h, from) \/ Move(h, from)
        \/ TimedMode(h) \/ LineMode(h) \/ FormatNul(h)
        \/ \E on \in BOOLEAN : Flow(h, on)
        \/ \E rate \in Speeds \ {0} : Speed(h, rate)
        \/ \E f \in {"7e2", "8n1"} : Format(h, f)
        \/ \E msec \in {0, 120} : DtrDrop(h, msec)
        \/ DtrRestore(h)
        \/ \E e \in {0, 1} : Transfer(h, e)

SerialSpec == SerialInit /\ [][SerialNext]_serialVars

-----------------------------------------------------------------------------

(* Whatever was done through a handle and its copies, in whatever order they *)
(* were closed, moved and reopened, the terminal has its first settings again*)
(* when the last one is closed, unless two handles had opened it on their    *)
(* own.  Until then current_ of a handle nobody has interfered with is what  *)
(* is in force.                                                              *)
SettingsKept ==
    /\ Opened = {} /\ ~overlap => tty = first
    /\ \A h \in Opened \cap alone : tty = current_[h]
=============================================================================
