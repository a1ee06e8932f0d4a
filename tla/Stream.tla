------------------------------- MODULE Stream -------------------------------
(***************************************************************************)
(* socket_stream of stream.hpp: one connection, the thread that writes,    *)
(* reads and closes the stream, and another one that calls stop().  Bytes  *)
(* are numbered in the order in which they are written, or sent by the     *)
(* peer.  The rest of the program opens descriptors too, and the kernel    *)
(* hands out the lowest free number.                                       *)
(***************************************************************************)
EXTENDS Naturals, Sequences

CONSTANTS BufSize,            \* bytes that fit into pbuf and gbuf
          MaxBytes, MaxInput, \* bytes written, and bytes the peer sends
          Fds                 \* descriptor numbers, 1..n; 0 stands for -1

VARIABLES so_, pbuf, gbuf, alive, eofbit, failbit,
          pc, so,             \* per thread: where it is, and the so_ it has read
          after,              \* what the user thread does once sync() has returned
          table,              \* table[fd]: "free", "stream" or "app"
          peer, unread,       \* the peer is "up" or "gone"; bytes not yet received
          wrote, sent, arrived, got,   \* history: numbers and sequences of bytes
          lost, dropped,      \* history: how unsent bytes came to be lost; whether
                              \* unread ones were thrown away
          strayed             \* history: a call hit a descriptor not the stream's

StreamAssumption == BufSize \in Nat /\ 1 \in Fds

streamVars == <<so_, pbuf, gbuf, alive, eofbit, failbit, pc, so, after, table, peer,
                unread, wrote, sent, arrived, got, lost, dropped, strayed>>

StreamThreads == {"user", "stopper"}

\* The constructor: connected, or handed an accepted descriptor.
StreamInit ==
    /\ so_ = 1 /\ pbuf = <<>> /\ gbuf = <<>> /\ alive = TRUE
    /\ eofbit = FALSE /\ failbit = FALSE
    /\ pc = [t \in StreamThreads |-> "idle"] /\ so = [t \in StreamThreads |-> 0]
    /\ after = "return"
    /\ table = [f \in Fds |-> IF f = 1 THEN "stream" ELSE "free"]
    /\ peer = "up" /\ unread = <<>> /\ wrote = 0 /\ sent = <<>> /\ arrived = 0 /\ got = <<>>
    /\ lost = {} /\ dropped = FALSE /\ strayed = FALSE

UserIdle == alive /\ pc["user"] = "idle"

Goto(t, where) == pc' = [pc EXCEPT ![t] = where]

\* Reading so_ on the way into a call of the kernel.
Enter(call) ==
    /\ UserIdle
    /\ so' = [so EXCEPT !["user"] = so_] /\ Goto("user", call)
    /\ UNCHANGED <<so_, pbuf, gbuf, alive, eofbit, failbit, table, peer, unread, wrote,
                   sent, arrived, got, lost, dropped, strayed>>

\* The descriptor of the connection is open.
Connected == \E f \in Fds : table[f] = "stream"

Because(cause, when) == IF when THEN {cause} ELSE {}

\* What the kernel finds at the number the user thread brings along.
Target == IF so["user"] = 0 THEN "free" ELSE table[so["user"]]

-----------------------------------------------------------------------------
(* Mutated forms of definitions below. *)

KeepUnsent(n) == SubSeq(pbuf, n, Len(pbuf))

-----------------------------------------------------------------------------

\* sputc(): there is room, connected or not.
Put ==
    /\ UserIdle /\ wrote < MaxBytes /\ Len(pbuf) < BufSize
    /\ wrote' = wrote + 1 /\ pbuf' = Append(pbuf, wrote + 1)
    /\ lost' = lost \cup Because("written late", ~Connected)
    /\ UNCHANGED <<so_, gbuf, alive, eofbit, failbit, pc, so, after, table, peer, unread,
                   sent, arrived, got, dropped, strayed>>

\* sync(), on its own, from overflow() and from close().
Flush    == pbuf # <<>> /\ Enter("send") /\ after' = "return"
Overflow == wrote < MaxBytes /\ Len(pbuf) = BufSize /\ Enter("send") /\ after' = "store"
CloseStream == IF pbuf # <<>>
          THEN Enter("send") /\ after' = "stop"
          ELSE Enter("take") /\ after' = "stop"

\* setp() after a send of n bytes: whatever was not sent is forgotten.
Remaining(n) == <<>>

\* send() took n bytes; sync() is content and its caller goes on.
Sent(n) ==
    /\ pc["user"] = "send" /\ Target # "free"
    /\ n \in 1..Len(pbuf)
    /\ Target = "stream" => peer = "up"
    /\ sent' = IF Target = "stream" THEN sent \o SubSeq(pbuf, 1, n) ELSE sent
    /\ strayed' = (strayed \/ Target = "app")
    /\ lost' = lost \cup Because("short send", n < Len(pbuf)) \cup Because("sent elsewhere", Target = "app")
    /\ LET room == Remaining(n)
       IN IF after = "store"
          THEN pbuf' = Append(room, wrote + 1) /\ wrote' = wrote + 1
          ELSE pbuf' = room /\ UNCHANGED wrote
    /\ Goto("user", IF after = "stop" THEN "take" ELSE "idle")
    /\ UNCHANGED <<so_, gbuf, alive, eofbit, failbit, so, after, table, peer, unread,
                   arrived, got, dropped>>

\* EAGAIN or EINTR: sync() returns -1 and the buffer is kept.
NotSent ==
    /\ pc["user"] = "send" /\ Target # "free"
    /\ Goto("user", IF after = "stop" THEN "take" ELSE "idle")
    /\ strayed' = (strayed \/ Target = "app")
    /\ UNCHANGED <<so_, pbuf, gbuf, alive, eofbit, failbit, so, after, table, peer, unread,
                   wrote, sent, arrived, got, lost, dropped>>

\* io_err(), EPIPE: the stream is closed.
BrokenPipe ==
    /\ pc["user"] = "send" /\ Target = "stream" /\ peer = "gone"
    /\ Goto("user", "take") /\ after' = "stop"
    /\ UNCHANGED <<so_, pbuf, gbuf, alive, eofbit, failbit, so, table, peer, unread,
                   wrote, sent, arrived, got, lost, dropped, strayed>>

\* io_err(), any other error, of a closed descriptor or of the connection (ECONNRESET,
\* ETIMEDOUT), which may be dead after it: close() does not get to stop().
IoError ==
    /\ pc["user"] \in {"send", "recv", "poll"}
    /\ failbit' = TRUE /\ Goto("user", "idle")
    /\ peer' \in {peer} \cup Because("gone", Target = "stream")
    /\ strayed' = (strayed \/ Target = "app")
    /\ UNCHANGED <<so_, pbuf, gbuf, alive, eofbit, so, after, table, unread,
                   wrote, sent, arrived, got, lost, dropped>>

Get ==
    /\ UserIdle /\ gbuf # <<>>
    /\ got' = Append(got, Head(gbuf)) /\ gbuf' = Tail(gbuf)
    /\ UNCHANGED <<so_, pbuf, alive, eofbit, failbit, pc, so, after, table, peer, unread,
                   wrote, sent, arrived, lost, dropped, strayed>>

Underflow == gbuf = <<>> /\ Enter("recv") /\ UNCHANGED after

\* recv() gives n bytes; none is the end of the file, or EAGAIN.
Received(n) ==
    /\ pc["user"] = "recv" /\ Target # "free"
    /\ n \in 0..BufSize /\ n <= Len(unread)
    /\ IF Target = "stream"
       THEN /\ gbuf' = SubSeq(unread, 1, n) /\ unread' = SubSeq(unread, n + 1, Len(unread))
            /\ UNCHANGED strayed
       ELSE strayed' = TRUE /\ UNCHANGED <<gbuf, unread>>
    /\ Goto("user", "idle")
    /\ UNCHANGED <<so_, pbuf, alive, eofbit, failbit, so, after, table, peer, wrote, sent,
                   arrived, got, lost, dropped>>

Wait == so_ # 0 /\ gbuf = <<>> /\ Enter("poll") /\ after' = "stop"

\* wait_socket(): a hung up or closed descriptor closes the stream, input or not.
Polled ==
    /\ pc["user"] = "poll"
    /\ Goto("user", IF Target = "free" \/ (Target = "stream" /\ peer = "gone")
                    THEN "take" ELSE "idle")
    /\ strayed' = (strayed \/ Target = "app")
    /\ UNCHANGED <<so_, pbuf, gbuf, alive, eofbit, failbit, so, after, table, peer, unread,
                   wrote, sent, arrived, got, lost, dropped>>

\* stop(), and the same three statements in io_err() and wait_socket(): so = so_,
Stop ==
    /\ alive /\ pc["stopper"] = "idle" /\ Goto("stopper", "take")
    /\ UNCHANGED <<so_, pbuf, gbuf, alive, eofbit, failbit, so, after, table, peer, unread,
                   wrote, sent, arrived, got, lost, dropped, strayed>>

TakeSo(t) ==
    /\ pc[t] = "take" /\ Goto(t, "clear")
    /\ so' = [so EXCEPT ![t] = so_]
    /\ UNCHANGED <<so_, pbuf, gbuf, alive, eofbit, failbit, after, table, peer, unread,
                   wrote, sent, arrived, got, lost, dropped, strayed>>

\* so_ = -1,
ClearSo(t) ==
    /\ pc[t] = "clear" /\ Goto(t, "close") /\ so_' = 0
    /\ UNCHANGED <<pbuf, gbuf, alive, eofbit, failbit, so, after, table, peer, unread,
                   wrote, sent, arrived, got, lost, dropped, strayed>>

\* close_socket(so), and for the user thread setstate(eofbit).  What is buffered, after
\* stop() or a sync() that sent nothing, has nowhere to go.
CloseSo(t) ==
    /\ pc[t] = "close" /\ Goto(t, "idle")
    /\ table' = [f \in Fds |-> IF f = so[t] THEN "free" ELSE table[f]]
    /\ strayed' = (strayed \/ \E f \in Fds : f = so[t] /\ table[f] # "stream")
    /\ IF \E f \in Fds : f = so[t] /\ table[f] = "stream"
       THEN /\ dropped' = (dropped \/ unread # <<>>) /\ unread' = <<>>
            /\ lost' = lost \cup Because("closed", pbuf # <<>>)
       ELSE UNCHANGED <<dropped, unread, lost>>
    /\ eofbit' = (eofbit \/ t = "user")
    /\ UNCHANGED <<so_, pbuf, gbuf, alive, failbit, so, after, peer, wrote, sent, arrived,
                   got>>

\* Moved into another object: the connection goes along, what is buffered does not.
MoveStream ==
    /\ UserIdle /\ pc["stopper"] = "idle"
    /\ lost' = lost \cup Because("moved", pbuf # <<>>) /\ dropped' = (dropped \/ gbuf # <<>>)
    /\ pbuf' = <<>> /\ gbuf' = <<>> /\ eofbit' = FALSE /\ failbit' = FALSE
    /\ UNCHANGED <<so_, alive, pc, so, after, table, peer, unread, wrote, sent, arrived,
                   got, strayed>>

\* The destructor, or an assignment to the stream: it closes without sync(), and what
\* is buffered or not received goes with it.
DestroyStream ==
    /\ UserIdle /\ pc["stopper"] = "idle"
    /\ alive' = FALSE /\ so_' = 0
    /\ lost' = lost \cup Because("destroyed", pbuf # <<>>) /\ pbuf' = <<>>
    /\ dropped' = (dropped \/ gbuf # <<>> \/ unread # <<>>) /\ gbuf' = <<>> /\ unread' = <<>>
    /\ table' = [f \in Fds |-> IF f = so_ THEN "free" ELSE table[f]]
    /\ strayed' = (strayed \/ \E f \in Fds : f = so_ /\ table[f] # "stream")
    /\ UNCHANGED <<eofbit, failbit, pc, so, after, peer, wrote, sent, arrived, got>>

\* The rest of the program opens a file.
OtherOpens ==
    /\ \E f \in Fds : /\ table[f] = "free" /\ \A g \in Fds : table[g] = "free" => f <= g
                      /\ table' = [table EXCEPT ![f] = "app"]
    /\ UNCHANGED <<so_, pbuf, gbuf, alive, eofbit, failbit, pc, so, after, peer, unread,
                   wrote, sent, arrived, got, lost, dropped, strayed>>

\* The peer sends a byte, or hangs up.
PeerSends ==
    /\ peer = "up" /\ arrived < MaxInput /\ \E f \in Fds : table[f] = "stream"
    /\ arrived' = arrived + 1 /\ unread' = Append(unread, arrived + 1)
    /\ UNCHANGED <<so_, pbuf, gbuf, alive, eofbit, failbit, pc, so, after, table, peer,
                   wrote, sent, got, lost, dropped, strayed>>

PeerHangsUp ==
    /\ peer = "up" /\ peer' = "gone"
    /\ UNCHANGED <<so_, pbuf, gbuf, alive, eofbit, failbit, pc, so, after, table, unread,
                   wrote, sent, arrived, got, lost, dropped, strayed>>

StreamNext ==
    \/ Put \/ Flush \/ Overflow \/ CloseStream \/ NotSent \/ BrokenPipe \/ IoError
    \/ \E n \in 0..BufSize : Sent(n) \/ Received(n)
    \/ Get \/ Underflow \/ Wait \/ Polled
    \/ Stop \/ \E t \in StreamThreads : TakeSo(t) \/ ClearSo(t) \/ CloseSo(t)
    \/ MoveStream \/ DestroyStream
    \/ OtherOpens \/ PeerSends \/ PeerHangsUp

StreamSpec == StreamInit /\ [][StreamNext]_streamVars

-----------------------------------------------------------------------------

FirstNumbers(n) == [i \in 1..n |-> i]
Increasing(s) == \A i \in 1..Len(s) - 1 : s[i] < s[i + 1]

(* However sends are cut short, refused and repeated, and whoever stops the  *)
(* stream meanwhile, the connection is given the bytes written in their order*)
(* and none twice, and so is the reader.  A byte that was written has been   *)
(* sent or waits in the buffer of an open connection, unless a send was short*)
(* or went to another file, or the stream was moved, destroyed or assigned to*)
(* with bytes buffered, closed with them there (by stop(), a hang-up, a      *)
(* broken pipe or a close() whose sync() sent nothing), or written to after  *)
(* it was closed.  One that came in has been read or can be, unless a move,  *)
(* an end of the stream or a hang-up discarded it.                           *)
DeliveredInOrder ==
    /\ Increasing(sent \o pbuf)
    /\ lost = {} => sent \o pbuf = FirstNumbers(wrote) /\ (pbuf = <<>> \/ Connected)
    /\ Increasing(got \o gbuf \o unread)
    /\ ~dropped => got \o gbuf \o unread = FirstNumbers(arrived)

(* stop() "may be called from another thread": whatever the user thread is   *)
(* doing then, no call reaches a descriptor that is not this stream's, and   *)
(* each is closed once.                                                      *)
StopIsSafe == ~strayed
=============================================================================
