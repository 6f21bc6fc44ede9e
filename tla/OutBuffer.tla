----------------------------- MODULE OutBuffer -----------------------------
(***************************************************************************)
(* The output of a terminal: from vty_out and vty_write through the chunks *)
(* of src/lib/vty/buffer.c to a non-blocking socket, as client_data of     *)
(* src/lib/vty/telnet_interface.c has it flushed when select() finds the   *)
(* socket writable.                                                        *)
(*                                                                         *)
(* One connection.  The bytes are numbered in the order in which they are  *)
(* put.  Each round of the loops of buffer_put, buffer_flush_all and       *)
(* buffer_flush_available is a step, because the peer takes bytes off the  *)
(* socket at any time; the program has one thread and does nothing else    *)
(* in between.  What vty_read does with a key is what it puts.             *)
(***************************************************************************)
EXTENDS Integers, SequencesExt

CONSTANTS
    Size,       \* bytes of a chunk, b->size
    MaxChunks,  \* chunks of one writev: MAX_CHUNKS
    MaxFlush,   \* no chunk is added behind so many bytes: MAX_FLUSH
    Room,       \* bytes the socket takes while the peer reads nothing
    Greeting,   \* bytes of print_message
    MaxBytes,   \* bytes put, all together
    MaxReads    \* how often the operator types

ASSUME SizeAssumption == Size \in Nat \ {0}
ASSUME WritevAssumption == MaxChunks \in Nat \ {0} /\ MaxFlush \in Nat \ {0}
ASSUME SocketAssumption == Room \in Nat \ {0} /\ Greeting \in Nat
ASSUME BudgetAssumption == MaxBytes \in Nat /\ MaxReads \in Nat

VARIABLES
    chunks,     \* b->head ..: data[0 .. cp - 1] of each, and sp
    type,       \* connection->fd.type, of "READ" and "WRITE"
    flags,      \* what this pass found the socket ready for
    closing,    \* in vty_close
    written,    \* bytes written whose chunks are not freed yet
    seen,       \* head and head->sp when the last round of buffer_flush_all began
    errno,      \* "EINTR" or "EAGAIN"
    pc,         \* where the program is
    put,        \* number of bytes put so far
    received,   \* the bytes the socket took
    space,      \* what the socket takes now
    typed,      \* keys that wait to be read
    reads,      \* how often the operator may still type
    gone        \* the peer has left

buffer == <<chunks, put>>
flushing == <<closing, written, seen, errno>>
terminal == <<received, space, typed, reads, gone>>
vars == <<buffer, type, flags, flushing, pc, terminal>>
-----------------------------------------------------------------------------
Cp(c) == Len(c.data)

Left(c) == SubSeq(c.data, c.sp + 1, Cp(c))

\* The bytes of the first m chunks not flushed.
Unflushed(m) == FlattenSeq([i \in 1 .. m |-> Left(chunks[i])])

\* The chunks of one writev.
Offered == {m \in 1 .. Len(chunks) : m <= MaxChunks /\ Len(Unflushed(m - 1)) < MaxFlush}

Head0 == <<Len(chunks), chunks[1].sp>>

Init ==
    /\ chunks = <<>>
    /\ type = {"READ"}
    /\ flags = {}
    /\ closing = FALSE
    /\ written = 0
    /\ seen = <<0, 0>>
    /\ errno = "EAGAIN"
    /\ pc = "create"
    /\ put = 0
    /\ received = <<>>
    /\ space = Room
    /\ typed = FALSE
    /\ reads = MaxReads
    /\ gone = FALSE
-----------------------------------------------------------------------------
(* The operator's client and the socket.                                   *)

PeerTypes ==
    /\ reads > 0 /\ ~typed /\ ~gone
    /\ reads' = reads - 1
    /\ typed' = TRUE
    /\ UNCHANGED <<buffer, type, flags, flushing, pc, received, space, gone>>

PeerReads ==
    /\ space < Room /\ ~gone
    /\ space' = Room
    /\ UNCHANGED <<buffer, type, flags, flushing, pc, received, typed, reads, gone>>

PeerLeaves ==
    /\ ~gone
    /\ gone' = TRUE
    /\ UNCHANGED <<buffer, type, flags, flushing, pc, received, space, typed, reads>>

Peer == PeerTypes \/ PeerReads \/ PeerLeaves
-----------------------------------------------------------------------------
(* Putting: within vty_create ("create") and vty_read ("read").            *)

\* One round of buffer_put: n bytes go into the last chunk or into a new one.
PutIn(n) ==
    LET new == [i \in 1 .. n |-> put + i]
        tail == chunks[Len(chunks)]
    IN  IF chunks = <<>> \/ Cp(tail) = Size
        THEN chunks' = Append(chunks, [data |-> new, sp |-> 0])
        ELSE chunks' = [chunks EXCEPT ![Len(chunks)].data = tail.data \o new]

\* A variant: what was flushed from the front counts as free at the end.
FreeBehindSp ==
    IF chunks = <<>> \/ Cp(chunks[Len(chunks)]) = Size
    THEN Size ELSE Size - Len(Left(chunks[Len(chunks)]))

\* Free bytes of the chunk that is written next.
FreeOfTail ==
    IF chunks = <<>> \/ Cp(chunks[Len(chunks)]) = Size
    THEN Size ELSE Size - Cp(chunks[Len(chunks)])

\* vty_out asks for the socket to be written, vty_write leaves that to vty_read.
BufferPut ==
    /\ pc \in {"create", "read"}
    /\ \E n \in 1 .. FreeOfTail :
         /\ put + n <= MaxBytes
         /\ PutIn(n)
         /\ put' = put + n
    /\ type' \in {type, type \cup {"WRITE"}}
    /\ UNCHANGED <<flags, flushing, pc, terminal>>

\* vty_close: what is left is flushed, the buffer freed.
VtyClose ==
    /\ closing' = TRUE
    /\ pc' = "flush"
    /\ UNCHANGED <<written, seen, errno>>

\* The end of vty_create.  What print_message writes overtakes what was put.
Created ==
    /\ pc = "create"
    /\ \/ /\ type' = type \cup {"READ", "WRITE"}
          /\ pc' = "select"
          /\ space' = IF Greeting < space THEN space - Greeting ELSE 0
          /\ UNCHANGED flushing
       \/ VtyClose /\ UNCHANGED <<type, space>>
    /\ UNCHANGED <<buffer, flags, received, typed, reads, gone>>
-----------------------------------------------------------------------------
(* The pass of the loop, and client_data.                                  *)

Readable == IF typed \/ gone THEN {"READ"} ELSE {}
Writable == IF space > 0 \/ gone THEN {"WRITE"} ELSE {}

\* vty_read takes away and gives back the wish to read.
Select ==
    /\ pc = "select"
    /\ flags' = type \cap (Readable \cup Writable)
    /\ flags' # {}
    /\ pc' = IF "READ" \in flags' THEN "toread" ELSE "flush"
    /\ type' = type \ (flags' \cap {"READ"})
    /\ UNCHANGED <<buffer, flushing, terminal>>

AfterRead == pc' = IF "WRITE" \in flags THEN "flush" ELSE "select"

\* read() was interrupted: it is tried in a later pass.
ReadInterrupted ==
    /\ pc = "toread"
    /\ type' = type \cup {"READ"}
    /\ AfterRead
    /\ UNCHANGED <<buffer, flags, flushing, terminal>>

\* Keys to handle; or the end, at which what was not flushed is dropped.
VtyRead ==
    /\ pc = "toread"
    /\ \/ /\ typed
          /\ typed' = FALSE
          /\ pc' = "read"
          /\ UNCHANGED <<chunks, flushing>>
       \/ /\ ~typed
          /\ chunks' = <<>>
          /\ VtyClose
          /\ typed' = typed
    /\ UNCHANGED <<put, type, flags, received, space, reads, gone>>

\* A variant: only vty_out asks for the socket to be written.
ReadEndsUnwritten ==
    /\ pc = "read"
    /\ \/ type' = type \cup {"READ"} /\ AfterRead /\ UNCHANGED flushing
       \/ VtyClose /\ type' = type
    /\ UNCHANGED <<buffer, flags, terminal>>

\* The end of vty_read: the session goes on, or a key or a command has ended it.
ReadEnds ==
    /\ pc = "read"
    /\ \/ type' = type \cup {"READ", "WRITE"} /\ AfterRead /\ UNCHANGED flushing
       \/ VtyClose /\ type' = type
    /\ UNCHANGED <<buffer, flags, terminal>>
-----------------------------------------------------------------------------
(* Flushing.                                                               *)

\* buffer_flush_all returns, to client_data or to vty_close.
Flushed(empty) ==
    IF closing
    THEN /\ pc' = "closed"
         /\ chunks' = <<>>
         /\ type' = type
    ELSE /\ pc' = "select"
         /\ chunks' = chunks
         /\ type' = IF empty THEN type \ {"WRITE"} ELSE type

\* The beginning of buffer_flush_all.
FlushAll ==
    /\ pc = "flush"
    /\ IF chunks = <<>>
       THEN Flushed(TRUE) /\ seen' = seen
       ELSE pc' = "writev" /\ seen' = Head0 /\ UNCHANGED <<chunks, type>>
    /\ UNCHANGED <<put, flags, closing, written, errno, terminal>>

\* writev takes some of the bytes of the chunks offered.
Written ==
    /\ pc = "writev" /\ ~gone
    /\ \E m \in Offered, n \in 1 .. space :
         /\ \A o \in Offered : o <= m
         /\ n <= Len(Unflushed(m))
         /\ received' = received \o SubSeq(Unflushed(m), 1, n)
         /\ space' = space - n
         /\ written' = n
    /\ pc' = "free"
    /\ UNCHANGED <<buffer, type, flags, closing, seen, errno, typed, reads, gone>>

\* A variant: a chunk is freed when some of it is written.
FreeTornWritten ==
    /\ pc = "free" /\ written > 0 /\ chunks # <<>>
    /\ chunks' = Tail(chunks)
    /\ written' = IF written > Len(Left(chunks[1])) THEN written - Len(Left(chunks[1])) ELSE 0
    /\ UNCHANGED <<put, type, flags, closing, seen, errno, pc, terminal>>

\* A round of the loop that frees what was written: the whole head, or a part.
FreeWritten ==
    /\ pc = "free" /\ written > 0 /\ chunks # <<>>
    /\ LET left == Len(Left(chunks[1])) IN
       IF written < left
       THEN chunks' = [chunks EXCEPT ![1].sp = @ + written] /\ written' = 0
       ELSE chunks' = Tail(chunks) /\ written' = written - left
    /\ UNCHANGED <<put, type, flags, closing, seen, errno, pc, terminal>>

\* Nothing was written: the socket is full, or a signal arrived.
NotWritten ==
    /\ pc = "writev"
    /\ \/ errno' = "EINTR"
       \/ errno' = "EAGAIN" /\ space = 0 /\ ~gone
    /\ pc' = "free"
    /\ UNCHANGED <<buffer, type, flags, closing, written, seen, terminal>>

\* writev fails: BUFFER_ERROR ends buffer_flush_all.
WriteError ==
    /\ pc = "writev" /\ gone
    /\ Flushed(FALSE)
    /\ UNCHANGED <<put, flags, flushing, terminal>>

\* The end of buffer_flush_available and the test of buffer_flush_all: another round,
\* unless the buffer is empty or nothing was flushed.
RoundEnds ==
    /\ pc = "free" /\ (written = 0 \/ chunks = <<>>)
    /\ IF chunks = <<>> THEN Flushed(TRUE) /\ seen' = seen
       ELSE IF seen = Head0 /\ errno # "EINTR" THEN Flushed(FALSE) /\ seen' = seen
       ELSE pc' = "writev" /\ seen' = Head0 /\ UNCHANGED <<chunks, type>>
    /\ UNCHANGED <<put, flags, closing, written, errno, terminal>>
-----------------------------------------------------------------------------
Proceeds ==
    \/ Created \/ Select \/ VtyRead \/ ReadEnds
    \/ FlushAll \/ Written \/ FreeWritten \/ WriteError \/ RoundEnds

Program == Proceeds \/ BufferPut \/ ReadInterrupted \/ NotWritten

Next == Program \/ Peer

Spec == Init /\ [][Next]_vars

\* Signals interrupt read() and writev() again and again, but not each time, and a
\* command ends; the peer reads what it is sent.
FairSpec ==
    /\ Spec
    /\ WF_vars(Proceeds \/ NotWritten)
    /\ SF_vars(VtyRead) /\ SF_vars(Written \/ WriteError)
    /\ WF_vars(PeerReads)
-----------------------------------------------------------------------------
\* "It should always be true that: 0 <= sp <= cp <= size" (buffer.c:59), and more: no
\* chunk is empty, which is why a flush that has nothing to write may call the buffer
\* empty (buffer.c:401), and all chunks but the last are full.  Whatever the loop is
\* at, output that waits for the socket has the socket waited for: vty_write does not
\* ask for that itself.
NothingForgotten ==
    /\ \A i \in 1 .. Len(chunks) :
         /\ 0 <= chunks[i].sp /\ chunks[i].sp < Cp(chunks[i]) /\ Cp(chunks[i]) <= Size
         /\ i < Len(chunks) => Cp(chunks[i]) = Size
    /\ pc = "select" /\ chunks # <<>> => "WRITE" \in type
    /\ pc = "select" => "READ" \in type

\* What the program has still to write.
Pending == LET all == Unflushed(Len(chunks)) IN SubSeq(all, written + 1, Len(all))

Ended == pc = "closed" \/ (closing /\ gone)

Stream == INSTANCE ByteStream WITH
    queue <- IF Ended THEN <<>> ELSE Pending, delivered <- received, ended <- Ended

\* Chunks, short writes and retries deliver what was put, in order, each byte once,
\* until the connection ends (buffer_put, buffer_flush_all, client_data).
ImplementsByteStream == Stream!Spec

\* Every byte put is written in the end, unless the connection is closed: a socket
\* that was full does not keep the rest (buffer.c:196, telnet_interface.c:167).
AllWritten == \A b \in 1 .. MaxBytes : put >= b ~> Len(received) >= b \/ pc = "closed"
=============================================================================
