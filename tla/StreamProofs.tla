---------------------------- MODULE StreamProofs ----------------------------
(***************************************************************************)
(* Theorems about the program's two streams of bytes.                      *)
(*                                                                         *)
(* A terminal's output, for every size of chunks, writev and socket: no    *)
(* chunk is left behind, and what the peer receives is what was put.       *)
(*                                                                         *)
(* The two Abis links, for any number of messages, buffer and lists of     *)
(* attributes: each message sent is dispatched once, in order and whole,   *)
(* and no request is carried out twice, as long as no read was short.      *)
(***************************************************************************)
EXTENDS OutBuffer, AbisLink, SequenceTheorems, WellFoundedInduction, TLAPS

Chunk == {c \in [data : Seq(Nat), sp : Nat] : c.sp < Len(c.data) /\ Len(c.data) <= Size}

AllButLastFull == \A i \in 1 .. Len(chunks) : i < Len(chunks) => Len(chunks[i].data) = Size

ChunksOK == chunks \in Seq(Chunk) /\ AllButLastFull

CountsOK == put \in Nat /\ written \in Nat /\ space \in Nat

\* Between the end of vty_read and its next beginning the socket is asked for.
AsksOK ==
    /\ pc \in {"create", "select", "toread", "read", "flush", "writev", "free", "closed"}
    /\ ~closing =>
         /\ pc \in {"select", "toread", "flush", "writev", "free"} /\ chunks # <<>>
              => "WRITE" \in type
         /\ pc \in {"select", "flush", "writev", "free"} => "READ" \in type
    /\ closing => pc \in {"flush", "writev", "free", "closed"}

OutInv == ChunksOK /\ CountsOK /\ AsksOK

\* Nothing is put yet.
LEMMA OutInit == Init => OutInv
<1> SUFFICES ASSUME Init PROVE OutInv
    OBVIOUS
<1>1. chunks = <<>> /\ Len(chunks) = 0 /\ chunks \in Seq(Chunk)
    BY EmptySeq DEF Init
<1>2. CountsOK /\ AsksOK
    BY SocketAssumption DEF Init, CountsOK, AsksOK
<1> QED
    BY <1>1, <1>2 DEF OutInv, ChunksOK, AllButLastFull

\* What a chunk holds that is not written.
LEMMA ChunkProperties ==
    ASSUME NEW c \in Chunk
    PROVE  /\ Cp(c) \in Nat /\ c.sp \in Nat /\ c.sp < Cp(c) /\ Cp(c) <= Size
           /\ Left(c) \in Seq(Nat) /\ Len(Left(c)) = Cp(c) - c.sp
<1>1. c.data \in Seq(Nat) /\ c.sp \in Nat /\ c.sp < Len(c.data) /\ Len(c.data) <= Size
    BY DEF Chunk
<1>2. Len(c.data) \in Nat
    BY <1>1, LenProperties
<1>3. \A i \in c.sp + 1 .. Len(c.data) : c.data[i] \in Nat
    BY <1>1, <1>2, ElementOfSeq
<1>4. /\ SubSeq(c.data, c.sp + 1, Len(c.data)) \in Seq(Nat)
      /\ Len(SubSeq(c.data, c.sp + 1, Len(c.data))) = Len(c.data) - c.sp
    BY <1>1, <1>2, <1>3, SubSeqProperties
<1> QED
    BY <1>1, <1>2, <1>4 DEF Cp, Left

\* One round of buffer_put fills the last chunk at most.
LEMMA PutRound ==
    ASSUME ChunksOK, put \in Nat, NEW n \in 1 .. FreeOfTail, PutIn(n)
    PROVE  ChunksOK' /\ n \in Nat
<1> DEFINE new == [i \in 1 .. n |-> put + i]
           k == Len(chunks)
           full == chunks = <<>> \/ Cp(chunks[k]) = Size
<1>1. k \in Nat /\ (chunks # <<>> => k \in 1 .. k)
    BY EmptySeq, LenProperties DEF ChunksOK
<1>2. chunks # <<>> => chunks[k] \in Chunk
    BY <1>1, ElementOfSeq DEF ChunksOK
<1>3. n \in Nat /\ n >= 1 /\ n <= Size /\ (~ full => Cp(chunks[k]) + n <= Size)
    BY <1>2, ChunkProperties, SizeAssumption DEF FreeOfTail
<1>4. new \in Seq(Nat) /\ Len(new) = n
    <2>1. \A i \in 1 .. n : put + i \in Nat
        BY <1>3
    <2>2. new \in Seq(Nat)
        BY <1>3, <2>1, IsASeq
    <2> QED
        BY <1>3, <2>2, LenProperties
<1>5. CASE full
    <2> DEFINE c == [data |-> new, sp |-> 0]
    <2>1. c \in Chunk
        BY <1>3, <1>4 DEF Chunk
    <2>2. chunks' = Append(chunks, c)
        BY <1>5 DEF PutIn
    <2> HIDE DEF c
    <2>3. /\ chunks' \in Seq(Chunk) /\ Len(chunks') = k + 1
          /\ \A i \in 1 .. k : chunks'[i] = chunks[i]
        BY <2>1, <2>2, AppendProperties DEF ChunksOK
    <2>4. \A i \in 1 .. k : Len(chunks[i].data) = Size
        BY <1>1, <1>5 DEF ChunksOK, AllButLastFull, Cp
    <2> QED
        BY <1>1, <1>3, <2>3, <2>4 DEF ChunksOK, AllButLastFull
<1>6. CASE ~ full
    <2> DEFINE c == [chunks[k] EXCEPT !.data = chunks[k].data \o new]
    <2>1. chunks[k] \in Chunk /\ k \in 1 .. k
        BY <1>1, <1>2, <1>6
    <2>2. /\ chunks[k].data \o new \in Seq(Nat)
          /\ Len(chunks[k].data \o new) = Len(chunks[k].data) + n
        BY <1>4, <2>1, ConcatProperties DEF Chunk
    <2>3. c \in Chunk
        <3>1. /\ c \in [data : Seq(Nat), sp : Nat]
              /\ c.sp = chunks[k].sp /\ c.data = chunks[k].data \o new
            BY <2>1, <2>2 DEF Chunk
        <3>2. /\ chunks[k].sp < Len(chunks[k].data) /\ Len(chunks[k].data) + n <= Size
              /\ chunks[k].sp \in Nat /\ Len(chunks[k].data) \in Nat
            BY <1>3, <1>6, <2>1, ChunkProperties DEF Cp
        <3>3. c.sp < Len(c.data) /\ Len(c.data) <= Size
            BY <1>3, <2>2, <3>1, <3>2
        <3> QED
            BY <3>1, <3>3 DEF Chunk
    <2>4. chunks' = [chunks EXCEPT ![k] = c]
        BY <1>6 DEF PutIn
    <2> HIDE DEF c
    <2>5. /\ chunks' \in Seq(Chunk) /\ Len(chunks') = k
          /\ \A i \in 1 .. k : chunks'[i] = IF i = k THEN c ELSE chunks[i]
        BY <2>1, <2>3, <2>4, ExceptSeq DEF ChunksOK
    <2>6. \A i \in 1 .. k : i < k => chunks'[i] = chunks[i]
        BY <1>1, <2>5
    <2> QED
        BY <1>3, <2>5, <2>6 DEF ChunksOK, AllButLastFull
<1> QED
    BY <1>3, <1>5, <1>6

\* A round of the loop that frees leaves no empty chunk behind.
LEMMA FreeRound ==
    ASSUME OutInv, FreeWritten
    PROVE  ChunksOK' /\ written' \in Nat
<1> DEFINE c == chunks[1]
           left == Len(Left(c))
<1>1. /\ Len(chunks) \in Nat /\ 1 \in 1 .. Len(chunks) /\ c \in Chunk /\ chunks # <<>>
      /\ written \in Nat /\ written > 0
    <2>1. Len(chunks) \in Nat /\ Len(chunks) # 0
        BY EmptySeq, LenProperties DEF FreeWritten, OutInv, ChunksOK
    <2>2. 1 \in 1 .. Len(chunks)
        BY <2>1
    <2>3. c \in Chunk
        BY <2>2, ElementOfSeq DEF OutInv, ChunksOK
    <2> QED
        BY <2>1, <2>2, <2>3 DEF FreeWritten, OutInv, CountsOK
<1>2. left = Cp(c) - c.sp /\ left \in Nat /\ Cp(c) \in Nat /\ c.sp \in Nat
    BY <1>1, ChunkProperties
<1>3. CASE written < left
    <2> DEFINE d == [c EXCEPT !.sp = c.sp + written]
    <2>1. d \in Chunk /\ d.data = c.data
        <3>1. c.sp + written \in Nat /\ c.sp + written < Len(c.data)
            BY <1>1, <1>2, <1>3 DEF Cp
        <3>2. /\ d \in [data : Seq(Nat), sp : Nat]
              /\ d.sp = c.sp + written /\ d.data = c.data
            BY <1>1, <3>1 DEF Chunk
        <3>3. Len(d.data) <= Size
            BY <1>1, <3>2 DEF Chunk
        <3> QED
            BY <3>1, <3>2, <3>3 DEF Chunk
    <2>2. chunks' = [chunks EXCEPT ![1] = d] /\ written' = 0
        BY <1>3 DEF FreeWritten
    <2> HIDE DEF d
    <2>3. /\ chunks' \in Seq(Chunk) /\ Len(chunks') = Len(chunks)
          /\ \A i \in 1 .. Len(chunks) : chunks'[i] = IF i = 1 THEN d ELSE chunks[i]
        BY <1>1, <2>1, <2>2, ExceptSeq DEF OutInv, ChunksOK
    <2>4. \A i \in 1 .. Len(chunks) : chunks'[i].data = chunks[i].data
        BY <2>1, <2>3
    <2> QED
        BY <2>2, <2>3, <2>4 DEF OutInv, ChunksOK, AllButLastFull
<1>4. CASE ~ (written < left)
    <2>1. chunks' = Tail(chunks) /\ written' = written - left
        BY <1>4 DEF FreeWritten
    <2>2. /\ chunks' \in Seq(Chunk) /\ Len(chunks') = Len(chunks) - 1
          /\ \A i \in 1 .. Len(chunks') : chunks'[i] = chunks[i + 1]
        BY <1>1, <2>1, HeadTailProperties DEF OutInv, ChunksOK
    <2>3. \A i \in 1 .. Len(chunks') : i < Len(chunks') => i + 1 \in 1 .. Len(chunks) /\ i + 1 < Len(chunks)
        BY <1>1, <2>2
    <2>4. AllButLastFull'
        BY <2>2, <2>3 DEF OutInv, ChunksOK, AllButLastFull
    <2> QED
        BY <1>1, <1>2, <1>4, <2>1, <2>2, <2>4 DEF ChunksOK
<1> QED
    BY <1>3, <1>4

\* A step that keeps or drops the chunks.
LEMMA KeepsOrDrops ==
    ASSUME ChunksOK, chunks' = chunks \/ chunks' = <<>>
    PROVE  ChunksOK'
<1>1. CASE chunks' = chunks
    BY <1>1 DEF ChunksOK, AllButLastFull
<1>2. CASE chunks' = <<>>
    <2>1. chunks' \in Seq(Chunk) /\ Len(chunks') = 0
        BY <1>2, EmptySeq
    <2> QED
        BY <2>1 DEF ChunksOK, AllButLastFull
<1> QED
    BY <1>1, <1>2

\* The peer moves only what the socket has room for.
LEMMA PeerStep ==
    ASSUME OutInv, Peer \/ UNCHANGED vars
    PROVE  OutInv'
<1>1. UNCHANGED <<buffer, type, flags, flushing, pc>> /\ space' \in {space, Room}
    BY DEF Peer, PeerTypes, PeerReads, PeerLeaves, vars, terminal
<1> QED
    BY <1>1, KeepsOrDrops, SocketAssumption
       DEF OutInv, CountsOK, AsksOK, buffer, flushing

\* Before and after a line is read, only the last chunk may be short.
LEMMA ReadingStep ==
    ASSUME OutInv,
           Created \/ Select \/ ReadInterrupted \/ VtyRead \/ ReadEnds
    PROVE  OutInv'
<1>1. CASE Created
    BY <1>1, KeepsOrDrops, SocketAssumption
       DEF Created, VtyClose, OutInv, CountsOK, AsksOK, buffer, flushing
<1>2. CASE Select
    BY <1>2, KeepsOrDrops
       DEF Select, OutInv, CountsOK, AsksOK, buffer, flushing, terminal
<1>3. CASE ReadInterrupted
    BY <1>3, KeepsOrDrops
       DEF ReadInterrupted, AfterRead, OutInv, CountsOK, AsksOK, buffer, flushing, terminal
<1>4. CASE VtyRead
    BY <1>4, KeepsOrDrops DEF VtyRead, VtyClose, OutInv, CountsOK, AsksOK, flushing
<1>5. CASE ReadEnds
    BY <1>5, KeepsOrDrops
       DEF ReadEnds, AfterRead, VtyClose, OutInv, CountsOK, AsksOK, buffer, flushing, terminal
<1> QED
    BY <1>1, <1>2, <1>3, <1>4, <1>5

\* A flush that begins or fails keeps the chunks or drops all of them.
LEMMA FlushingStep ==
    ASSUME OutInv,
           FlushAll \/ Written \/ NotWritten \/ WriteError \/ RoundEnds
    PROVE  OutInv'
<1>1. CASE FlushAll
    BY <1>1, KeepsOrDrops
       DEF FlushAll, Flushed, OutInv, CountsOK, AsksOK, terminal
<1>2. CASE Written
    <2>1. /\ UNCHANGED <<chunks, put, type, closing>> /\ pc = "writev" /\ pc' = "free"
          /\ \E n \in 1 .. space : written' = n /\ space' = space - n
        BY <1>2 DEF Written, buffer
    <2> QED
        BY <2>1, KeepsOrDrops DEF OutInv, CountsOK, AsksOK
<1>3. CASE NotWritten
    BY <1>3, KeepsOrDrops
       DEF NotWritten, OutInv, CountsOK, AsksOK, buffer, terminal
<1>4. CASE WriteError
    BY <1>4, KeepsOrDrops
       DEF WriteError, Flushed, OutInv, CountsOK, AsksOK, flushing, terminal
<1>5. CASE RoundEnds
    BY <1>5, KeepsOrDrops
       DEF RoundEnds, Flushed, OutInv, CountsOK, AsksOK, terminal
<1> QED
    BY <1>1, <1>2, <1>3, <1>4, <1>5

\* The invariant is inductive.
LEMMA OutStep ==
    ASSUME OutInv, [Next]_vars
    PROVE  OutInv'
<1>1. CASE BufferPut
    <2>1. PICK n \in 1 .. FreeOfTail : PutIn(n) /\ put' = put + n
        BY <1>1 DEF BufferPut
    <2>2. ChunksOK' /\ put' \in Nat
        BY <2>1, PutRound DEF OutInv, CountsOK
    <2> QED
        BY <1>1, <2>2 DEF BufferPut, OutInv, CountsOK, AsksOK, flushing, terminal
<1>2. CASE FreeWritten
    <2>1. ChunksOK' /\ written' \in Nat
        BY <1>2, FreeRound
    <2> QED
        BY <1>2, <2>1 DEF FreeWritten, OutInv, CountsOK, AsksOK, terminal
<1> QED
    BY <1>1, <1>2, PeerStep, ReadingStep, FlushingStep DEF Next, Program, Proceeds

\* No chunk is ever empty or too long, all but the last are full, and output that
\* waits for the socket has the socket waited for, for every size of chunks and
\* socket: the comment "0 <= sp <= cp <= size" of buffer.c and the flags of
\* telnet_interface.c.
THEOREM NothingIsForgotten == Spec => []NothingForgotten
<1>1. Init => OutInv
    BY OutInit
<1>2. OutInv /\ [Next]_vars => OutInv'
    BY OutStep
<1>3. OutInv => NothingForgotten
    <2> SUFFICES ASSUME OutInv PROVE NothingForgotten
        OBVIOUS
    <2>1. ASSUME NEW i \in 1 .. Len(chunks)
          PROVE  /\ 0 <= chunks[i].sp /\ chunks[i].sp < Cp(chunks[i]) /\ Cp(chunks[i]) <= Size
                 /\ i < Len(chunks) => Cp(chunks[i]) = Size
        <3>1. chunks[i] \in Chunk
            BY ElementOfSeq DEF OutInv, ChunksOK
        <3> QED
            BY <3>1, ChunkProperties DEF OutInv, ChunksOK, AllButLastFull, Cp
    <2> QED
        BY <2>1 DEF NothingForgotten, OutInv, AsksOK
<1> QED
    BY <1>1, <1>2, <1>3, PTL DEF Spec
-----------------------------------------------------------------------------
(* Flattening a sequence of sequences.                                     *)

\* A set of numbers that has an element has a least one.
LEMMA LeastOf ==
    ASSUME NEW T, T \subseteq Nat, T # {}
    PROVE  \E n \in T : \A k \in T : n <= k
<1>1. PICK n \in T : \A k \in T : ~ (<<k, n>> \in OpToRel(<, Nat))
    BY NatLessThanWellFounded, WFMin
<1>2. ASSUME NEW k \in T PROVE n <= k
    <2>1. ~(k < n)
        BY <1>1 DEF OpToRel
    <2> QED
        BY <2>1
<1> QED
    BY <1>2

\* f joins the first sequences of ss, one after the other.
Joins(f, ss) == f = [i \in 1 .. Len(ss) |-> IF i = 1 THEN ss[i] ELSE f[i - 1] \o ss[i]]

JoinsFirst(f, ss, n) == \A i \in 1 .. n : f[i] = IF i = 1 THEN ss[i] ELSE f[i - 1] \o ss[i]

\* There is one way to join sequences from the first on.
LEMMA JoinsUnique ==
    ASSUME NEW ss, NEW f, NEW g, Len(ss) \in Nat,
           Joins(f, ss), JoinsFirst(g, ss, Len(ss))
    PROVE  \A i \in 1 .. Len(ss) : f[i] = g[i]
<1> DEFINE T == {i \in 1 .. Len(ss) : f[i] # g[i]}
<1>1. SUFFICES ASSUME T # {} PROVE FALSE
    OBVIOUS
<1>0. T \subseteq Nat
    OBVIOUS
<1> HIDE DEF T
<1>2. PICK i \in T : \A k \in T : i <= k
    BY <1>0, <1>1, LeastOf
<1> USE DEF T
<1>3. i \in 1 .. Len(ss) /\ f[i] # g[i]
    OBVIOUS
<1>4. i \in 1 .. Len(ss)
    BY <1>3
<1>5. f[i] = IF i = 1 THEN ss[i] ELSE f[i - 1] \o ss[i]
    BY <1>4, Zenon DEF Joins
<1>8. g[i] = IF i = 1 THEN ss[i] ELSE g[i - 1] \o ss[i]
    BY <1>3 DEF JoinsFirst
<1>9. i # 1
    BY <1>3, <1>5, <1>8
<1>6. i - 1 \in 1 .. Len(ss) /\ i - 1 \notin T
    BY <1>2, <1>3, <1>9
<1>7. f[i - 1] = g[i - 1]
    BY <1>6
<1> QED
    BY <1>3, <1>5, <1>7, <1>8, <1>9

\* Sequences can be joined from the first on.
LEMMA JoinsExists ==
    ASSUME NEW A, NEW ss \in Seq(Seq(A))
    PROVE  \E f : Joins(f, ss)
<1> DEFINE OK(n, f) == JoinsFirst(f, ss, n)
           T == {n \in 0 .. Len(ss) : ~ \E f : OK(n, f)}
<1>0. Len(ss) \in Nat
    OBVIOUS
<1>1. T = {}
    <2>1. SUFFICES ASSUME T # {} PROVE FALSE
        OBVIOUS
    <2> HIDE DEF OK
    <2>0. T \subseteq Nat
        BY <1>0
    <2>2. PICK n \in T : \A k \in T : n <= k
        BY <2>0, <2>1, LeastOf
    <2>3. n \in 0 .. Len(ss) /\ ~ \E f : OK(n, f)
        OBVIOUS
    <2>4. OK(0, <<>>)
        <3>1. 1 .. 0 = {}
            OBVIOUS
        <3> QED
            BY <3>1 DEF OK, JoinsFirst
    <2>5. n # 0
        BY <2>3, <2>4
    <2>6. n - 1 \in 0 .. Len(ss) /\ n - 1 \notin T
        <3>1. n - 1 \in 0 .. Len(ss) /\ ~(n <= n - 1)
            BY <1>0, <2>3, <2>5
        <3> HIDE DEF T
        <3> QED
            BY <2>2, <3>1
    <2>7. PICK f : OK(n - 1, f)
        BY <2>6
    <2> DEFINE g == [i \in 1 .. n |-> IF i < n THEN f[i]
                                      ELSE IF i = 1 THEN ss[i] ELSE f[i - 1] \o ss[i]]
    <2>8. OK(n, g)
        <3> SUFFICES ASSUME NEW i \in 1 .. n
                     PROVE  g[i] = IF i = 1 THEN ss[i] ELSE g[i - 1] \o ss[i]
            BY DEF OK, JoinsFirst
        <3>1. i # 1 => g[i - 1] = f[i - 1]
            BY <1>0, <2>3
        <3>2. CASE i < n
            <4>1. g[i] = f[i] /\ i \in 1 .. n - 1
                BY <3>2, <1>0, <2>3
            <4>2. f[i] = IF i = 1 THEN ss[i] ELSE f[i - 1] \o ss[i]
                BY <2>7, <4>1 DEF OK, JoinsFirst
            <4> QED
                BY <3>1, <4>1, <4>2
        <3>3. CASE ~(i < n)
            <4>1. g[i] = IF i = 1 THEN ss[i] ELSE f[i - 1] \o ss[i]
                BY <3>3
            <4> QED
                BY <3>1, <4>1
        <3> QED
            BY <3>2, <3>3
    <2> HIDE DEF g
    <2> QED
        BY <2>3, <2>8
<1>2. PICK f : OK(Len(ss), f)
    <2>1. Len(ss) \in 0 .. Len(ss)
        BY <1>0
    <2> HIDE DEF OK
    <2> QED
        BY <1>1, <2>1
<1> DEFINE h == [i \in 1 .. Len(ss) |-> f[i]]
<1>3. ASSUME NEW i \in 1 .. Len(ss)
      PROVE  h[i] = IF i = 1 THEN ss[i] ELSE h[i - 1] \o ss[i]
    <2>1. h[i] = f[i] /\ (i # 1 => h[i - 1] = f[i - 1])
        BY <1>0
    <2>2. f[i] = IF i = 1 THEN ss[i] ELSE f[i - 1] \o ss[i]
        BY <1>2 DEF JoinsFirst
    <2> HIDE DEF h
    <2> QED
        BY <2>1, <2>2
<1>4. Joins(h, ss)
    BY <1>3 DEF Joins
<1> QED
    BY <1>4

\* FlattenSeq is what joining the sequences one by one comes to.
LEMMA FlattenJoins ==
    ASSUME NEW A, NEW ss \in Seq(Seq(A)), ss # <<>>
    PROVE  \E f : Joins(f, ss) /\ FlattenSeq(ss) = f[Len(ss)]
<1> DEFINE f == CHOOSE f : Joins(f, ss)
<1>1. Joins(f, ss)
    BY JoinsExists
<1>2. Len(ss) # 0
    OBVIOUS
<1>3. FlattenSeq(ss) = f[Len(ss)]
    BY <1>2 DEF FlattenSeq, Joins
<1> QED
    BY <1>1, <1>3

\* What holds of the empty sequence and is kept by Append, holds of every sequence.
LEMMA InductionAppend ==
    ASSUME NEW S, NEW T, <<>> \in T, \A s \in Seq(S) : s \in T => \A e \in S : Append(s, e) \in T
    PROVE  Seq(S) \subseteq T
<1> DEFINE N == {n \in Nat : \E s \in Seq(S) : Len(s) = n /\ s \notin T}
<1>1. SUFFICES ASSUME NEW u \in Seq(S), u \notin T PROVE FALSE
    OBVIOUS
<1>2. N \subseteq Nat /\ N # {}
    BY <1>1, LenProperties
<1> HIDE DEF N
<1>3. PICK n \in N : \A k \in N : n <= k
    BY <1>2, LeastOf
<1>4. PICK s \in Seq(S) : Len(s) = n /\ s \notin T
    BY <1>3 DEF N
<1>5. s # <<>>
    BY <1>4
<1>6. PICK t \in Seq(S), e \in S : s = Append(t, e)
    BY <1>5, SequenceEmptyOrAppend
<1>7. Len(t) \in Nat /\ n = Len(t) + 1
    BY <1>4, <1>6, AppendProperties, LenProperties
<1>8. t \notin T
    BY <1>4, <1>6
<1>9. Len(t) \in N
    BY <1>7, <1>8 DEF N
<1>10. ~(n <= Len(t))
    BY <1>7
<1> QED
    BY <1>3, <1>9, <1>10

\* Nothing is made of no sequences.
LEMMA FlattenEmpty == FlattenSeq(<<>>) = <<>>
BY DEF FlattenSeq

\* One more sequence comes behind those before it.
LEMMA FlattenAppend ==
    ASSUME NEW A, NEW ss \in Seq(Seq(A)), NEW t \in Seq(A)
    PROVE  FlattenSeq(Append(ss, t)) = IF ss = <<>> THEN t ELSE FlattenSeq(ss) \o t
<1> DEFINE a == Append(ss, t)
           n == Len(ss)
<1>1. /\ a \in Seq(Seq(A)) /\ a # <<>> /\ Len(a) = n + 1 /\ n \in Nat
      /\ \A i \in 1 .. n : a[i] = ss[i]
      /\ a[n + 1] = t
    BY AppendProperties, LenProperties
<1> HIDE DEF a
<1>2. PICK f : Joins(f, a) /\ FlattenSeq(a) = f[Len(a)]
    BY <1>1, FlattenJoins
<1>3. \A i \in 1 .. Len(a) : f[i] = IF i = 1 THEN a[i] ELSE f[i - 1] \o a[i]
    BY <1>2, Zenon DEF Joins
<1>4. f[n + 1] = IF n + 1 = 1 THEN t ELSE f[n + 1 - 1] \o t
    <2>1. n + 1 \in 1 .. Len(a) /\ Len(a) = n + 1
        BY <1>1
    <2> QED
        BY <1>1, <1>3, <2>1
<1>5. CASE ss = <<>>
    <2>1. n + 1 = 1 /\ Len(a) = n + 1
        BY <1>1, <1>5
    <2> QED
        BY <1>2, <1>4, <1>5, <2>1 DEF a
<1>6. CASE ss # <<>>
    <2>1. n # 0 /\ n + 1 - 1 = n
        BY <1>1, <1>6, EmptySeq
    <2>2. PICK g : Joins(g, ss) /\ FlattenSeq(ss) = g[n]
        BY <1>6, FlattenJoins
    <2>3. JoinsFirst(f, ss, n)
        BY <1>1, <1>3 DEF JoinsFirst
    <2>4. \A i \in 1 .. n : g[i] = f[i]
        <3>1. Len(ss) \in Nat
            BY <1>1
        <3>2. Joins(g, ss) /\ JoinsFirst(f, ss, Len(ss))
            BY <2>2, <2>3
        <3>3. \A i \in 1 .. Len(ss) : g[i] = f[i]
            BY <3>1, <3>2, JoinsUnique, Zenon, SMTT(30)
        <3> QED
            BY <3>3
    <2>5. g[n] = f[n]
        <3>1. n \in Nat /\ n # 0
            BY <1>1, <2>1
        <3>2. n \in 1 .. n
            BY <3>1
        <3> QED
            BY <2>4, <3>2
    <2>6. f[n + 1] = f[n] \o t
        BY <1>1, <1>4, <2>1
    <2> QED
        BY <1>1, <1>2, <1>6, <2>2, <2>5, <2>6 DEF a
<1> QED
    BY <1>5, <1>6

\* FlattenAppend, whether or not there are any before it.
LEMMA FlattenAdds ==
    ASSUME NEW A, NEW ss \in Seq(Seq(A)), NEW t \in Seq(A)
    PROVE  FlattenSeq(Append(ss, t)) = FlattenSeq(ss) \o t
<1>1. CASE ss = <<>>
    BY <1>1, FlattenAppend, FlattenEmpty, ConcatEmptySeq
<1>2. CASE ss # <<>>
    BY <1>2, FlattenAppend
<1> QED
    BY <1>1, <1>2

\* Sequences of elements are made into a sequence of them.
LEMMA FlattenType ==
    ASSUME NEW A, NEW ss \in Seq(Seq(A))
    PROVE  FlattenSeq(ss) \in Seq(A)
<1> DEFINE T == {s \in Seq(Seq(A)) : FlattenSeq(s) \in Seq(A)}
<1>1. <<>> \in T
    BY FlattenEmpty, EmptySeq
<1>2. ASSUME NEW s \in Seq(Seq(A)), s \in T, NEW t \in Seq(A)
      PROVE  Append(s, t) \in T
    <2>1. Append(s, t) \in Seq(Seq(A))
        BY AppendProperties
    <2>2. FlattenSeq(s) \o t \in Seq(A)
        BY <1>2, ConcatProperties
    <2> QED
        BY <2>1, <2>2, FlattenAdds
<1> HIDE DEF T
<1>3. Seq(Seq(A)) \subseteq T
    BY <1>1, <1>2, InductionAppend
<1> QED
    BY <1>3 DEF T

\* The pieces of ss come before those of tt.
LEMMA FlattenConcat ==
    ASSUME NEW A, NEW ss \in Seq(Seq(A)), NEW tt \in Seq(Seq(A))
    PROVE  FlattenSeq(ss \o tt) = FlattenSeq(ss) \o FlattenSeq(tt)
<1> DEFINE T == {s \in Seq(Seq(A)) : FlattenSeq(ss \o s) = FlattenSeq(ss) \o FlattenSeq(s)}
<1>0. FlattenSeq(ss) \in Seq(A)
    BY FlattenType
<1>1. <<>> \in T
    BY <1>0, FlattenEmpty, EmptySeq, ConcatEmptySeq
<1>2. ASSUME NEW s \in Seq(Seq(A)), s \in T, NEW t \in Seq(A)
      PROVE  Append(s, t) \in T
    <2>1. Append(s, t) \in Seq(Seq(A)) /\ FlattenSeq(s) \in Seq(A)
        BY AppendProperties, FlattenType
    <2>2. ss \o s \in Seq(Seq(A)) /\ FlattenSeq(ss \o s) = FlattenSeq(ss) \o FlattenSeq(s)
        BY <1>2, ConcatProperties
    <2>3. ss \o Append(s, t) = Append(ss \o s, t)
        <3>1. Append(s, t) = s \o <<t>> /\ Append(ss \o s, t) = (ss \o s) \o <<t>>
            BY <2>2, AppendIsConcat
        <3>2. <<t>> \in Seq(Seq(A))
            OBVIOUS
        <3>3. (ss \o s) \o <<t>> = ss \o (s \o <<t>>)
            BY <3>2, ConcatAssociative, SMTT(30)
        <3> QED
            BY <3>1, <3>3
    <2>4. FlattenSeq(Append(s, t)) = FlattenSeq(s) \o t
        BY FlattenAdds
    <2>5. FlattenSeq(Append(ss \o s, t)) = FlattenSeq(ss \o s) \o t
        BY <2>2, FlattenAdds
    <2>6. (FlattenSeq(ss) \o FlattenSeq(s)) \o t = FlattenSeq(ss) \o (FlattenSeq(s) \o t)
        <3>1. \A u, v \in Seq(A) : (u \o v) \o t = u \o (v \o t)
            <4> HIDE <1>0, <1>1, <1>2, <2>1, <2>2, <2>3, <2>4, <2>5
            <4> QED
                BY <1>2, ConcatAssociative
        <3> QED
            BY <1>0, <2>1, <3>1
    <2>7. FlattenSeq(ss \o Append(s, t)) = FlattenSeq(ss) \o FlattenSeq(Append(s, t))
        BY <2>2, <2>3, <2>4, <2>5, <2>6, Zenon
    <2> QED
        BY <2>1, <2>7
<1> HIDE DEF T
<1>3. Seq(Seq(A)) \subseteq T
    BY <1>1, <1>2, InductionAppend
<1> QED
    BY <1>3 DEF T

\* A single sequence is made into itself.
LEMMA FlattenOne ==
    ASSUME NEW A, NEW t \in Seq(A)
    PROVE  FlattenSeq(<<t>>) = t
<1>1. <<>> \in Seq(Seq(A)) /\ <<t>> = Append(<<>>, t)
    BY EmptySeq
<1> QED
    BY <1>1, FlattenAppend

\* The end of a sequence, when others follow.
LEMMA EndOfConcat ==
    ASSUME NEW S, NEW s \in Seq(S), NEW t \in Seq(S), NEW m \in 1 .. Len(s)
    PROVE  SubSeq(s \o t, m, Len(s \o t)) = SubSeq(s, m, Len(s)) \o t
<1> DEFINE x == SubSeq(s \o t, m, Len(s \o t))
           a == SubSeq(s, m, Len(s))
           y == a \o t
           st == s \o t
<1>1. /\ st \in Seq(S) /\ Len(st) = Len(s) + Len(t)
      /\ \A i \in 1 .. Len(s) + Len(t) : st[i] = IF i <= Len(s) THEN s[i] ELSE t[i - Len(s)]
    BY ConcatProperties
<1>2. Len(s) \in Nat /\ Len(t) \in Nat
    BY LenProperties
<1> HIDE DEF st
<1>3. /\ SubSeq(st, m, Len(st)) \in Seq(S)
      /\ Len(SubSeq(st, m, Len(st))) = Len(s) + Len(t) - m + 1
      /\ \A i \in 1 .. Len(s) + Len(t) - m + 1 : SubSeq(st, m, Len(st))[i] = st[m + i - 1]
    <2>1. \A i \in m .. Len(st) : st[i] \in S
        BY <1>1, <1>2, ElementOfSeq
    <2>2. m \in Int /\ Len(st) \in Int /\ m <= Len(st)
        BY <1>1, <1>2
    <2> QED
        BY <1>1, <1>2, <2>1, <2>2, SubSeqProperties
<1>4. a \in Seq(S) /\ Len(a) = Len(s) - m + 1 /\ \A i \in 1 .. Len(s) - m + 1 : a[i] = s[m + i - 1]
    <2>1. \A i \in m .. Len(s) : s[i] \in S
        BY <1>2, ElementOfSeq
    <2>2. m \in Int /\ Len(s) \in Int /\ m <= Len(s)
        BY <1>2
    <2> QED
        BY <1>2, <2>1, <2>2, SubSeqProperties
<1> HIDE DEF a
<1>5. /\ y \in Seq(S) /\ Len(y) = Len(a) + Len(t)
      /\ \A i \in 1 .. Len(a) + Len(t) : y[i] = IF i <= Len(a) THEN a[i] ELSE t[i - Len(a)]
    BY <1>4, ConcatProperties
<1>6. x \in Seq(S) /\ Len(x) = Len(s) + Len(t) - m + 1
      /\ \A i \in 1 .. Len(s) + Len(t) - m + 1 : x[i] = st[m + i - 1]
    BY <1>3 DEF st
<1> HIDE DEF x, y
<1>7. ASSUME NEW i \in 1 .. Len(x) PROVE x[i] = y[i]
    <2>0. i \in 1 .. Len(s) + Len(t) - m + 1 /\ i \in 1 .. Len(a) + Len(t) /\ m + i - 1 \in 1 .. Len(s) + Len(t)
        BY <1>2, <1>4, <1>6
    <2>1. CASE i <= Len(a)
        <3>1. i \in 1 .. Len(s) - m + 1 /\ m + i - 1 <= Len(s)
            BY <1>2, <1>4, <2>0, <2>1
        <3>2. x[i] = s[m + i - 1]
            BY <1>1, <1>6, <2>0, <3>1
        <3>3. y[i] = a[i] /\ a[i] = s[m + i - 1]
            BY <1>4, <1>5, <2>0, <2>1, <3>1
        <3> QED
            BY <3>2, <3>3
    <2>2. CASE ~(i <= Len(a))
        <3>1. ~(m + i - 1 <= Len(s)) /\ m + i - 1 - Len(s) = i - Len(a)
            BY <1>2, <1>4, <2>0, <2>2
        <3>2. x[i] = t[m + i - 1 - Len(s)]
            <4>1. x[i] = st[m + i - 1]
                BY <1>6, <2>0
            <4> DEFINE j == m + i - 1
            <4>2. j \in 1 .. Len(s) + Len(t) /\ ~(j <= Len(s))
                BY <2>0, <3>1
            <4>3. x[i] = st[j]
                BY <4>1
            <4> HIDE DEF j
            <4>4. st[j] = t[j - Len(s)]
                BY <1>1, <4>2
            <4> QED
                BY <4>3, <4>4 DEF j
        <3>3. y[i] = t[i - Len(a)]
            BY <1>5, <2>0, <2>2
        <3> QED
            BY <3>1, <3>2, <3>3
    <2> QED
        BY <2>1, <2>2
<1>8. Len(x) = Len(y)
    <2>1. Len(y) = Len(a) + Len(t) /\ Len(a) = Len(s) - m + 1 /\ Len(x) = Len(s) + Len(t) - m + 1
        BY <1>4, <1>5, <1>6
    <2> QED
        BY <1>2, <2>1
<1>9. x = y
    BY <1>5, <1>6, <1>7, <1>8, SeqEqual
<1> QED
    BY <1>9, SMTT(30) DEF x, y
-----------------------------------------------------------------------------
(* The bytes of the chunks.                                                *)

Lefts(cs) == [i \in 1 .. Len(cs) |-> Left(cs[i])]

Content(cs) == FlattenSeq(Lefts(cs))

\* What is unflushed of each chunk, and of all.
LEMMA LeftsType ==
    ASSUME NEW cs \in Seq(Chunk)
    PROVE  /\ Lefts(cs) \in Seq(Seq(Nat)) /\ Len(Lefts(cs)) = Len(cs)
           /\ \A i \in 1 .. Len(cs) : Lefts(cs)[i] = Left(cs[i])
           /\ Content(cs) \in Seq(Nat)
<1>1. Len(cs) \in Nat /\ \A i \in 1 .. Len(cs) : cs[i] \in Chunk
    BY LenProperties, ElementOfSeq
<1>2. \A i \in 1 .. Len(cs) : Left(cs[i]) \in Seq(Nat)
    BY <1>1, ChunkProperties
<1>3. Lefts(cs) \in [1 .. Len(cs) -> Seq(Nat)]
    BY <1>2 DEF Lefts
<1>4. Lefts(cs) \in Seq(Seq(Nat))
    BY <1>1, <1>3, SeqDef
<1>5. DOMAIN Lefts(cs) = 1 .. Len(cs) /\ DOMAIN Lefts(cs) = 1 .. Len(Lefts(cs))
    BY <1>4, LenProperties DEF Lefts
<1>6. Len(Lefts(cs)) = Len(cs)
    <2>1. Len(Lefts(cs)) \in Nat
        BY <1>4, LenProperties
    <2> QED
        BY <1>1, <1>5, <2>1
<1>7. \A i \in 1 .. Len(cs) : Lefts(cs)[i] = Left(cs[i])
    BY DEF Lefts
<1> QED
    BY <1>4, <1>6, <1>7, FlattenType DEF Content

\* What is unflushed of two buffers is that of one behind that of the other.
LEMMA LeftsConcat ==
    ASSUME NEW cs \in Seq(Chunk), NEW ds \in Seq(Chunk)
    PROVE  /\ Lefts(cs \o ds) = Lefts(cs) \o Lefts(ds)
           /\ Content(cs \o ds) = Content(cs) \o Content(ds)
<1> DEFINE b == cs \o ds
           l == Lefts(b)
           r == Lefts(cs) \o Lefts(ds)
<1>1. /\ b \in Seq(Chunk) /\ Len(b) = Len(cs) + Len(ds)
      /\ \A i \in 1 .. Len(cs) + Len(ds) : b[i] = IF i <= Len(cs) THEN cs[i] ELSE ds[i - Len(cs)]
      /\ Len(cs) \in Nat /\ Len(ds) \in Nat
    BY ConcatProperties, LenProperties
<1>2. /\ Lefts(cs) \in Seq(Seq(Nat)) /\ Len(Lefts(cs)) = Len(cs)
      /\ Lefts(ds) \in Seq(Seq(Nat)) /\ Len(Lefts(ds)) = Len(ds)
      /\ \A i \in 1 .. Len(cs) : Lefts(cs)[i] = Left(cs[i])
      /\ \A i \in 1 .. Len(ds) : Lefts(ds)[i] = Left(ds[i])
    BY LeftsType
<1> HIDE DEF b
<1>3. /\ l \in Seq(Seq(Nat)) /\ Len(l) = Len(cs) + Len(ds)
      /\ \A i \in 1 .. Len(cs) + Len(ds) : l[i] = Left(b[i])
    BY <1>1, LeftsType
<1>4. /\ r \in Seq(Seq(Nat)) /\ Len(r) = Len(cs) + Len(ds)
      /\ \A i \in 1 .. Len(cs) + Len(ds) :
            r[i] = IF i <= Len(cs) THEN Lefts(cs)[i] ELSE Lefts(ds)[i - Len(cs)]
    <2>1. /\ r \in Seq(Seq(Nat)) /\ Len(r) = Len(Lefts(cs)) + Len(Lefts(ds))
          /\ \A i \in 1 .. Len(Lefts(cs)) + Len(Lefts(ds)) :
                r[i] = IF i <= Len(Lefts(cs)) THEN Lefts(cs)[i] ELSE Lefts(ds)[i - Len(Lefts(cs))]
        <3>1. Lefts(cs) \in Seq(Seq(Nat)) /\ Lefts(ds) \in Seq(Seq(Nat))
            BY <1>2
        <3> QED
            BY <3>1, ConcatProperties
    <2> HIDE DEF r
    <2> QED
        BY <1>2, <2>1
<1> HIDE DEF l, r
<1>5. ASSUME NEW i \in 1 .. Len(l) PROVE l[i] = r[i]
    <2>1. CASE i <= Len(cs)
        <3>1. i \in 1 .. Len(cs) /\ i \in 1 .. Len(cs) + Len(ds)
            BY <1>1, <1>3, <2>1
        <3> QED
            BY <1>1, <1>2, <1>3, <1>4, <2>1, <3>1
    <2>2. CASE ~(i <= Len(cs))
        <3>1. i - Len(cs) \in 1 .. Len(ds) /\ i \in 1 .. Len(cs) + Len(ds)
            BY <1>1, <1>3, <2>2
        <3>2. b[i] = ds[i - Len(cs)] /\ r[i] = Lefts(ds)[i - Len(cs)] /\ l[i] = Left(b[i])
            BY <1>1, <1>3, <1>4, <2>2, <3>1
        <3> QED
            BY <1>2, <3>1, <3>2
    <2> QED
        BY <2>1, <2>2
<1>6. l = r
    BY <1>3, <1>4, <1>5, SeqEqual
<1>7. FlattenSeq(r) = FlattenSeq(Lefts(cs)) \o FlattenSeq(Lefts(ds))
    BY <1>2, FlattenConcat DEF r
<1> QED
    BY <1>6, <1>7 DEF l, r, b, Content

\* What is unflushed of one chunk.
LEMMA ContentOne ==
    ASSUME NEW c \in Chunk
    PROVE  <<c>> \in Seq(Chunk) /\ Content(<<c>>) = Left(c) /\ Left(c) \in Seq(Nat)
<1>1. Lefts(<<c>>) = <<Left(c)>>
    BY DEF Lefts
<1>2. Left(c) \in Seq(Nat)
    BY ChunkProperties
<1> QED
    BY <1>1, <1>2, FlattenOne DEF Content

\* Nothing is unflushed in no chunks.
LEMMA ContentEmpty == Content(<<>>) = <<>>
<1>1. Lefts(<<>>) = <<>>
    BY DEF Lefts
<1> QED
    BY <1>1, FlattenEmpty DEF Content

\* What is unflushed in the first chunks is the beginning of their content.
LEMMA UnflushedBegins ==
    ASSUME chunks \in Seq(Chunk)
    PROVE  /\ Unflushed(Len(chunks)) = Content(chunks)
           /\ \A m \in 1 .. Len(chunks) :
                /\ Unflushed(m) \in Seq(Nat)
                /\ \E rest \in Seq(Nat) : Content(chunks) = Unflushed(m) \o rest
<1>1. Unflushed(Len(chunks)) = Content(chunks)
    BY DEF Unflushed, Content, Lefts
<1> SUFFICES ASSUME NEW m \in 1 .. Len(chunks)
             PROVE  /\ Unflushed(m) \in Seq(Nat)
                    /\ \E rest \in Seq(Nat) : Content(chunks) = Unflushed(m) \o rest
    BY <1>1
<1> DEFINE a == SubSeq(chunks, 1, m)
           b == SubSeq(chunks, m + 1, Len(chunks))
<1>2. Len(chunks) \in Nat /\ \A i \in 1 .. Len(chunks) : chunks[i] \in Chunk
    BY LenProperties, ElementOfSeq
<1>3. a \in Seq(Chunk) /\ Len(a) = m /\ \A i \in 1 .. m : a[i] = chunks[i]
    <2>1. \A i \in 1 .. m : chunks[i] \in Chunk
        BY <1>2
    <2>2. /\ a \in Seq(Chunk) /\ Len(a) = IF 1 <= m THEN m - 1 + 1 ELSE 0
          /\ \A i \in 1 .. m - 1 + 1 : a[i] = chunks[1 + i - 1]
        BY <1>2, <2>1, SubSeqProperties
    <2> QED
        BY <1>2, <2>2
<1>4. b \in Seq(Chunk)
    <2>1. \A i \in m + 1 .. Len(chunks) : chunks[i] \in Chunk
        BY <1>2
    <2> QED
        BY <1>2, <2>1, SubSeqProperties
<1>5. a \o b = chunks
    <2>1. a \o b = SubSeq(chunks, 1, Len(chunks))
        BY <1>2, ConcatAdjacentSubSeq
    <2> QED
        BY <2>1, SubSeqFull
<1> HIDE DEF a, b
<1>6. Unflushed(m) = Content(a)
    <2>1. [i \in 1 .. m |-> Left(chunks[i])] = Lefts(a)
        BY <1>3 DEF Lefts
    <2> QED
        BY <2>1 DEF Unflushed, Content
<1>7. Content(chunks) = Content(a) \o Content(b)
    BY <1>3, <1>4, <1>5, LeftsConcat
<1>8. Content(a) \in Seq(Nat) /\ Content(b) \in Seq(Nat)
    BY <1>3, <1>4, LeftsType
<1> QED
    BY <1>6, <1>7, <1>8

\* One round of buffer_put adds its bytes at the end.
LEMMA PutContent ==
    ASSUME ChunksOK, put \in Nat, NEW n \in 1 .. FreeOfTail, PutIn(n)
    PROVE  /\ [i \in 1 .. n |-> put + i] \in Seq(Nat)
           /\ Content(chunks') = Content(chunks) \o [i \in 1 .. n |-> put + i]
<1> DEFINE new == [i \in 1 .. n |-> put + i]
           k == Len(chunks)
           full == chunks = <<>> \/ Cp(chunks[k]) = Size
<1>1. n \in Nat /\ ChunksOK'
    BY PutRound
<1>2. new \in Seq(Nat) /\ Len(new) = n
    <2>1. new \in [1 .. n -> Nat]
        BY <1>1
    <2>2. new \in Seq(Nat)
        BY <1>1, <2>1, SeqDef
    <2> QED
        BY <1>1, <2>2, LenProperties
<1>3. n > 0 /\ n <= Size /\ (~full => Cp(chunks[k]) + n <= Size)
    <2>1. k \in Nat /\ (chunks # <<>> => chunks[k] \in Chunk)
        <3>1. k \in Nat /\ (chunks # <<>> => k \in 1 .. k)
            BY EmptySeq, LenProperties DEF ChunksOK
        <3> QED
            BY <3>1, ElementOfSeq DEF ChunksOK
    <2> QED
        BY <2>1, ChunkProperties, SizeAssumption DEF FreeOfTail
<1>4. CASE full
    <2> DEFINE c == [data |-> new, sp |-> 0]
    <2>1. c \in Chunk /\ c.data = new /\ c.sp = 0
        BY <1>2, <1>3 DEF Chunk
    <2>2. chunks' = Append(chunks, c)
        BY <1>4 DEF PutIn
    <2> HIDE DEF c, new
    <2>3. chunks' = chunks \o <<c>>
        BY <2>1, <2>2, AppendIsConcat DEF ChunksOK
    <2>4. Left(c) = new
        BY <1>2, <2>1, SubSeqFull DEF Left, Cp
    <2>5. Content(<<c>>) = new /\ <<c>> \in Seq(Chunk)
        BY <2>1, <2>4, ContentOne
    <2> QED
        BY <1>2, <2>3, <2>5, LeftsConcat DEF ChunksOK, new
<1>5. CASE ~full
    <2>1. chunks # <<>> /\ chunks \in Seq(Chunk)
        BY <1>5 DEF ChunksOK
    <2>2. PICK u \in Seq(Chunk), l \in Chunk : chunks = Append(u, l)
        BY <2>1, SequenceEmptyOrAppend
    <2>3. k = Len(u) + 1 /\ chunks[k] = l /\ Len(u) \in Nat /\ \A i \in 1 .. Len(u) : chunks[i] = u[i]
        BY <2>2, AppendProperties, LenProperties
    <2> DEFINE d == l.data \o new
               c == [l EXCEPT !.data = d]
    <2>4. /\ l.data \in Seq(Nat) /\ l.sp \in Nat /\ l.sp < Len(l.data) /\ Len(l.data) <= Size
          /\ Len(l.data) + n <= Size /\ Len(l.data) \in Nat
        <3>1. Len(l.data) \in Nat
            BY ChunkProperties DEF Cp
        <3> QED
            BY <1>3, <1>5, <2>3, <3>1 DEF Chunk, Cp
    <2>5. d \in Seq(Nat) /\ Len(d) = Len(l.data) + n
        BY <1>2, <2>4, ConcatProperties
    <2>6. c.data = d /\ c.sp = l.sp /\ c \in [data : Seq(Nat), sp : Nat]
        BY <2>5 DEF Chunk
    <2> HIDE DEF c
    <2>7. c \in Chunk
        <3>1. c.sp < Len(c.data) /\ Len(c.data) <= Size
            BY <1>1, <2>4, <2>5, <2>6
        <3> QED
            BY <2>6, <3>1 DEF Chunk
    <2>8. Left(c) = Left(l) \o new
        <3>1. Left(c) = SubSeq(d, l.sp + 1, Len(d))
            BY <2>6 DEF Left, Cp
        <3>2. l.sp + 1 \in 1 .. Len(l.data)
            BY <2>4
        <3> HIDE DEF new
        <3>3. SubSeq(d, l.sp + 1, Len(d)) = SubSeq(l.data, l.sp + 1, Len(l.data)) \o new
            BY <1>2, <2>4, <3>2, EndOfConcat
        <3> QED
            BY <3>1, <3>3 DEF Left, Cp
    <2>9. chunks' = Append(u, c)
        <3>1. chunks' = [chunks EXCEPT ![k].data = d]
            BY <1>5, <2>3 DEF PutIn
        <3>2. [chunks EXCEPT ![k] = c] = Append(u, c)
            <4>1. /\ [chunks EXCEPT ![k] = c] \in Seq(Chunk)
                  /\ Len([chunks EXCEPT ![k] = c]) = k
                  /\ \A j \in 1 .. k : [chunks EXCEPT ![k] = c][j] = IF j = k THEN c ELSE chunks[j]
                <5>1. k \in 1 .. Len(chunks)
                    BY <2>3
                <5> QED
                    BY <2>1, <2>7, <5>1, ExceptSeq
            <4>2. /\ Append(u, c) \in Seq(Chunk) /\ Len(Append(u, c)) = k
                  /\ \A i \in 1 .. Len(u) : Append(u, c)[i] = u[i]
                  /\ Append(u, c)[k] = c
                BY <2>3, <2>7, AppendProperties
            <4> DEFINE x == [chunks EXCEPT ![k] = c]
                       y == Append(u, c)
            <4>3. ASSUME NEW j \in 1 .. k PROVE x[j] = y[j]
                <5>1. x[j] = IF j = k THEN c ELSE chunks[j]
                    BY <4>1
                <5>2. CASE j = k
                    <6>1. y[k] = c
                        BY <4>2
                    <6> HIDE DEF x, y
                    <6> QED
                        BY <5>1, <5>2, <6>1
                <5>3. CASE j # k
                    <6>1. j \in 1 .. Len(u)
                        BY <2>3, <5>3
                    <6>2. y[j] = u[j] /\ chunks[j] = u[j]
                        BY <2>3, <4>2, <6>1
                    <6> HIDE DEF x, y
                    <6> QED
                        BY <5>1, <5>3, <6>2
                <5> QED
                    BY <5>2, <5>3
            <4> HIDE DEF x, y
            <4>4. x \in Seq(Chunk) /\ y \in Seq(Chunk) /\ Len(x) = Len(y) /\ Len(x) = k
                BY <4>1, <4>2 DEF x, y
            <4>5. x = y
                BY <4>3, <4>4, SeqEqual
            <4> QED
                BY <4>5 DEF x, y
        <3>3. [chunks EXCEPT ![k].data = d] = [chunks EXCEPT ![k] = c]
            BY <2>3 DEF c
        <3> QED
            BY <3>1, <3>2, <3>3
    <2>10. chunks' = u \o <<c>> /\ chunks = u \o <<l>>
        BY <2>2, <2>7, <2>9, AppendIsConcat
    <2>11. /\ Content(<<c>>) = Left(l) \o new /\ Content(<<l>>) = Left(l)
           /\ <<c>> \in Seq(Chunk) /\ <<l>> \in Seq(Chunk) /\ Left(l) \in Seq(Nat)
        BY <2>7, <2>8, ContentOne
    <2>12. /\ Content(chunks') = Content(u) \o (Left(l) \o new)
           /\ Content(chunks) = Content(u) \o Left(l)
        BY <2>10, <2>11, LeftsConcat
    <2>13. Content(u) \in Seq(Nat)
        BY LeftsType
    <2>14. Content(u) \o (Left(l) \o new) = (Content(u) \o Left(l)) \o new
        BY <1>2, <2>11, <2>13, ConcatAssociative
    <2> HIDE DEF new
    <2> QED
        BY <1>2, <2>12, <2>14 DEF new
<1> QED
    BY <1>4, <1>5
-----------------------------------------------------------------------------
(* What is left of the chunks behind the bytes written.                    *)

RestOf(cs, w) == SubSeq(Content(cs), w + 1, Len(Content(cs)))

\* What is pending is what is unflushed, less what the writev under way has written.
LEMMA PendingIsRest == Pending = RestOf(chunks, written) /\ Pending' = RestOf(chunks', written')
<1>1. Unflushed(Len(chunks)) = Content(chunks)
    BY DEF Unflushed, Content, Lefts
<1>2. Unflushed(Len(chunks))' = Content(chunks')
    BY DEF Unflushed, Content, Lefts
<1>3. Pending = RestOf(chunks, written)
    BY <1>1 DEF Pending, RestOf
<1>4. Pending' = RestOf(chunks', written')
    BY <1>2 DEF Pending, RestOf
<1> QED
    BY <1>3, <1>4

\* What is left of a sequence.
LEMMA RestProperties ==
    ASSUME NEW s \in Seq(Nat), NEW w \in Nat, w <= Len(s)
    PROVE  /\ SubSeq(s, w + 1, Len(s)) \in Seq(Nat)
           /\ Len(SubSeq(s, w + 1, Len(s))) = Len(s) - w
           /\ \A i \in 1 .. Len(s) - w : SubSeq(s, w + 1, Len(s))[i] = s[w + i]
<1>1. Len(s) \in Nat /\ \A i \in w + 1 .. Len(s) : s[i] \in Nat
    BY LenProperties, ElementOfSeq
<1>2. /\ SubSeq(s, w + 1, Len(s)) \in Seq(Nat)
      /\ Len(SubSeq(s, w + 1, Len(s))) = IF w + 1 <= Len(s) THEN Len(s) - (w + 1) + 1 ELSE 0
      /\ \A i \in 1 .. Len(s) - (w + 1) + 1 : SubSeq(s, w + 1, Len(s))[i] = s[w + 1 + i - 1]
    <2>1. w + 1 \in Int /\ Len(s) \in Int
        BY <1>1
    <2> QED
        BY <1>1, <2>1, SubSeqProperties
<1>3. Len(SubSeq(s, w + 1, Len(s))) = Len(s) - w
    BY <1>1, <1>2
<1>4. ASSUME NEW i \in 1 .. Len(s) - w PROVE SubSeq(s, w + 1, Len(s))[i] = s[w + i]
    <2>1. i \in 1 .. Len(s) - (w + 1) + 1 /\ w + 1 + i - 1 = w + i
        BY <1>1
    <2>2. SubSeq(s, w + 1, Len(s))[i] = s[w + 1 + i - 1]
        BY <1>2, <2>1
    <2> QED
        BY <2>1, <2>2
<1> QED
    BY <1>2, <1>3, <1>4

\* Behind nothing comes all.
LEMMA RestOfAll == ASSUME NEW s \in Seq(Nat) PROVE SubSeq(s, 0 + 1, Len(s)) = s
<1>1. 0 + 1 = 1
    OBVIOUS
<1> QED
    BY <1>1, SubSeqFull

\* What is left behind the first of two sequences.
LEMMA RestBehind ==
    ASSUME NEW s \in Seq(Nat), NEW t \in Seq(Nat), NEW w \in Nat, Len(s) <= w, w <= Len(s \o t)
    PROVE  SubSeq(s \o t, w + 1, Len(s \o t)) = SubSeq(t, w - Len(s) + 1, Len(t)) /\ w - Len(s) <= Len(t)
<1>1. s \o t \in Seq(Nat) /\ Len(s \o t) = Len(s) + Len(t) /\ Len(s) \in Nat /\ Len(t) \in Nat
    BY ConcatProperties, LenProperties
<1> DEFINE st == s \o t
           n == Len(st)
<1>2. n = Len(s) + Len(t) /\ n \in Nat
    BY <1>1
<1>3. CASE w < n
    <2>1. w + 1 \in Len(s) + 1 .. Len(s) + Len(t) /\ n \in Len(s) + 1 .. Len(s) + Len(t)
        BY <1>1, <1>2, <1>3
    <2> HIDE DEF n
    <2>2. SubSeq(s \o t, w + 1, n) = SubSeq(t, w + 1 - Len(s), n - Len(s))
        BY <2>1, SubSeqOfConcat2
    <2>3. w + 1 - Len(s) = w - Len(s) + 1 /\ n - Len(s) = Len(t) /\ w - Len(s) <= Len(t)
        BY <1>1, <1>2, <1>3
    <2> QED
        BY <2>2, <2>3 DEF n
<1>4. CASE ~(w < n)
    <2>1. w = n /\ w + 1 \in Int /\ n \in Int /\ n < w + 1
        BY <1>1, <1>2, <1>4
    <2>2. w - Len(s) + 1 \in Int /\ Len(t) \in Int /\ Len(t) < w - Len(s) + 1 /\ w - Len(s) <= Len(t)
        BY <1>1, <1>2, <2>1
    <2>3. SubSeq(t, w - Len(s) + 1, Len(t)) = <<>>
        BY <2>2, SubSeqEmpty
    <2>4. SubSeq(st, w + 1, n) = <<>>
        <3> HIDE DEF st, n
        <3> QED
            BY <2>1, SubSeqEmpty
    <2> QED
        BY <2>2, <2>3, <2>4
<1> QED
    BY <1>3, <1>4

\* What is left of what is left.
LEMMA RestOfRest ==
    ASSUME NEW s \in Seq(Nat), NEW p \in Nat, NEW w \in Nat, NEW v \in Nat,
           v = p + w, v <= Len(s), NEW l, l = SubSeq(s, p + 1, Len(s))
    PROVE  SubSeq(s, v + 1, Len(s)) = SubSeq(l, w + 1, Len(l))
<1>1. Len(s) \in Nat /\ p <= Len(s)
    <2>1. Len(s) \in Nat
        BY LenProperties
    <2> QED
        BY <2>1
<1>2. l \in Seq(Nat) /\ Len(l) = Len(s) - p /\ \A i \in 1 .. Len(s) - p : l[i] = s[p + i]
    BY <1>1, RestProperties
<1>3. w <= Len(l) /\ Len(l) \in Nat
    BY <1>1, <1>2
<1> DEFINE x == SubSeq(l, w + 1, Len(l))
           y == SubSeq(s, v + 1, Len(s))
<1>4. x \in Seq(Nat) /\ Len(x) = Len(l) - w /\ \A i \in 1 .. Len(l) - w : x[i] = l[w + i]
    BY <1>2, <1>3, RestProperties
<1>5. y \in Seq(Nat) /\ Len(y) = Len(s) - v /\ \A i \in 1 .. Len(s) - v : y[i] = s[v + i]
    BY RestProperties
<1> HIDE DEF x, y
<1>6. Len(x) = Len(y)
    <2>1. Len(x) = Len(l) - w /\ Len(y) = Len(s) - v /\ Len(l) = Len(s) - p
        BY <1>2, <1>4, <1>5
    <2> QED
        BY <1>1, <2>1
<1>7. ASSUME NEW i \in 1 .. Len(x) PROVE x[i] = y[i]
    <2>0. Len(x) = Len(l) - w /\ Len(y) = Len(s) - v /\ Len(l) = Len(s) - p
        BY <1>2, <1>4, <1>5
    <2>1. /\ i \in 1 .. Len(l) - w /\ w + i \in 1 .. Len(s) - p
          /\ i \in 1 .. Len(s) - v /\ p + (w + i) = v + i
        BY <1>1, <1>3, <2>0
    <2>2. x[i] = l[w + i]
        BY <1>4, <2>1
    <2>3. l[w + i] = s[p + (w + i)]
        BY <1>2, <2>1
    <2>4. y[i] = s[v + i]
        BY <1>5, <2>1
    <2> QED
        BY <2>1, <2>2, <2>3, <2>4
<1>8. x = y
    BY <1>4, <1>5, <1>6, <1>7, SeqEqual
<1> QED
    BY <1>8 DEF x, y

\* What is left of a chunk when its first bytes are freed.
LEMMA LeftAdvanced ==
    ASSUME NEW c \in Chunk, NEW w \in Nat, w < Len(Left(c)), NEW d \in Chunk,
           d.data = c.data, d.sp = c.sp + w
    PROVE  Left(d) = SubSeq(Left(c), w + 1, Len(Left(c)))
<1>1. /\ c.data \in Seq(Nat) /\ c.sp \in Nat /\ Len(c.data) \in Nat
      /\ Len(Left(c)) = Len(c.data) - c.sp
    BY ChunkProperties DEF Chunk, Cp
<1>2. d.sp \in Nat /\ d.sp <= Len(c.data)
    BY <1>1
<1>3. /\ Left(c) = SubSeq(c.data, c.sp + 1, Len(c.data))
      /\ Left(d) = SubSeq(c.data, d.sp + 1, Len(c.data))
    BY DEF Left, Cp
<1> DEFINE s == c.data
           p == c.sp
           v == d.sp
           l == Left(c)
<1>4. /\ s \in Seq(Nat) /\ p \in Nat /\ v \in Nat /\ v = p + w /\ v <= Len(s)
      /\ l = SubSeq(s, p + 1, Len(s)) /\ Left(d) = SubSeq(s, v + 1, Len(s))
    BY <1>1, <1>2, <1>3
<1> HIDE DEF s, p, v, l
<1>5. SubSeq(s, v + 1, Len(s)) = SubSeq(l, w + 1, Len(l))
    BY <1>4, RestOfRest, SMTT(30)
<1> QED
    BY <1>4, <1>5 DEF l

\* A sequence is its first element and its tail.
LEMMA FirstThenTail ==
    ASSUME NEW S, NEW s \in Seq(S), s # <<>>
    PROVE  s = <<s[1]>> \o Tail(s)
<1>1. Len(s) \in Nat /\ Len(s) # 0
    BY EmptySeq, LenProperties
<1>2. 1 \in 1 .. Len(s) /\ Len(s) \in 1 .. Len(s) /\ 1 + 1 = 2
    BY <1>1
<1>3. SubSeq(s, 1, Len(s)) = <<s[1]>> \o SubSeq(s, 1 + 1, Len(s))
    BY <1>2, SubSeqRecursiveFirst
<1> QED
    BY <1>2, <1>3, SubSeqFull, TailIsSubSeq

\* A round of the loop that frees leaves what has still to be written as it is.
LEMMA FreeContent ==
    ASSUME OutInv, FreeWritten, written <= Len(Content(chunks))
    PROVE  RestOf(chunks', written') = RestOf(chunks, written) /\ written' <= Len(Content(chunks'))
<1> DEFINE c == Head(chunks)
           t == Tail(chunks)
           left == Len(Left(c))
<1>1. chunks # <<>> /\ chunks \in Seq(Chunk) /\ written \in Nat /\ written > 0
    BY DEF FreeWritten, OutInv, ChunksOK, CountsOK
<1>2. c \in Chunk /\ t \in Seq(Chunk) /\ c = chunks[1]
    BY <1>1, HeadTailProperties
<1>3. chunks = <<c>> \o t
    BY <1>1, <1>2, FirstThenTail
<1> HIDE DEF c, t
<1>4. <<c>> \in Seq(Chunk) /\ Content(<<c>>) = Left(c) /\ Left(c) \in Seq(Nat)
    BY <1>2, ContentOne
<1>5. Content(chunks) = Left(c) \o Content(t)
    BY <1>2, <1>3, <1>4, LeftsConcat
<1>6. Content(t) \in Seq(Nat) /\ Content(chunks) \in Seq(Nat)
    BY <1>1, <1>2, LeftsType
<1>7. left \in Nat
    BY <1>4, LenProperties
<1>8. CASE written < left
    <2> DEFINE d == [c EXCEPT !.sp = c.sp + written]
    <2>1. d.data = c.data /\ d.sp = c.sp + written /\ d \in Chunk
        <3>1. c.sp \in Nat /\ left = Len(c.data) - c.sp /\ Len(c.data) \in Nat
            BY <1>2, ChunkProperties DEF Cp
        <3>2. c.sp + written \in Nat /\ c.sp + written < Len(c.data)
            BY <1>1, <1>7, <1>8, <3>1
        <3>3. /\ d \in [data : Seq(Nat), sp : Nat]
              /\ d.sp = c.sp + written /\ d.data = c.data
            BY <1>2, <3>2 DEF Chunk
        <3>4. Len(d.data) <= Size
            BY <1>2, <3>3 DEF Chunk
        <3> QED
            BY <3>2, <3>3, <3>4 DEF Chunk
    <2>2. chunks' = [chunks EXCEPT ![1] = d] /\ written' = 0
        BY <1>2, <1>8 DEF FreeWritten
    <2> HIDE DEF d
    <2>3. chunks' = <<d>> \o t
        <3>1. Len(chunks) \in Nat /\ 1 \in 1 .. Len(chunks)
            <4>1. Len(chunks) \in Nat /\ Len(chunks) # 0
                BY <1>1, EmptySeq, LenProperties
            <4> QED
                BY <4>1
        <3> DEFINE cs == [chunks EXCEPT ![1] = d]
        <3>2. /\ cs \in Seq(Chunk) /\ Len(cs) = Len(chunks)
              /\ \A i \in 1 .. Len(chunks) : cs[i] = IF i = 1 THEN d ELSE chunks[i]
            BY <1>1, <2>1, <3>1, ExceptSeq
        <3> HIDE DEF cs
        <3>3. cs # <<>> /\ cs[1] = d
            BY <3>1, <3>2, EmptySeq
        <3>4. Tail(cs) = t
            <4> DEFINE u == Tail(cs)
            <4>1. /\ u \in Seq(Chunk) /\ Len(u) = Len(chunks) - 1
                  /\ \A i \in 1 .. Len(u) : u[i] = cs[i + 1]
                BY <3>2, <3>3, HeadTailProperties
            <4>2. Len(t) = Len(chunks) - 1 /\ \A i \in 1 .. Len(t) : t[i] = chunks[i + 1]
                BY <1>1, HeadTailProperties DEF t
            <4> HIDE DEF u
            <4>3. ASSUME NEW i \in 1 .. Len(u) PROVE u[i] = t[i]
                <5>1. i + 1 \in 1 .. Len(chunks) /\ i + 1 # 1 /\ i \in 1 .. Len(t)
                    BY <3>1, <4>1, <4>2
                <5>2. u[i] = cs[i + 1]
                    BY <4>1
                <5>3. cs[i + 1] = chunks[i + 1]
                    BY <3>2, <5>1
                <5>4. t[i] = chunks[i + 1]
                    BY <4>2, <5>1
                <5> QED
                    BY <5>2, <5>3, <5>4
            <4>4. u = t
                BY <1>2, <4>1, <4>2, <4>3, SeqEqual
            <4> QED
                BY <4>4 DEF u
        <3>5. cs = <<d>> \o t
            BY <3>2, <3>3, <3>4, FirstThenTail
        <3> QED
            BY <2>2, <3>5 DEF cs
    <2>4. Left(d) = SubSeq(Left(c), written + 1, left)
        BY <1>1, <1>2, <1>8, <2>1, LeftAdvanced
    <2>5. Content(chunks') = Left(d) \o Content(t)
        <3>1. <<d>> \in Seq(Chunk) /\ Content(<<d>>) = Left(d)
            BY <2>1, ContentOne
        <3> QED
            BY <1>2, <2>3, <3>1, LeftsConcat
    <2>6. RestOf(chunks, written) = Left(d) \o Content(t)
        <3>1. written + 1 \in 1 .. Len(Left(c))
            BY <1>1, <1>7, <1>8
        <3>2. SubSeq(Left(c) \o Content(t), written + 1, Len(Left(c) \o Content(t)))
                = SubSeq(Left(c), written + 1, Len(Left(c))) \o Content(t)
            BY <1>4, <1>6, <3>1, EndOfConcat
        <3> QED
            BY <1>5, <2>4, <3>2 DEF RestOf
    <2>7. Content(chunks') \in Seq(Nat)
        <3>1. Left(d) \in Seq(Nat)
            BY <2>1, ChunkProperties
        <3> QED
            BY <1>6, <2>5, <3>1, ConcatProperties
    <2>8. RestOf(chunks', 0) = Content(chunks')
        BY <2>7, RestOfAll DEF RestOf
    <2>9. 0 <= Len(Content(chunks'))
        BY <2>7, LenProperties
    <2> QED
        BY <2>2, <2>5, <2>6, <2>8, <2>9
<1>9. CASE ~(written < left)
    <2>1. chunks' = t /\ written' = written - left
        BY <1>2, <1>9 DEF FreeWritten, t
    <2>2. left <= written /\ written <= Len(Left(c) \o Content(t))
        BY <1>1, <1>5, <1>7, <1>9
    <2>3. /\ SubSeq(Left(c) \o Content(t), written + 1, Len(Left(c) \o Content(t)))
               = SubSeq(Content(t), written - Len(Left(c)) + 1, Len(Content(t)))
          /\ written - Len(Left(c)) <= Len(Content(t))
        BY <1>1, <1>4, <1>6, <2>2, RestBehind
    <2> QED
        BY <1>5, <2>1, <2>3 DEF RestOf
<1> QED
    BY <1>8, <1>9
-----------------------------------------------------------------------------
(* The program implements the byte stream.                                 *)

\* The bytes of q are numbered from k + 1 on.
Counts(q, k) == q = [i \in 1 .. Len(q) |-> k + i]

Follows(q, r) == Counts(q, Len(r))

\* Until the end, what is in the chunks behind the bytes written follows what the
\* socket took, up to the last byte put.
Numbered(cs, w, r, p) ==
    /\ w <= Len(Content(cs))
    /\ Follows(RestOf(cs, w), r)
    /\ Len(r) + Len(RestOf(cs, w)) = p

StreamInv ==
    /\ OutInv
    /\ received \in Seq(Nat)
    /\ pc = "toread" => typed \/ gone
    /\ ~Ended => (pc # "free" => written = 0) /\ Numbered(chunks, written, received, put)

\* At the beginning the stream is empty on both sides.
LEMMA StreamInit == Init => StreamInv /\ Stream!Init
<1> SUFFICES ASSUME Init PROVE StreamInv /\ Stream!Init
    OBVIOUS
<1>1. OutInv
    BY OutInit
<1>2. chunks = <<>> /\ received = <<>> /\ written = 0 /\ put = 0 /\ pc = "create" /\ ~closing
    BY DEF Init
<1>3. RestOf(<<>>, 0) = <<>> /\ Content(<<>>) = <<>>
    <2>1. <<>> \in Seq(Nat)
        BY EmptySeq
    <2> QED
        BY <2>1, ContentEmpty, RestOfAll DEF RestOf
<1>4. Len(<<>>) = 0 /\ <<>> \in Seq(Nat) /\ <<>> = [i \in 1 .. Len(<<>>) |-> Len(<<>>) + i]
    BY EmptySeq
<1>5. Numbered(<<>>, 0, <<>>, 0)
    <2>1. Follows(<<>>, <<>>)
        BY <1>4 DEF Follows, Counts
    <2>2. 0 <= Len(<<>>) /\ Len(<<>>) + Len(<<>>) = 0
        BY <1>4
    <2> QED
        BY <1>3, <2>1, <2>2 DEF Numbered
<1>6. ~Ended /\ Pending = <<>>
    BY <1>2, <1>3, PendingIsRest DEF Ended
<1> QED
    BY <1>1, <1>2, <1>4, <1>5, <1>6 DEF StreamInv, Stream!Init

\* What the buffer has still to write, and what the socket took, are sequences.
LEMMA RestType ==
    ASSUME OutInv, written <= Len(Content(chunks))
    PROVE  /\ Content(chunks) \in Seq(Nat) /\ Len(Content(chunks)) \in Nat
           /\ RestOf(chunks, written) \in Seq(Nat)
           /\ Len(RestOf(chunks, written)) = Len(Content(chunks)) - written
<1>1. Content(chunks) \in Seq(Nat) /\ written \in Nat
    BY LeftsType DEF OutInv, ChunksOK, CountsOK
<1>2. Len(Content(chunks)) \in Nat
    BY <1>1, LenProperties
<1> QED
    BY <1>1, <1>2, RestProperties DEF RestOf

\* After the end nothing arrives.
LEMMA EndedStays ==
    ASSUME StreamInv, [Next]_vars, Ended
    PROVE  Ended' /\ received' = received
<1>1. AsksOK
    BY DEF StreamInv, OutInv
<1>2. pc \notin {"create", "select", "toread", "read"} /\ (pc = "closed" \/ (closing /\ gone))
    BY <1>1 DEF AsksOK, Ended
<1>3. CASE Peer \/ UNCHANGED vars
    BY <1>2, <1>3 DEF Peer, PeerTypes, PeerReads, PeerLeaves, vars, flushing, terminal, Ended
<1>4. CASE FlushAll
    BY <1>2, <1>4 DEF FlushAll, terminal, Ended
<1>5. CASE FreeWritten
    BY <1>2, <1>5 DEF FreeWritten, terminal, Ended
<1>6. CASE WriteError
    BY <1>2, <1>6 DEF WriteError, flushing, terminal, Ended
<1>7. CASE RoundEnds
    BY <1>2, <1>7 DEF RoundEnds, terminal, Ended
<1>8. CASE NotWritten
    BY <1>2, <1>8 DEF NotWritten, terminal, Ended
<1>9. CASE Written
    BY <1>2, <1>9 DEF Written
<1>10. CASE Created \/ Select \/ ReadInterrupted \/ VtyRead \/ ReadEnds \/ BufferPut
    BY <1>2, <1>10 DEF Created, Select, ReadInterrupted, VtyRead, ReadEnds, BufferPut
<1> QED
    BY <1>3, <1>4, <1>5, <1>6, <1>7, <1>8, <1>9, <1>10 DEF Next, Program, Proceeds

\* Bytes come and go in three steps only.
LEMMA OtherSteps ==
    ASSUME StreamInv, [Next]_vars, ~Ended, ~BufferPut, ~Written, ~FreeWritten
    PROVE  /\ received' = received
           /\ \/ Ended'
              \/ /\ chunks' = chunks /\ written' = written /\ put' = put
                 /\ pc' # "free" => written' = 0
<1>1. AsksOK /\ (pc = "toread" => typed \/ gone) /\ (pc # "free" => written = 0)
    BY DEF StreamInv, OutInv
<1>2. pc # "closed" /\ ~(closing /\ gone)
    BY DEF Ended
<1>3. pc = "free" /\ (written = 0 \/ chunks = <<>>) => written = 0
    <2> SUFFICES ASSUME chunks = <<>> PROVE written = 0
        OBVIOUS
    <2>1. written <= Len(Content(chunks)) /\ written \in Nat
        BY DEF StreamInv, Numbered, OutInv, CountsOK
    <2>2. Len(Content(chunks)) = 0
        BY ContentEmpty
    <2> QED
        BY <2>1, <2>2
<1>4. CASE Peer \/ UNCHANGED vars
    BY <1>1, <1>4
       DEF Peer, PeerTypes, PeerReads, PeerLeaves, vars, buffer, flushing, terminal
<1>5. CASE Created
    BY <1>1, <1>5 DEF Created, VtyClose, buffer, flushing
<1>6. CASE Select
    BY <1>1, <1>6 DEF Select, buffer, flushing, terminal
<1>7. CASE ReadInterrupted
    BY <1>1, <1>7 DEF ReadInterrupted, AfterRead, buffer, flushing, terminal
<1>8. CASE VtyRead
    BY <1>1, <1>8 DEF VtyRead, VtyClose, flushing, Ended
<1>9. CASE ReadEnds
    BY <1>1, <1>9 DEF ReadEnds, AfterRead, VtyClose, buffer, flushing, terminal
<1>10. CASE FlushAll
    BY <1>1, <1>10 DEF FlushAll, Flushed, terminal, Ended
<1>11. CASE NotWritten
    BY <1>1, <1>11 DEF NotWritten, buffer, terminal
<1>12. CASE WriteError
    BY <1>1, <1>2, <1>12 DEF WriteError, Flushed, flushing, terminal, Ended
<1>13. CASE RoundEnds
    BY <1>1, <1>3, <1>13 DEF RoundEnds, Flushed, terminal, Ended
<1> QED
    BY <1>4, <1>5, <1>6, <1>7, <1>8, <1>9, <1>10, <1>11, <1>12, <1>13
       DEF Next, Program, Proceeds

\* vty_read is called for a key or for the end.
LEMMA ToReadHasReason ==
    ASSUME StreamInv, [Next]_vars
    PROVE  (pc' = "toread") => (typed' \/ gone')
<1>1. pc = "toread" => typed \/ gone
    BY DEF StreamInv
<1>2. CASE Peer \/ UNCHANGED vars
    BY <1>1, <1>2
       DEF Peer, PeerTypes, PeerReads, PeerLeaves, vars, buffer, flushing, terminal
<1>3. CASE Select
    <2>1. flags' \subseteq Readable \cup Writable /\ typed' = typed /\ gone' = gone
        BY <1>3 DEF Select, terminal
    <2>2. (pc' = "toread") => "READ" \in flags'
        BY <1>3 DEF Select
    <2>3. "READ" \notin Writable
        BY DEF Writable
    <2>4. "READ" \in Readable => typed \/ gone
        BY DEF Readable
    <2> QED
        BY <2>1, <2>2, <2>3, <2>4
<1>4. CASE BufferPut
    BY <1>4 DEF BufferPut
<1>5. CASE Created
    BY <1>5 DEF Created, VtyClose
<1>6. CASE ReadInterrupted
    BY <1>6 DEF ReadInterrupted, AfterRead
<1>7. CASE VtyRead
    BY <1>7 DEF VtyRead, VtyClose
<1>8. CASE ReadEnds
    BY <1>8 DEF ReadEnds, AfterRead, VtyClose
<1>9. CASE FlushAll
    BY <1>9 DEF FlushAll, Flushed
<1>10. CASE NotWritten \/ Written \/ FreeWritten
    BY <1>10 DEF NotWritten, Written, FreeWritten
<1>11. CASE WriteError
    BY <1>11 DEF WriteError, Flushed
<1>12. CASE RoundEnds
    BY <1>12 DEF RoundEnds, Flushed
<1> QED
    BY <1>2, <1>3, <1>4, <1>5, <1>6, <1>7, <1>8, <1>9, <1>10, <1>11, <1>12
       DEF Next, Program, Proceeds

\* Bytes that follow q are numbered on.
LEMMA NumbersJoin ==
    ASSUME NEW q \in Seq(Nat), NEW k \in Nat, NEW n \in Nat, NEW new,
           Counts(q, k), new = [i \in 1 .. n |-> (k + Len(q)) + i]
    PROVE  /\ q \o new \in Seq(Nat) /\ Len(q \o new) = Len(q) + n
           /\ Counts(q \o new, k)
<1>1. Len(q) \in Nat
    BY LenProperties
<1>2. new \in Seq(Nat) /\ Len(new) = n /\ \A i \in 1 .. n : new[i] = (k + Len(q)) + i
    <2>1. new \in [1 .. n -> Nat]
        BY <1>1
    <2>2. new \in Seq(Nat) /\ DOMAIN new = 1 .. n
        BY <2>1, SeqDef
    <2>3. Len(new) \in Nat /\ DOMAIN new = 1 .. Len(new)
        BY <2>2, LenProperties
    <2>4. Len(new) = n
        BY <2>2, <2>3
    <2> QED
        BY <2>2, <2>4
<1> DEFINE x == q \o new
           y == [i \in 1 .. Len(q) + n |-> k + i]
<1>3. /\ x \in Seq(Nat) /\ Len(x) = Len(q) + Len(new)
      /\ \A i \in 1 .. Len(q) + Len(new) : x[i] = IF i <= Len(q) THEN q[i] ELSE new[i - Len(q)]
    BY <1>2, ConcatProperties
<1>4. y \in Seq(Nat) /\ Len(y) = Len(q) + n
    <2>1. y \in [1 .. Len(q) + n -> Nat] /\ Len(q) + n \in Nat
        BY <1>1
    <2>2. y \in Seq(Nat) /\ DOMAIN y = 1 .. Len(q) + n
        BY <2>1, SeqDef
    <2>3. Len(y) \in Nat /\ DOMAIN y = 1 .. Len(y)
        BY <2>2, LenProperties
    <2> HIDE DEF y
    <2> QED
        BY <2>1, <2>2, <2>3
<1>5. \A i \in 1 .. Len(q) + n : y[i] = k + i
    OBVIOUS
<1>6. \A i \in 1 .. Len(q) : q[i] = k + i
    BY DEF Counts
<1> HIDE DEF x, y
<1>7. ASSUME NEW i \in 1 .. Len(x) PROVE x[i] = y[i]
    <2>1. i \in 1 .. Len(q) + n /\ i \in Nat
        BY <1>1, <1>2, <1>3
    <2>2. CASE i <= Len(q)
        <3>1. i \in 1 .. Len(q)
            BY <1>1, <2>1, <2>2
        <3>2. x[i] = q[i]
            BY <1>2, <1>3, <2>1, <2>2
        <3>3. q[i] = k + i
            BY <1>6, <3>1
        <3> QED
            BY <1>5, <2>1, <3>2, <3>3
    <2>3. CASE ~(i <= Len(q))
        <3>1. x[i] = new[i - Len(q)]
            BY <1>2, <1>3, <2>1, <2>3
        <3>2. i - Len(q) \in 1 .. n /\ (k + Len(q)) + (i - Len(q)) = k + i
            BY <1>1, <2>1, <2>3
        <3>3. new[i - Len(q)] = (k + Len(q)) + (i - Len(q))
            BY <1>2, <3>2
        <3> QED
            BY <1>5, <2>1, <3>1, <3>2, <3>3
    <2> QED
        BY <2>2, <2>3
<1>8. Len(x) = Len(y)
    BY <1>2, <1>3, <1>4
<1>9. x = y
    BY <1>3, <1>4, <1>7, <1>8, SeqEqual
<1> QED
    <2>1. Len(x) = Len(q) + n
        BY <1>2, <1>3
    <2>2. x = [i \in 1 .. Len(x) |-> k + i]
        BY <1>9, <2>1 DEF y
    <2> QED
        BY <1>3, <2>1, <2>2 DEF x, Counts

\* Numbered bytes that arrive leave numbered ones.
LEMMA NumbersPart ==
    ASSUME NEW q \in Seq(Nat), NEW k \in Nat, NEW n \in Nat, n <= Len(q),
           Counts(q, k), NEW u, u = SubSeq(q, n + 1, Len(q))
    PROVE  /\ u \in Seq(Nat) /\ Len(u) = Len(q) - n
           /\ Counts(u, k + n)
<1>1. Len(q) \in Nat
    BY LenProperties
<1>2. u \in Seq(Nat) /\ Len(u) = Len(q) - n /\ \A i \in 1 .. Len(q) - n : u[i] = q[n + i]
    BY RestProperties
<1>3. \A i \in 1 .. Len(q) : q[i] = k + i
    BY DEF Counts
<1>4. ASSUME NEW i \in 1 .. Len(u) PROVE u[i] = (k + n) + i
    <2>0. Len(u) = Len(q) - n
        BY <1>2
    <2>1. i \in 1 .. Len(q) - n /\ n + i \in 1 .. Len(q) /\ k + (n + i) = (k + n) + i
        BY <1>1, <2>0
    <2>2. u[i] = q[n + i]
        BY <1>2, <2>1
    <2>3. q[n + i] = k + (n + i)
        BY <1>3, <2>1
    <2> QED
        BY <2>1, <2>2, <2>3
<1>5. DOMAIN u = 1 .. Len(u) /\ u \in [1 .. Len(u) -> Nat]
    BY <1>2, LenProperties
<1>6. u = [i \in 1 .. Len(u) |-> (k + n) + i]
    BY <1>4, <1>5
<1> QED
    BY <1>2, <1>6 DEF Counts

\* buffer_put puts bytes into the queue.
LEMMA PutIsPut ==
    ASSUME StreamInv, BufferPut
    PROVE  Stream!Put /\ StreamInv'
<1>1. OutInv' /\ OutInv /\ received \in Seq(Nat)
    BY OutStep DEF StreamInv, Next, Program
<1>2. pc \in {"create", "read"} /\ ~closing /\ ~Ended
    BY <1>1 DEF BufferPut, OutInv, AsksOK, Ended
<1>3. UNCHANGED <<closing, written, pc, received, typed, gone>>
    BY DEF BufferPut, flushing, terminal
<1>4. written = 0 /\ Numbered(chunks, 0, received, put)
    BY <1>2 DEF StreamInv
<1>5. PICK n \in 1 .. FreeOfTail : PutIn(n) /\ put' = put + n
    BY DEF BufferPut
<1> DEFINE q == Content(chunks)
           new == [i \in 1 .. n |-> put + i]
           r == q \o new
           k == Len(received)
<1>6. n \in Nat /\ n > 0 /\ put \in Nat /\ k \in Nat
    BY <1>1, <1>5, PutRound, LenProperties DEF OutInv, CountsOK
<1>7. Content(chunks') = r /\ q \in Seq(Nat) /\ Len(q) \in Nat
    BY <1>1, <1>5, <1>6, PutContent, LeftsType, LenProperties DEF OutInv, ChunksOK
<1>8. RestOf(chunks, 0) = q
    BY <1>7, RestOfAll DEF RestOf
<1>9. Counts(q, k) /\ k + Len(q) = put
    BY <1>4, <1>8 DEF Numbered, Follows
<1>10. new = [i \in 1 .. n |-> (k + Len(q)) + i]
    BY <1>9
<1> HIDE DEF new, q, k
<1>11. r \in Seq(Nat) /\ Len(r) = Len(q) + n /\ Counts(r, k)
    BY <1>6, <1>7, <1>9, <1>10, NumbersJoin
<1> HIDE DEF r
<1>12. RestOf(chunks', 0) = r
    BY <1>7, <1>11, RestOfAll DEF RestOf
<1>13. Len(r) > Len(q) /\ 0 <= Len(r) /\ k + Len(r) = put'
    <2>1. Len(r) = Len(q) + n /\ put' = put + n
        BY <1>5, <1>11
    <2> QED
        BY <1>6, <1>7, <1>9, <2>1
<1>14. Numbered(chunks', 0, received, put')
    BY <1>7, <1>11, <1>12, <1>13 DEF Numbered, Follows, k
<1>15. ~Ended' /\ Ended' = Ended
    BY <1>2, <1>3 DEF Ended
<1>16. StreamInv'
    BY <1>1, <1>2, <1>3, <1>4, <1>14 DEF StreamInv
<1>17. Pending = q /\ Pending' = r
    BY <1>3, <1>4, <1>8, <1>12, PendingIsRest
<1>18. Stream!Put
    BY <1>2, <1>3, <1>11, <1>13, <1>15, <1>17 DEF Stream!Put, Counts, k
<1> QED
    BY <1>16, <1>18

\* writev delivers bytes.
LEMMA WrittenIsDeliver ==
    ASSUME StreamInv, Written
    PROVE  Stream!Deliver /\ StreamInv'
<1>1. OutInv' /\ OutInv /\ received \in Seq(Nat)
    BY OutStep DEF StreamInv, Next, Program, Proceeds
<1>2. pc = "writev" /\ pc' = "free" /\ ~gone /\ UNCHANGED <<chunks, put, closing, typed, gone>>
    BY DEF Written, buffer
<1>3. ~Ended /\ ~Ended' /\ Ended' = Ended
    BY <1>2 DEF Ended
<1>4. written = 0 /\ Numbered(chunks, 0, received, put)
    BY <1>2, <1>3 DEF StreamInv
<1>5. PICK m \in Offered, n \in 1 .. space :
         n <= Len(Unflushed(m)) /\ received' = received \o SubSeq(Unflushed(m), 1, n) /\ written' = n
    BY DEF Written
<1> DEFINE q == Content(chunks)
           a == Unflushed(m)
           p == SubSeq(q, 1, n)
           u == SubSeq(q, n + 1, Len(q))
           k == Len(received)
<1>6. m \in 1 .. Len(chunks) /\ n \in Nat /\ n >= 1 /\ k \in Nat /\ chunks \in Seq(Chunk)
    BY <1>1, LenProperties DEF Offered, OutInv, CountsOK, ChunksOK
<1>7. q \in Seq(Nat) /\ Len(q) \in Nat
    BY <1>6, LeftsType, LenProperties
<1>8. a \in Seq(Nat) /\ \E rest \in Seq(Nat) : q = a \o rest
    BY <1>6, UnflushedBegins
<1>9. n <= Len(a)
    BY <1>5
<1>10. received' = received \o SubSeq(a, 1, n)
    BY <1>5
<1> HIDE DEF a, q, p, u, k
<1>11. PICK rest \in Seq(Nat) : q = a \o rest
    BY <1>8
<1>12. Len(q) = Len(a) + Len(rest) /\ Len(a) \in Nat /\ Len(rest) \in Nat
    BY <1>8, <1>11, ConcatProperties, LenProperties
<1>13. n <= Len(q) /\ n \in 1 .. Len(q)
    BY <1>6, <1>7, <1>9, <1>12
<1>14. SubSeq(a, 1, n) = p
    <2>1. 1 \in 1 .. Len(a) /\ n \in 1 .. Len(a)
        BY <1>6, <1>9, <1>12
    <2>2. SubSeq(a \o rest, 1, n) = SubSeq(a, 1, n)
        BY <1>8, <2>1, SubSeqOfConcat1
    <2> QED
        BY <1>11, <2>2 DEF p
<1>15. p \in Seq(Nat) /\ Len(p) = n
    <2>1. \A i \in 1 .. n : q[i] \in Nat
        BY <1>6, <1>7, <1>13, ElementOfSeq
    <2>2. SubSeq(q, 1, n) \in Seq(Nat) /\ Len(SubSeq(q, 1, n)) = IF 1 <= n THEN n - 1 + 1 ELSE 0
        BY <1>6, <2>1, SubSeqProperties
    <2>3. (IF 1 <= n THEN n - 1 + 1 ELSE 0) = n
        BY <1>6
    <2> QED
        BY <2>2, <2>3 DEF p
<1>16. received' = received \o p /\ received' \in Seq(Nat) /\ Len(received') = k + n
    <2>1. received \o p \in Seq(Nat) /\ Len(received \o p) = Len(received) + Len(p)
        BY <1>1, <1>15, ConcatProperties
    <2> QED
        BY <1>10, <1>14, <1>15, <2>1 DEF k
<1>17. RestOf(chunks, 0) = q
    BY <1>7, RestOfAll DEF RestOf, q
<1>18. Counts(q, k) /\ k + Len(q) = put
    BY <1>4, <1>17 DEF Numbered, Follows, k
<1>19. u \in Seq(Nat) /\ Len(u) = Len(q) - n /\ Counts(u, k + n)
    BY <1>6, <1>7, <1>13, <1>18, NumbersPart DEF u
<1>20. RestOf(chunks, n) = u
    BY DEF RestOf, u, q
<1>21. (k + n) + Len(u) = put
    BY <1>6, <1>7, <1>18, <1>19
<1>22. Numbered(chunks, n, received', put)
    BY <1>13, <1>16, <1>19, <1>20, <1>21 DEF Numbered, Follows, q
<1>23. StreamInv'
    BY <1>1, <1>2, <1>5, <1>16, <1>22 DEF StreamInv
<1>24. Pending = q /\ Pending' = u
    BY <1>2, <1>4, <1>5, <1>17, <1>20, PendingIsRest
<1>25. Stream!Deliver
    BY <1>3, <1>13, <1>16, <1>24 DEF Stream!Deliver, p, u
<1> QED
    BY <1>23, <1>25

\* What is freed was written: for the stream nothing happens.
LEMMA FreeIsNothing ==
    ASSUME StreamInv, FreeWritten, ~Ended
    PROVE  Pending' = Pending /\ received' = received /\ ~Ended' /\ StreamInv'
<1>1. OutInv' /\ OutInv /\ received \in Seq(Nat)
    BY OutStep DEF StreamInv, Next, Program, Proceeds
<1>2. pc = "free" /\ UNCHANGED <<pc, closing, put, received, typed, gone>>
    BY DEF FreeWritten, terminal
<1>3. ~Ended'
    BY <1>2 DEF Ended
<1>4. Numbered(chunks, written, received, put)
    BY DEF StreamInv
<1>5. written <= Len(Content(chunks))
    BY <1>4 DEF Numbered
<1>6. RestOf(chunks', written') = RestOf(chunks, written) /\ written' <= Len(Content(chunks'))
    BY <1>1, <1>5, FreeContent
<1>7. Numbered(chunks', written', received, put)
    BY <1>4, <1>6 DEF Numbered
<1>8. StreamInv'
    BY <1>1, <1>2, <1>7 DEF StreamInv
<1> QED
    BY <1>2, <1>3, <1>6, <1>8, PendingIsRest

\* The steps that neither put nor write nor free either do nothing for the stream
\* or end it.
LEMMA OthersEndOrDoNothing ==
    ASSUME StreamInv, [Next]_vars, ~BufferPut, ~Written, ~FreeWritten, ~Ended
    PROVE  /\ received' = received
           /\ Ended' \/ Pending' = Pending
           /\ StreamInv'
<1>1. OutInv' /\ received \in Seq(Nat)
    BY OutStep DEF StreamInv
<1>2. /\ received' = received
      /\ \/ Ended'
         \/ /\ chunks' = chunks /\ written' = written /\ put' = put
            /\ pc' # "free" => written' = 0
    BY OtherSteps
<1>3. (pc' = "toread") => (typed' \/ gone')
    BY ToReadHasReason
<1>4. Numbered(chunks, written, received, put)
    BY DEF StreamInv
<1>5. StreamInv'
    BY <1>1, <1>2, <1>3, <1>4 DEF StreamInv
<1>6. Ended' \/ Pending' = Pending
    BY <1>2, PendingIsRest
<1> QED
    BY <1>2, <1>5, <1>6

\* Each step is one of the stream, or none.
LEMMA StreamStep ==
    ASSUME StreamInv, [Next]_vars
    PROVE  /\ StreamInv'
           /\ [Stream!Next]_<<IF Ended THEN <<>> ELSE Pending, received, Ended>>
<1>1. CASE Ended
    <2>1. Ended' /\ received' = received
        BY <1>1, EndedStays
    <2>2. StreamInv'
        BY <2>1, OutStep, ToReadHasReason DEF StreamInv
    <2> QED
        BY <1>1, <2>1, <2>2
<1>2. CASE ~Ended /\ BufferPut
    BY <1>2, PutIsPut DEF Stream!Next
<1>3. CASE ~Ended /\ Written
    BY <1>3, WrittenIsDeliver DEF Stream!Next
<1>0. Ended \in BOOLEAN /\ Ended' \in BOOLEAN
    BY DEF Ended
<1>4. CASE ~Ended /\ FreeWritten
    <2>1. Pending' = Pending /\ received' = received /\ ~Ended' /\ StreamInv'
        BY <1>4, FreeIsNothing
    <2>2. UNCHANGED <<IF Ended THEN <<>> ELSE Pending, received, Ended>>
        <3>1. Ended' = Ended
            BY <1>0, <1>4, <2>1
        <3> QED
            BY <1>4, <2>1, <3>1
    <2> QED
        BY <2>1, <2>2
<1>5. CASE ~Ended /\ ~BufferPut /\ ~Written /\ ~FreeWritten
    <2>1. received' = received /\ (Ended' \/ Pending' = Pending) /\ StreamInv'
        BY <1>5, OthersEndOrDoNothing
    <2>2. CASE Ended'
        BY <2>1, <2>2 DEF Stream!Next, Stream!End
    <2>3. CASE ~Ended'
        <3>1. Ended' = Ended
            BY <1>0, <1>5, <2>3
        <3>2. UNCHANGED <<IF Ended THEN <<>> ELSE Pending, received, Ended>>
            BY <1>5, <2>1, <2>3, <3>1
        <3> QED
            BY <2>1, <3>2
    <2> QED
        BY <2>1, <2>2, <2>3
<1> QED
    BY <1>1, <1>2, <1>3, <1>4, <1>5

\* Chunks, short writes, interrupted and failed ones, and what is dropped at the end:
\* whatever the sizes, the bytes put arrive in the order in which they were put, each
\* once, until the connection ends.
THEOREM OutputIsAByteStream == Spec => ImplementsByteStream
<1>1. Init => StreamInv /\ Stream!Init
    BY StreamInit
<1>2. StreamInv /\ [Next]_vars =>
        /\ StreamInv'
        /\ [Stream!Next]_<<IF Ended THEN <<>> ELSE Pending, received, Ended>>
    BY StreamStep
<1> QED
    BY <1>1, <1>2, PTL DEF Spec, ImplementsByteStream, Stream!Spec
-----------------------------------------------------------------------------
(* The receive path of the two Abis links.                                 *)

-----------------------------------------------------------------------------
(* Cutting a stream of bytes.                                              *)

\* A sequence is what comes up to a place and what comes behind it.
LEMMA CutAt ==
    ASSUME NEW S, NEW s \in Seq(S), NEW n \in 0 .. Len(s)
    PROVE  LET a == SubSeq(s, 1, n)
               z == SubSeq(s, n + 1, Len(s))
           IN  /\ a \in Seq(S) /\ Len(a) = n /\ \A i \in 1 .. n : a[i] = s[i]
               /\ z \in Seq(S) /\ Len(z) = Len(s) - n /\ \A i \in 1 .. Len(s) - n : z[i] = s[n + i]
               /\ a \o z = s
<1> DEFINE a == SubSeq(s, 1, n)
           z == SubSeq(s, n + 1, Len(s))
<1>1. Len(s) \in Nat /\ n \in Nat /\ n <= Len(s)
    <2>1. Len(s) \in Nat
        BY LenProperties
    <2> QED
        BY <2>1
<1>2. a \in Seq(S) /\ Len(a) = n /\ \A i \in 1 .. n : a[i] = s[i]
    <2>1. \A i \in 1 .. n : s[i] \in S
        BY <1>1, ElementOfSeq
    <2>2. /\ a \in Seq(S) /\ Len(a) = IF 1 <= n THEN n - 1 + 1 ELSE 0
          /\ \A i \in 1 .. n - 1 + 1 : a[i] = s[1 + i - 1]
        BY <1>1, <2>1, SubSeqProperties
    <2> HIDE DEF a
    <2>3. Len(a) = n
        BY <1>1, <2>2
    <2>4. ASSUME NEW i \in 1 .. n PROVE a[i] = s[i]
        <3>1. i \in 1 .. n - 1 + 1 /\ 1 + i - 1 = i
            BY <1>1
        <3> QED
            BY <2>2, <3>1
    <2> QED
        BY <2>2, <2>3, <2>4
<1>3. z \in Seq(S) /\ Len(z) = Len(s) - n /\ \A i \in 1 .. Len(s) - n : z[i] = s[n + i]
    <2> DEFINE k == Len(s)
    <2>1. \A i \in n + 1 .. k : s[i] \in S
        BY <1>1, ElementOfSeq
    <2>0. n + 1 \in Int /\ k \in Int /\ k \in Nat /\ n \in Nat /\ n <= k
        BY <1>1
    <2> HIDE DEF k
    <2>2. /\ SubSeq(s, n + 1, k) \in Seq(S)
          /\ Len(SubSeq(s, n + 1, k)) = IF n + 1 <= k THEN k - (n + 1) + 1 ELSE 0
          /\ \A i \in 1 .. k - (n + 1) + 1 : SubSeq(s, n + 1, k)[i] = s[n + 1 + i - 1]
        BY <2>0, <2>1, SubSeqProperties
    <2> DEFINE y == SubSeq(s, n + 1, k)
    <2> HIDE DEF y
    <2>3. Len(y) = k - n
        BY <2>0, <2>2 DEF y
    <2>4. ASSUME NEW i \in 1 .. k - n PROVE y[i] = s[n + i]
        <3>1. i \in 1 .. k - (n + 1) + 1 /\ n + 1 + i - 1 = n + i
            BY <2>0
        <3> QED
            BY <2>2, <3>1 DEF y
    <2>5. z = y /\ k = Len(s)
        BY DEF y, k
    <2>6. y \in Seq(S)
        BY <2>2 DEF y
    <2> HIDE DEF z
    <2> QED
        BY <2>3, <2>4, <2>5, <2>6
<1> HIDE DEF a, z
<1>4. /\ a \o z \in Seq(S) /\ Len(a \o z) = n + (Len(s) - n)
      /\ \A i \in 1 .. n + (Len(s) - n) : (a \o z)[i] = IF i <= n THEN a[i] ELSE z[i - n]
    <2>1. a \in Seq(S) /\ z \in Seq(S) /\ Len(a) = n /\ Len(z) = Len(s) - n
        BY <1>2, <1>3
    <2>2. /\ a \o z \in Seq(S) /\ Len(a \o z) = Len(a) + Len(z)
          /\ \A i \in 1 .. Len(a) + Len(z) :
               (a \o z)[i] = IF i <= Len(a) THEN a[i] ELSE z[i - Len(a)]
        BY <2>1, ConcatProperties
    <2> QED
        BY <2>1, <2>2
<1>5. ASSUME NEW i \in 1 .. Len(s) PROVE (a \o z)[i] = s[i]
    <2>1. i \in 1 .. n + (Len(s) - n)
        BY <1>1
    <2>2. CASE i <= n
        BY <1>2, <1>4, <2>1, <2>2
    <2>3. CASE ~(i <= n)
        <3>1. i - n \in 1 .. Len(s) - n /\ n + (i - n) = i
            BY <1>1, <2>3
        <3>2. z[i - n] = s[i]
            BY <1>3, <3>1
        <3> QED
            BY <1>4, <2>1, <2>3, <3>2
    <2> QED
        BY <2>2, <2>3
<1>6. Len(a \o z) = Len(s)
    BY <1>1, <1>4
<1>7. a \o z = s
    BY <1>4, <1>5, <1>6, SeqEqual
<1> QED
    BY <1>2, <1>3, <1>7 DEF a, z

\* What follows the same beginning is the same.
LEMMA CancelLeft ==
    ASSUME NEW S, NEW a \in Seq(S), NEW b \in Seq(S), NEW c \in Seq(S), a \o b = a \o c
    PROVE  b = c
<1>1. Len(a) \in Nat /\ Len(b) \in Nat /\ Len(c) \in Nat
    BY LenProperties
<1>2. Len(a \o b) = Len(a) + Len(b) /\ Len(a \o c) = Len(a) + Len(c)
    BY ConcatProperties
<1>3. Len(b) = Len(c)
    BY <1>1, <1>2
<1>4. ASSUME NEW i \in 1 .. Len(b) PROVE b[i] = c[i]
    <2> DEFINE j == Len(a) + i
    <2>1. /\ j \in 1 .. Len(a) + Len(b) /\ j \in 1 .. Len(a) + Len(c)
          /\ ~(j <= Len(a)) /\ j - Len(a) = i
        BY <1>1, <1>3
    <2> HIDE DEF j
    <2>2. (a \o b)[j] = b[j - Len(a)] /\ (a \o c)[j] = c[j - Len(a)]
        BY <2>1, ConcatProperties
    <2> QED
        BY <2>1, <2>2
<1> QED
    BY <1>3, <1>4, SeqEqual

\* Two ways to cut the same stream: what comes first in the one comes first in the
\* other, and what is behind it there is the same.
LEMMA SameCut ==
    \A a, f, b, r \in Seq(Nat) :
        a \o f = b \o r /\ Len(b) <= Len(a) =>
                /\ \A i \in 1 .. Len(b) : a[i] = b[i]
                /\ SubSeq(a, Len(b) + 1, Len(a)) \o f = r
<1> SUFFICES ASSUME NEW a \in Seq(Nat), NEW f \in Seq(Nat), NEW b \in Seq(Nat), NEW r \in Seq(Nat),
                    a \o f = b \o r, Len(b) <= Len(a)
             PROVE  /\ \A i \in 1 .. Len(b) : a[i] = b[i]
                    /\ SubSeq(a, Len(b) + 1, Len(a)) \o f = r
    OBVIOUS
<1> DEFINE n == Len(b)
           p == SubSeq(a, 1, n)
           z == SubSeq(a, n + 1, Len(a))
<1>0. n \in Nat /\ Len(a) \in Nat /\ n \in 0 .. Len(a) /\ Len(f) \in Nat /\ Len(r) \in Nat
    <2>1. Len(b) \in Nat /\ Len(a) \in Nat /\ Len(f) \in Nat /\ Len(r) \in Nat
        BY LenProperties
    <2> QED
        BY <2>1
<1>1. /\ p \in Seq(Nat) /\ Len(p) = n /\ \A i \in 1 .. n : p[i] = a[i]
      /\ z \in Seq(Nat) /\ p \o z = a
    BY <1>0, CutAt, ZenonT(30)
<1>2. ASSUME NEW i \in 1 .. n PROVE a[i] = b[i]
    <2>1. i \in 1 .. Len(a) + Len(f) /\ i \in 1 .. Len(b) + Len(r) /\ i <= Len(a) /\ i <= Len(b)
        BY <1>0
    <2>2. (a \o f)[i] = a[i]
        BY <2>1, ConcatProperties
    <2>3. (b \o r)[i] = b[i]
        BY <2>1, ConcatProperties
    <2> QED
        BY <2>2, <2>3
<1> HIDE DEF p, z
<1>3. p = b
    BY <1>1, <1>2, SeqEqual DEF n
<1>4. b \o (z \o f) = b \o r
    <2>0. p \in Seq(Nat) /\ z \in Seq(Nat) /\ f \in Seq(Nat)
        BY <1>1
    <2>1. (p \o z) \o f = p \o (z \o f)
        BY <2>0, ConcatAssociative, SMTT(60)
    <2> QED
        BY <1>1, <1>3, <2>1
<1>5. z \o f \in Seq(Nat)
    BY <1>1, ConcatProperties
<1>6. z \o f = r
    BY <1>4, <1>5, CancelLeft
<1> QED
    BY <1>1, <1>2, <1>6 DEF z, n

\* What a sequence begins with is a prefix of it, and the rest is behind it.
LEMMA SameStart ==
    ASSUME NEW S, NEW h \in Seq(S), NEW r \in Seq(S)
    PROVE  /\ IsPrefix(h, h \o r)
           /\ SubSeq(h \o r, Len(h) + 1, Len(h \o r)) = r
<1> DEFINE s == h \o r
           n == Len(h)
           a == SubSeq(s, 1, n)
           z == SubSeq(s, n + 1, Len(s))
<1>1. s \in Seq(S) /\ Len(s) = n + Len(r) /\ n \in Nat /\ Len(r) \in Nat
      /\ \A i \in 1 .. n + Len(r) : s[i] = IF i <= n THEN h[i] ELSE r[i - n]
    BY ConcatProperties, LenProperties
<1>2. n \in 0 .. Len(s) /\ n <= Len(s)
    BY <1>1
<1>3. /\ a \in Seq(S) /\ Len(a) = n /\ \A i \in 1 .. n : a[i] = s[i]
      /\ z \in Seq(S) /\ a \o z = s
    <2> HIDE DEF s, n
    <2> QED
        BY <1>1, <1>2, CutAt
<1> HIDE DEF a, z
<1>4. a = h
    <2>1. ASSUME NEW i \in 1 .. n PROVE a[i] = h[i]
        <3>1. i \in 1 .. n + Len(r) /\ i <= n
            BY <1>1
        <3>2. s[i] = h[i]
            BY <1>1, <3>1
        <3> QED
            BY <1>3, <3>2
    <2> QED
        BY <1>3, <2>1, SeqEqual DEF n
<1>5. h \o z = h \o r
    BY <1>3, <1>4 DEF s
<1>6. z = r
    BY <1>3, <1>5, CancelLeft
<1>7. SubSeq(h, 1, Len(h)) = h
    BY SubSeqFull
<1> QED
    BY <1>2, <1>4, <1>6, <1>7 DEF IsPrefix, a, z, s, n

-----------------------------------------------------------------------------
(* Messages and the streams they make.                                     *)

\* Concatenation is associative, of bytes and of messages.
LEMMA RegroupBytes == \A s, t, u \in Seq(Nat) : (s \o t) \o u = s \o (t \o u)
<1> SUFFICES ASSUME NEW s \in Seq(Nat), NEW t \in Seq(Nat), NEW u \in Seq(Nat)
             PROVE  (s \o t) \o u = s \o (t \o u)
    OBVIOUS
<1> QED
    BY ConcatAssociative, SMTT(30)

\* What the BSC sends: a header that says how much follows it.
Msg == {m \in Seq(Nat) : m[1] \in {1, 2} /\ Len(m) = 2 + m[1]}

Body(m) == SubSeq(m, 3, Len(m))

Head2(m) == <<m[1], m[2]>>

\* RegroupBytes, of messages.
LEMMA RegroupMsgs == \A s, t, u \in Seq(Msg) : (s \o t) \o u = s \o (t \o u)
<1> SUFFICES ASSUME NEW s \in Seq(Msg), NEW t \in Seq(Msg), NEW u \in Seq(Msg)
             PROVE  (s \o t) \o u = s \o (t \o u)
    OBVIOUS
<1> QED
    BY ConcatAssociative

\* A message is a header, and a body as long as the header says.
LEMMA MsgProperties ==
    ASSUME NEW m \in Msg
    PROVE  /\ m \in Seq(Nat) /\ m[1] \in 1 .. 2 /\ Len(m) = 2 + m[1] /\ m[2] \in Nat
           /\ Body(m) \in Seq(Nat) /\ Len(Body(m)) = m[1]
           /\ \A i \in 1 .. m[1] : Body(m)[i] = m[2 + i]
           /\ Head2(m) \in Seq(Nat) /\ Len(Head2(m)) = 2
           /\ m = Head2(m) \o Body(m)
<1>1. m \in Seq(Nat) /\ m[1] \in 1 .. 2 /\ Len(m) = 2 + m[1]
    BY DEF Msg
<1>2. 2 \in 0 .. Len(m) /\ 1 \in 1 .. Len(m) /\ 2 \in 1 .. Len(m) /\ Len(m) - 2 = m[1]
    BY <1>1
<1>3. m[1] \in Nat /\ m[2] \in Nat
    BY <1>1, <1>2, ElementOfSeq
<1> DEFINE a == SubSeq(m, 1, 2)
           z == SubSeq(m, 2 + 1, Len(m))
<1>4. /\ a \in Seq(Nat) /\ Len(a) = 2 /\ \A i \in 1 .. 2 : a[i] = m[i]
      /\ z \in Seq(Nat) /\ Len(z) = Len(m) - 2 /\ \A i \in 1 .. Len(m) - 2 : z[i] = m[2 + i]
      /\ a \o z = m
    BY <1>1, <1>2, CutAt
<1> HIDE DEF a
<1>5. z = Body(m)
    BY DEF Body
<1> HIDE DEF z
<1>6. Head2(m) \in Seq(Nat) /\ Len(Head2(m)) = 2 /\ Head2(m)[1] = m[1] /\ Head2(m)[2] = m[2]
    BY <1>3 DEF Head2
<1>7. a = Head2(m)
    <2>1. \A i \in 1 .. Len(a) : a[i] = Head2(m)[i]
        <3>1. a[1] = m[1] /\ a[2] = m[2]
            BY <1>4
        <3> QED
            BY <1>4, <1>6, <3>1
    <2>2. a \in Seq(Nat) /\ Len(a) = Len(Head2(m))
        BY <1>4, <1>6
    <2> QED
        BY <1>6, <2>1, <2>2, SeqEqual
<1>8. \A i \in 1 .. m[1] : z[i] = m[2 + i]
    BY <1>2, <1>4
<1>9. Len(z) = m[1]
    BY <1>2, <1>4
<1> QED
    BY <1>1, <1>3, <1>4, <1>5, <1>6, <1>7, <1>8, <1>9

\* Messages are bytes.
LEMMA MsgSeqs == Seq(Msg) \subseteq Seq(Seq(Nat))
<1>1. Msg \subseteq Seq(Nat)
    BY DEF Msg
<1> QED
    BY <1>1, SeqMonotonic

\* The stream of messages begins with the header of the first of them.
LEMMA FirstOfStream ==
    ASSUME NEW rest \in Seq(Msg), rest # <<>>
    PROVE  /\ rest[1] \in Msg /\ Tail(rest) \in Seq(Msg)
           /\ rest = <<rest[1]>> \o Tail(rest)
           /\ FlattenSeq(Tail(rest)) \in Seq(Nat) /\ FlattenSeq(rest) \in Seq(Nat)
           /\ FlattenSeq(rest) = Head2(rest[1]) \o (Body(rest[1]) \o FlattenSeq(Tail(rest)))
<1>1. /\ rest[1] \in Msg /\ Tail(rest) \in Seq(Msg)
      /\ rest = <<rest[1]>> \o Tail(rest)
    <2>1. Len(rest) \in Nat \ {0}
        BY EmptySeq
    <2>2. 1 \in 1 .. Len(rest)
        BY <2>1
    <2>3. rest[1] \in Msg
        BY <2>2, ElementOfSeq
    <2>4. Tail(rest) \in Seq(Msg)
        BY HeadTailProperties
    <2> QED
        BY <2>3, <2>4, FirstThenTail
<1> DEFINE m == rest[1]
           t == Tail(rest)
<1>2. /\ <<m>> \in Seq(Seq(Nat)) /\ t \in Seq(Seq(Nat)) /\ rest \in Seq(Seq(Nat)) /\ m \in Seq(Nat)
    <2>1. m \in Seq(Nat)
        BY <1>1, MsgProperties
    <2>2. <<m>> \in Seq(Seq(Nat))
        BY <2>1
    <2> QED
        BY <1>1, <2>1, <2>2, MsgSeqs
<1> HIDE DEF m, t
<1>3. FlattenSeq(<<m>> \o t) = FlattenSeq(<<m>>) \o FlattenSeq(t)
    BY <1>2, FlattenConcat
<1>4. FlattenSeq(<<m>>) = m
    BY <1>2, FlattenOne
<1>5. FlattenSeq(t) \in Seq(Nat) /\ FlattenSeq(rest) \in Seq(Nat)
    BY <1>2, FlattenType
<1>6. /\ Head2(m) \in Seq(Nat) /\ Body(m) \in Seq(Nat) /\ m = Head2(m) \o Body(m)
    BY <1>1, MsgProperties DEF m
<1>7. (Head2(m) \o Body(m)) \o FlattenSeq(t) = Head2(m) \o (Body(m) \o FlattenSeq(t))
    BY <1>5, <1>6, RegroupBytes
<1>8. rest = <<m>> \o t
    BY <1>1 DEF m, t
<1>9. FlattenSeq(rest) = Head2(m) \o (Body(m) \o FlattenSeq(t))
    BY <1>3, <1>4, <1>6, <1>7, <1>8
<1> QED
    BY <1>1, <1>5, <1>9 DEF m, t

\* A stream of messages is empty only if there is no message.
LEMMA EmptyStream ==
    ASSUME NEW rest \in Seq(Msg)
    PROVE  FlattenSeq(rest) = <<>> <=> rest = <<>>
<1>1. ASSUME rest # <<>> PROVE FlattenSeq(rest) # <<>>
    <2> DEFINE h == Head2(rest[1])
               z == Body(rest[1]) \o FlattenSeq(Tail(rest))
    <2>1. /\ rest[1] \in Msg /\ FlattenSeq(Tail(rest)) \in Seq(Nat)
          /\ FlattenSeq(rest) = h \o z
        BY <1>1, FirstOfStream
    <2>2. h \in Seq(Nat) /\ Len(h) = 2 /\ Body(rest[1]) \in Seq(Nat)
        BY <2>1, MsgProperties
    <2>3. z \in Seq(Nat)
        BY <2>1, <2>2, ConcatProperties
    <2> HIDE DEF h, z
    <2>4. h # <<>>
        <3>1. Len(h) = 2
            BY <2>2
        <3>2. Len(<<>>) = 0
            BY EmptySeq
        <3> QED
            BY <3>1, <3>2
    <2> QED
        BY <2>1, <2>2, <2>3, <2>4, ConcatEqualIffEmpty
<1> QED
    BY <1>1, FlattenEmpty

\* What is read when at least a header has arrived.
LEMMA HeadIsRead ==
    ASSUME NEW rest \in Seq(Msg), NEW a \in Seq(Nat), NEW f \in Seq(Nat),
           a \o f = FlattenSeq(rest), 2 <= Len(a)
    PROVE  /\ rest # <<>> /\ a[1] = rest[1][1] /\ a[2] = rest[1][2]
           /\ SubSeq(a, 3, Len(a)) \o f = Body(rest[1]) \o FlattenSeq(Tail(rest))
<1>1. rest # <<>>
    <2>1. a # <<>>
        BY EmptySeq
    <2>2. a \o f # <<>>
        BY <2>1, ConcatEqualIffEmpty
    <2> QED
        BY <2>2, FlattenEmpty
<1> DEFINE b == Head2(rest[1])
           r == Body(rest[1]) \o FlattenSeq(Tail(rest))
<1>2. rest[1] \in Msg /\ FlattenSeq(Tail(rest)) \in Seq(Nat) /\ FlattenSeq(rest) = b \o r
    BY <1>1, FirstOfStream
<1>3. /\ b \in Seq(Nat) /\ Len(b) = 2 /\ b[1] = rest[1][1] /\ b[2] = rest[1][2]
      /\ Body(rest[1]) \in Seq(Nat)
    <2>1. b[1] = rest[1][1] /\ b[2] = rest[1][2]
        BY DEF Head2
    <2> QED
        BY <1>2, <2>1, MsgProperties
<1>4. r \in Seq(Nat)
    BY <1>2, <1>3, ConcatProperties
<1>5. a \o f = b \o r /\ Len(b) <= Len(a)
    BY <1>2, <1>3
<1> HIDE DEF b, r
<1>6. /\ \A i \in 1 .. Len(b) : a[i] = b[i]
      /\ SubSeq(a, Len(b) + 1, Len(a)) \o f = r
    <2>1. b \in Seq(Nat) /\ r \in Seq(Nat) /\ a \in Seq(Nat) /\ f \in Seq(Nat)
        BY <1>3, <1>4
    <2> QED
        BY <1>5, <2>1, SameCut
<1>7. Len(b) + 1 = 3 /\ 1 \in 1 .. Len(b) /\ 2 \in 1 .. Len(b)
    BY <1>3
<1>8. a[1] = b[1] /\ a[2] = b[2]
    BY <1>6, <1>7
<1>9. SubSeq(a, 3, Len(a)) \o f = r
    BY <1>6, <1>7
<1> QED
    BY <1>1, <1>3, <1>8, <1>9 DEF b, r

\* What is read when at least a body has arrived.
LEMMA BodyIsRead ==
    ASSUME NEW rest \in Seq(Msg), rest # <<>>, NEW a \in Seq(Nat), NEW f \in Seq(Nat),
           a \o f = Body(rest[1]) \o FlattenSeq(Tail(rest)), rest[1][1] <= Len(a)
    PROVE  /\ \A i \in 1 .. rest[1][1] : a[i] = rest[1][2 + i]
           /\ SubSeq(a, rest[1][1] + 1, Len(a)) \o f = FlattenSeq(Tail(rest))
<1> DEFINE b == Body(rest[1])
           r == FlattenSeq(Tail(rest))
           n == rest[1][1]
<1>1. rest[1] \in Msg /\ r \in Seq(Nat)
    BY FirstOfStream
<1>2. b \in Seq(Nat) /\ Len(b) = n /\ \A i \in 1 .. n : b[i] = rest[1][2 + i]
    BY <1>1, MsgProperties
<1>3. a \o f = b \o r /\ Len(b) <= Len(a)
    BY <1>2
<1> HIDE DEF b, r
<1>4. /\ \A i \in 1 .. Len(b) : a[i] = b[i]
      /\ SubSeq(a, Len(b) + 1, Len(a)) \o f = r
    <2>1. b \in Seq(Nat) /\ r \in Seq(Nat) /\ a \in Seq(Nat) /\ f \in Seq(Nat)
        BY <1>1, <1>2
    <2> QED
        BY <1>3, <2>1, SameCut
<1>5. \A i \in 1 .. n : a[i] = rest[1][2 + i]
    BY <1>2, <1>4
<1>6. SubSeq(a, n + 1, Len(a)) \o f = r
    BY <1>2, <1>4
<1> QED
    BY <1>5, <1>6 DEF r

-----------------------------------------------------------------------------
(* The receive path: types, and what is between the BSC and the handlers.  *)

LinkTyped ==
    /\ msg \in [1 .. BufferLength -> Nat]
    /\ flight \in [Links -> Seq(Nat)] /\ arrived \in [Links -> Seq(Nat)]
    /\ sent \in [Links -> Seq(Msg)]
    /\ handled = [l \in Links |-> handled[l]]
    /\ requests \in [Numbers -> Nat]
    /\ reading \in Links \cup {"none"} /\ closed \subseteq Links

\* What of the messages not dispatched yet is still to be read.
Stage(l, rest) ==
    IF reading # l THEN arrived[l] \o flight[l] = FlattenSeq(rest)
    ELSE \/ rest = <<>> /\ arrived[l] = <<>> /\ flight[l] = <<>> /\ l \in closed
         \/ /\ rest # <<>> /\ msg[1] = rest[1][1] /\ msg[2] = rest[1][2]
            /\ arrived[l] \o flight[l] = Body(rest[1]) \o FlattenSeq(Tail(rest))

\* The messages sent on a link are those dispatched, then those still to be read.
Kept(l) ==
    /\ handled[l] \in Seq(Msg)
    /\ \E rest \in Seq(Msg) : sent[l] = handled[l] \o rest /\ Stage(l, rest)

\* Nothing is on its way on a link that is not connected yet or not any more.
Quiet == \A l \in Links : l \in closed \/ l \notin connected => flight[l] = <<>>

OneAtWork == reading = "none" \/ walking = "none"

AllKept == \A l \in Links : l \notin short => Kept(l)

StreamsInv == LinkTyped /\ Quiet /\ OneAtWork /\ AllKept

\* Nothing is sent yet.
LEMMA LinksInit == ASSUME AbisInit PROVE StreamsInv
<1>1. LinkTyped
    <2>1. <<>> \in Seq(Nat) /\ <<>> \in Seq(Msg)
        BY EmptySeq
    <2>2. /\ flight \in [Links -> Seq(Nat)] /\ arrived \in [Links -> Seq(Nat)]
          /\ sent \in [Links -> Seq(Msg)] /\ handled = [l \in Links |-> handled[l]]
        BY <2>1 DEF AbisInit
    <2>3. msg \in [1 .. BufferLength -> Nat] /\ requests \in [Numbers -> Nat]
        BY DEF AbisInit
    <2>4. reading \in Links \cup {"none"} /\ closed \subseteq Links
        BY DEF AbisInit
    <2> QED
        BY <2>2, <2>3, <2>4 DEF LinkTyped
<1>2. Quiet /\ OneAtWork
    BY DEF AbisInit, Quiet, OneAtWork
<1>3. ASSUME NEW l \in Links PROVE Kept(l)
    <2>1. /\ handled[l] = <<>> /\ sent[l] = <<>> /\ arrived[l] = <<>> /\ flight[l] = <<>>
          /\ reading # l
        BY DEF AbisInit, Links
    <2>2. <<>> \in Seq(Msg) /\ <<>> \in Seq(Nat)
        BY EmptySeq
    <2>3. <<>> \o <<>> = <<>>
        BY <2>2, ConcatEmptySeq
    <2>4. Stage(l, <<>>)
        BY <2>1, <2>3, FlattenEmpty DEF Stage
    <2> QED
        BY <2>1, <2>2, <2>3, <2>4 DEF Kept
<1> QED
    BY <1>1, <1>2, <1>3 DEF StreamsInv, AllKept

\* A link of which a step changes nothing, but that it may be closed.
LEMMA Untouched ==
    ASSUME NEW l \in Links, Kept(l), LinkTyped, LinkTyped',
           sent'[l] = sent[l], handled'[l] = handled[l],
           arrived'[l] = arrived[l], flight'[l] = flight[l],
           reading' = l <=> reading = l, l \in closed => l \in closed',
           reading = l => msg'[1] = msg[1] /\ msg'[2] = msg[2]
    PROVE  Kept(l)'
<1>1. PICK rest \in Seq(Msg) : sent[l] = handled[l] \o rest /\ Stage(l, rest)
    BY DEF Kept
<1>2. CASE reading # l
    <2>1. arrived'[l] \o flight'[l] = FlattenSeq(rest) /\ reading' # l
        BY <1>1, <1>2 DEF Stage
    <2>2. Stage(l, rest)'
        BY <2>1 DEF Stage
    <2> QED
        BY <1>1, <2>2 DEF Kept
<1>3. CASE reading = l
    <2>1. reading' = l /\ msg'[1] = msg[1] /\ msg'[2] = msg[2]
        BY <1>3
    <2>2. CASE rest = <<>> /\ arrived[l] = <<>> /\ flight[l] = <<>> /\ l \in closed
        <3>1. Stage(l, rest)'
            BY <2>1, <2>2 DEF Stage
        <3> QED
            BY <1>1, <3>1 DEF Kept
    <2>3. CASE /\ rest # <<>> /\ msg[1] = rest[1][1] /\ msg[2] = rest[1][2]
               /\ arrived[l] \o flight[l] = Body(rest[1]) \o FlattenSeq(Tail(rest))
        <3>1. Stage(l, rest)'
            BY <2>1, <2>3 DEF Stage
        <3> QED
            BY <1>1, <3>1 DEF Kept
    <2> QED
        BY <1>1, <1>3, <2>2, <2>3 DEF Stage
<1> QED
    BY <1>2, <1>3

\* A link is connected, or closed before anything was on its way.
LEMMA SocketInitKeeps ==
    ASSUME StreamsInv, NEW l \in Links, SocketInit(l)
    PROVE  StreamsInv'
<1>1. /\ msg' = msg /\ flight' = flight /\ arrived' = arrived /\ sent' = sent
      /\ reading' = reading /\ walking' = walking /\ handled' = handled /\ short' = short
      /\ requests' = requests
    BY DEF SocketInit, trace
<1>2. /\ closed' = closed \/ closed' = closed \cup {l}
      /\ l \notin connected /\ connected \subseteq connected'
    BY DEF SocketInit
<1>3. LinkTyped'
    BY <1>1, <1>2 DEF StreamsInv, LinkTyped
<1>4. Quiet'
    BY <1>1, <1>2 DEF StreamsInv, Quiet
<1>5. OneAtWork'
    BY <1>1 DEF StreamsInv, OneAtWork
<1>6. ASSUME NEW k \in Links, k \notin short' PROVE Kept(k)'
    <2>1. Kept(k) /\ LinkTyped
        BY <1>1, <1>6 DEF StreamsInv, AllKept
    <2>2. k \in closed => k \in closed'
        BY <1>2
    <2> QED
        BY <1>1, <1>3, <2>1, <2>2, Untouched
<1> QED
    BY <1>3, <1>4, <1>5, <1>6 DEF StreamsInv, AllKept

\* A message is sent: it is the last of those still to be read.
LEMMA BscSendsKeeps ==
    ASSUME StreamsInv, NEW l \in Links, BscSends(l)
    PROVE  StreamsInv'
<1>1. PICK m \in Messages(l, Sent + 1) :
        /\ sent' = [sent EXCEPT ![l] = Append(@, m)]
        /\ flight' = [flight EXCEPT ![l] = @ \o m]
    BY DEF BscSends
<1>2. /\ msg' = msg /\ connected' = connected /\ arrived' = arrived /\ closed' = closed
      /\ reading' = reading /\ walking' = walking /\ handled' = handled /\ short' = short
      /\ requests' = requests /\ l \in connected /\ l \notin closed
    BY DEF BscSends, trace
<1>3. LinkTyped
    BY DEF StreamsInv
<1>4. m \in Msg
    <2>1. Sent \in Nat
        <3>1. "oml" \in Links /\ "rsl" \in Links
            BY DEF Links
        <3>2. sent["oml"] \in Seq(Msg) /\ sent["rsl"] \in Seq(Msg)
            BY <1>3, <3>1 DEF LinkTyped
        <3>3. Len(sent["oml"]) \in Nat /\ Len(sent["rsl"]) \in Nat
            BY <3>2, LenProperties
        <3>4. Sent = Len(sent["oml"]) + Len(sent["rsl"])
            BY DEF Sent
        <3>5. \A x, y \in Nat : x + y \in Nat
            OBVIOUS
        <3> QED
            BY <3>3, <3>4, <3>5
    <2> DEFINE n == Sent + 1
    <2>2. n \in Nat
        BY <2>1
    <2> HIDE DEF n
    <2>3. \/ m = <<1, 2, 0>> \/ m = <<1, 0, 5>>
          \/ \E t \in OmlMessages : m = <<2, 1, t, n>>
        BY DEF Messages, PROTO_SOFTBTS, PROTO_RSL, PROTO_OML, MSG_PING, ACK, n
    <2>4. <<1, 2, 0>> \in Msg /\ <<1, 0, 5>> \in Msg
        BY DEF Msg
    <2>5. OmlMessages \subseteq Nat
        BY OmlMessagesAssumption DEF REQUEST, SET_ATTR, SW_ACT_REQ_ACK, RSL_CONNECT
    <2>6. \A t \in Nat : <<2, 1, t, n>> \in Msg
        BY <2>2 DEF Msg
    <2> QED
        BY <2>3, <2>4, <2>5, <2>6
<1>5. m \in Seq(Nat)
    BY <1>4, MsgProperties
<1>6. /\ sent'[l] = Append(sent[l], m) /\ flight'[l] = flight[l] \o m
      /\ \A k \in Links : k # l => sent'[k] = sent[k] /\ flight'[k] = flight[k]
      /\ sent[l] \in Seq(Msg) /\ flight[l] \in Seq(Nat) /\ arrived[l] \in Seq(Nat)
    BY <1>1, <1>3 DEF LinkTyped
<1>7. LinkTyped'
    <2>1. Append(sent[l], m) \in Seq(Msg) /\ flight[l] \o m \in Seq(Nat)
        BY <1>4, <1>5, <1>6, AppendProperties, ConcatProperties
    <2>2. sent' \in [Links -> Seq(Msg)] /\ flight' \in [Links -> Seq(Nat)]
        BY <1>1, <1>3, <2>1 DEF LinkTyped
    <2> QED
        BY <1>2, <1>3, <2>2 DEF LinkTyped
<1>8. Quiet'
    BY <1>2, <1>6 DEF StreamsInv, Quiet
<1>9. OneAtWork'
    BY <1>2 DEF StreamsInv, OneAtWork
<1>10. ASSUME NEW k \in Links, k \notin short', k # l PROVE Kept(k)'
    <2>1. Kept(k)
        BY <1>2, <1>10 DEF StreamsInv, AllKept
    <2> QED
        BY <1>2, <1>3, <1>6, <1>7, <1>10, <2>1, Untouched
<1>11. ASSUME l \notin short' PROVE Kept(l)'
    <2>1. Kept(l)
        BY <1>2, <1>11 DEF StreamsInv, AllKept
    <2>2. PICK rest \in Seq(Msg) : sent[l] = handled[l] \o rest /\ Stage(l, rest)
        BY <2>1 DEF Kept
    <2> DEFINE more == Append(rest, m)
               a == arrived[l]
               f == flight[l]
    <2>3. handled[l] \in Seq(Msg) /\ more \in Seq(Msg) /\ more # <<>> /\ rest \in Seq(Seq(Nat))
        BY <1>4, <2>1, AppendProperties, MsgSeqs, ZenonT(30) DEF Kept
    <2>4. sent'[l] = handled[l] \o more
        <3>1. sent'[l] = Append(handled[l] \o rest, m)
            BY <1>6, <2>2
        <3>2. handled[l] \o rest \in Seq(Msg) /\ <<m>> \in Seq(Msg)
            BY <1>4, <2>3, ConcatProperties
        <3>3. Append(handled[l] \o rest, m) = (handled[l] \o rest) \o <<m>>
            BY <1>4, <3>2, AppendIsConcat
        <3>4. Append(rest, m) = rest \o <<m>>
            BY <1>4, AppendIsConcat
        <3>5. (handled[l] \o rest) \o <<m>> = handled[l] \o (rest \o <<m>>)
            BY <2>3, <3>2, RegroupMsgs, ZenonT(30)
        <3> QED
            BY <3>1, <3>3, <3>4, <3>5
    <2>5. arrived'[l] \o flight'[l] = (a \o f) \o m
        <3>1. a \in Seq(Nat) /\ f \in Seq(Nat) /\ m \in Seq(Nat)
            BY <1>5, <1>6
        <3> HIDE DEF a, f
        <3>2. (a \o f) \o m = a \o (f \o m)
            BY <3>1, RegroupBytes
        <3>3. arrived'[l] = a /\ flight'[l] = f \o m
            BY <1>2, <1>6 DEF a, f
        <3> QED
            BY <3>2, <3>3
    <2>6. CASE reading # l
        <3>1. a \o f = FlattenSeq(rest)
            BY <2>2, <2>6 DEF Stage
        <3>2. FlattenSeq(more) = FlattenSeq(rest) \o m
            BY <1>5, <2>3, FlattenAdds
        <3>3. Stage(l, more)'
            BY <1>2, <2>5, <2>6, <3>1, <3>2 DEF Stage
        <3> QED
            BY <1>2, <2>3, <2>4, <3>3 DEF Kept
    <2>7. CASE reading = l
        <3>1. /\ rest # <<>> /\ msg[1] = rest[1][1] /\ msg[2] = rest[1][2]
              /\ a \o f = Body(rest[1]) \o FlattenSeq(Tail(rest))
            BY <1>2, <2>2, <2>7 DEF Stage
        <3>2. more[1] = rest[1]
            <4>1. Len(rest) \in Nat \ {0}
                BY <3>1, EmptySeq
            <4>2. 1 \in 1 .. Len(rest)
                BY <4>1
            <4> QED
                BY <1>4, <4>2, AppendProperties
        <3>3. Tail(more) = Append(Tail(rest), m)
            BY <3>1, HeadTailAppend
        <3>4. rest[1] \in Msg /\ Tail(rest) \in Seq(Msg)
            BY <3>1, FirstOfStream
        <3>5. Tail(rest) \in Seq(Seq(Nat)) /\ Body(rest[1]) \in Seq(Nat)
            BY <3>4, MsgSeqs, MsgProperties
        <3>6. FlattenSeq(Tail(more)) = FlattenSeq(Tail(rest)) \o m /\ FlattenSeq(Tail(rest)) \in Seq(Nat)
            BY <1>5, <3>3, <3>5, FlattenAdds, FlattenType
        <3>7. (Body(rest[1]) \o FlattenSeq(Tail(rest))) \o m = Body(rest[1]) \o (FlattenSeq(Tail(rest)) \o m)
            BY <1>5, <3>5, <3>6, RegroupBytes
        <3>8. arrived'[l] \o flight'[l] = Body(more[1]) \o FlattenSeq(Tail(more))
            BY <2>5, <3>1, <3>2, <3>6, <3>7
        <3>9. reading' = l /\ msg'[1] = more[1][1] /\ msg'[2] = more[1][2] /\ more # <<>>
            BY <1>2, <2>3, <2>7, <3>1, <3>2
        <3> HIDE DEF more
        <3>10. Stage(l, more)'
            BY <3>8, <3>9 DEF Stage
        <3> QED
            BY <1>2, <2>3, <2>4, <3>10 DEF Kept
    <2> QED
        BY <2>6, <2>7
<1>12. ASSUME NEW k \in Links, k \notin short' PROVE Kept(k)'
    <2>1. CASE k = l
        BY <1>11, <1>12, <2>1
    <2>2. CASE k # l
        BY <1>10, <1>12, <2>2
    <2> QED
        BY <2>1, <2>2
<1> QED
    BY <1>7, <1>8, <1>9, <1>12 DEF StreamsInv, AllKept

\* Some bytes arrive: what is between the two sides is the same.
LEMMA DeliveredKeeps ==
    ASSUME StreamsInv, NEW l \in Links, Delivered(l)
    PROVE  StreamsInv'
<1>1. PICK n \in 1 .. Len(flight[l]) :
         /\ arrived' = [arrived EXCEPT ![l] = @ \o SubSeq(flight[l], 1, n)]
         /\ flight' = [flight EXCEPT ![l] = SubSeq(@, n + 1, Len(@))]
    BY DEF Delivered
<1>2. /\ msg' = msg /\ connected' = connected /\ sent' = sent /\ closed' = closed
      /\ reading' = reading /\ walking' = walking /\ handled' = handled /\ short' = short
      /\ requests' = requests
    BY DEF Delivered, trace
<1>3. LinkTyped
    BY DEF StreamsInv
<1> DEFINE a == arrived[l]
           f == flight[l]
           p == SubSeq(f, 1, n)
           z == SubSeq(f, n + 1, Len(f))
<1>4. /\ arrived'[l] = a \o p /\ flight'[l] = z
      /\ \A k \in Links : k # l => arrived'[k] = arrived[k] /\ flight'[k] = flight[k]
      /\ a \in Seq(Nat) /\ f \in Seq(Nat)
    BY <1>1, <1>3 DEF LinkTyped
<1>5. n \in 0 .. Len(f) /\ Len(f) # 0
    <2>1. Len(f) \in Nat
        BY <1>4, LenProperties
    <2> QED
        BY <2>1
<1>6. p \in Seq(Nat) /\ z \in Seq(Nat) /\ p \o z = f
    <2> HIDE DEF f
    <2> QED
        BY <1>4, <1>5, CutAt
<1>7. (a \o p) \o z = a \o f
    <2> HIDE DEF a, p, z, f
    <2>1. (a \o p) \o z = a \o (p \o z)
        BY <1>4, <1>6, RegroupBytes, ZenonT(30)
    <2> QED
        BY <1>6, <2>1
<1>8. LinkTyped'
    <2>1. a \o p \in Seq(Nat)
        BY <1>4, <1>6, ConcatProperties
    <2>2. arrived' \in [Links -> Seq(Nat)] /\ flight' \in [Links -> Seq(Nat)]
        BY <1>1, <1>3, <1>6, <2>1 DEF LinkTyped
    <2> QED
        BY <1>2, <1>3, <2>2 DEF LinkTyped
<1>9. Quiet'
    <2>1. flight[l] # <<>>
        BY <1>5, EmptySeq
    <2> QED
        BY <1>2, <1>4, <2>1 DEF StreamsInv, Quiet
<1>10. OneAtWork'
    BY <1>2 DEF StreamsInv, OneAtWork
<1>11. ASSUME NEW k \in Links, k \notin short' PROVE Kept(k)'
    <2>1. Kept(k)
        BY <1>2, <1>11 DEF StreamsInv, AllKept
    <2>2. CASE k # l
        BY <1>2, <1>3, <1>4, <1>8, <2>1, <2>2, Untouched
    <2>3. CASE k = l
        <3>1. PICK rest \in Seq(Msg) : sent[l] = handled[l] \o rest /\ Stage(l, rest)
            BY <2>1, <2>3 DEF Kept
        <3>2. arrived'[l] \o flight'[l] = arrived[l] \o flight[l]
            BY <1>4, <1>7
        <3>3. flight[l] # <<>>
            BY <1>5, EmptySeq
        <3>4. Stage(l, rest)'
            <4>1. CASE reading # l
                BY <1>2, <3>1, <3>2, <4>1 DEF Stage
            <4>2. CASE reading = l
                <5>1. /\ rest # <<>> /\ msg[1] = rest[1][1] /\ msg[2] = rest[1][2]
                      /\ arrived[l] \o flight[l] = Body(rest[1]) \o FlattenSeq(Tail(rest))
                    BY <3>1, <3>3, <4>2 DEF Stage
                <5> QED
                    BY <1>2, <3>2, <4>2, <5>1 DEF Stage
            <4> QED
                BY <4>1, <4>2
        <3> QED
            BY <1>2, <2>1, <2>3, <3>1, <3>4 DEF Kept
    <2> QED
        BY <2>2, <2>3
<1> QED
    BY <1>8, <1>9, <1>10, <1>11 DEF StreamsInv, AllKept

\* A link is closed when nothing is on its way.
LEMMA BscClosesKeeps ==
    ASSUME StreamsInv, NEW l \in Links, BscCloses(l)
    PROVE  StreamsInv'
<1>1. /\ msg' = msg /\ flight' = flight /\ arrived' = arrived /\ sent' = sent
      /\ reading' = reading /\ walking' = walking /\ handled' = handled /\ short' = short
      /\ requests' = requests /\ connected' = connected
      /\ closed' = closed \cup {l} /\ flight[l] = <<>>
    BY DEF BscCloses, trace
<1>2. LinkTyped'
    BY <1>1 DEF StreamsInv, LinkTyped
<1>3. Quiet'
    BY <1>1 DEF StreamsInv, Quiet
<1>4. OneAtWork'
    BY <1>1 DEF StreamsInv, OneAtWork
<1>5. ASSUME NEW k \in Links, k \notin short' PROVE Kept(k)'
    <2>1. Kept(k) /\ LinkTyped
        BY <1>1, <1>5 DEF StreamsInv, AllKept
    <2> QED
        BY <1>1, <1>2, <2>1, Untouched
<1> QED
    BY <1>2, <1>3, <1>4, <1>5 DEF StreamsInv, AllKept

\* While no callback has read a header, what the buffer holds does not matter.
LEMMA BufferKeeps ==
    ASSUME StreamsInv, UNCHANGED <<connected, link, reading, trace>>,
           walking' \in {walking, "none"},
           msg' = msg \/ (reading = "none" /\ msg' \in [1 .. BufferLength -> Nat])
    PROVE  StreamsInv'
<1>1. /\ flight' = flight /\ arrived' = arrived /\ sent' = sent /\ closed' = closed
      /\ reading' = reading /\ handled' = handled /\ short' = short
      /\ requests' = requests /\ connected' = connected
    BY DEF link, trace
<1>2. LinkTyped'
    BY <1>1 DEF StreamsInv, LinkTyped
<1>3. Quiet'
    BY <1>1 DEF StreamsInv, Quiet
<1>4. OneAtWork'
    BY <1>1 DEF StreamsInv, OneAtWork
<1>5. ASSUME NEW k \in Links, k \notin short' PROVE Kept(k)'
    <2>1. Kept(k) /\ LinkTyped
        BY <1>1, <1>5 DEF StreamsInv, AllKept
    <2>2. reading = k => msg'[1] = msg[1] /\ msg'[2] = msg[2]
        BY DEF Links
    <2> QED
        BY <1>1, <1>2, <2>1, <2>2, Untouched
<1> QED
    BY <1>2, <1>3, <1>4, <1>5 DEF StreamsInv, AllKept

\* A reply fits into the buffer.
LEMMA ReplyTyped ==
    ASSUME NEW m \in [1 .. BufferLength -> Nat]
    PROVE  Reply(m) \in [1 .. BufferLength -> Nat]
<1>1. PROTO_OML \in Nat /\ ACK \in Nat
    BY DEF PROTO_OML, ACK
<1> QED
    BY <1>1 DEF Reply

\* The walk and its acknowledgement come when no header has been read.
LEMMA WalkKeeps ==
    ASSUME StreamsInv, Walks \/ SetBtsAttrAck \/ UNCHANGED abisVars
    PROVE  StreamsInv'
<1>1. CASE Walks
    BY <1>1, BufferKeeps DEF Walks
<1>2. CASE SetBtsAttrAck
    <2>1. msg' = Reply(msg) /\ walking' = "none" /\ UNCHANGED <<connected, link, reading, trace>>
          /\ walking # "none"
        BY <1>2 DEF SetBtsAttrAck
    <2>2. reading = "none"
        BY <2>1 DEF StreamsInv, OneAtWork
    <2>3. msg' \in [1 .. BufferLength -> Nat]
        BY <2>1, ReplyTyped DEF StreamsInv, LinkTyped
    <2> QED
        BY <2>1, <2>2, <2>3, BufferKeeps
<1>3. CASE UNCHANGED abisVars
    BY <1>3, BufferKeeps DEF abisVars
<1> QED
    BY <1>1, <1>2, <1>3

-----------------------------------------------------------------------------
(* recv().                                                                 *)

\* The lesser of two numbers.
LEMMA LeastProperties ==
    ASSUME NEW a \in Nat, NEW b \in Nat
    PROVE  /\ Least(a, b) \in Nat /\ Least(a, b) <= a /\ Least(a, b) <= b
           /\ (a <= b => Least(a, b) = a) /\ (b <= a => Least(a, b) = b)
BY DEF Least

\* recv() fills the buffer with bytes, and takes them from one link.
LEMMA RecvTyped ==
    ASSUME LinkTyped, NEW l \in Links, NEW at \in Nat \ {0}, NEW n \in Nat
    PROVE  /\ Received(l, at, n) \in [1 .. BufferLength -> Nat]
           /\ Consumed(l, n) \in [Links -> Seq(Nat)]
           /\ \A k \in Links : k # l => Consumed(l, n)[k] = arrived[k]
           /\ Consumed(l, n)[l] = SubSeq(arrived[l], Least(n, Len(arrived[l])) + 1, Len(arrived[l]))
<1> DEFINE a == arrived[l]
           k == Least(n, Len(a))
<1>1. a \in Seq(Nat) /\ Len(a) \in Nat
    BY LenProperties DEF LinkTyped
<1>2. k \in Nat /\ k <= Len(a)
    BY <1>1, LeastProperties
<1>3. Received(l, at, n) \in [1 .. BufferLength -> Nat]
    <2>1. ASSUME NEW i \in 1 .. BufferLength, i \in at .. at + k - 1
          PROVE  a[i - at + 1] \in Nat
        <3>1. i - at + 1 \in 1 .. Len(a)
            <4> HIDE DEF k, a
            <4>1. i \in Int /\ at <= i /\ i <= at + k - 1
                BY <1>2, <2>1
            <4> QED
                BY <1>1, <1>2, <4>1
        <3> QED
            BY <1>1, <3>1, ElementOfSeq
    <2>2. \A i \in 1 .. BufferLength : msg[i] \in Nat
        BY DEF LinkTyped
    <2> QED
        BY <2>1, <2>2 DEF Received
<1>4. SubSeq(a, k + 1, Len(a)) \in Seq(Nat)
    <2>1. k \in 0 .. Len(a)
        BY <1>1, <1>2
    <2> HIDE DEF a, k
    <2> QED
        BY <1>1, <2>1, CutAt
<1>5. arrived \in [Links -> Seq(Nat)]
    BY DEF LinkTyped
<1>6. Consumed(l, n) = [arrived EXCEPT ![l] = SubSeq(a, k + 1, Len(a))]
    BY <1>5 DEF Consumed
<1> HIDE DEF a, k
<1>7. /\ Consumed(l, n) \in [Links -> Seq(Nat)]
      /\ \A j \in Links : j # l => Consumed(l, n)[j] = arrived[j]
      /\ Consumed(l, n)[l] = SubSeq(a, k + 1, Len(a))
    BY <1>4, <1>5, <1>6
<1> QED
    BY <1>3, <1>7 DEF a, k

\* A read that does not count as short got all it asked for, or found nothing to
\* read of a closed link.
LEMMA NotShort ==
    ASSUME LinkTyped, NEW l \in Links, NEW n \in Nat, short' = ShortOf(l, n)
    PROVE  /\ \A k \in Links : k \notin short' => k \notin short
           /\ l \notin short' => n <= Len(arrived[l]) \/ (l \in closed /\ arrived[l] = <<>>)
<1>1. Len(arrived[l]) \in Nat
    BY LenProperties DEF LinkTyped
<1>2. CASE Len(arrived[l]) < n /\ (l \in closed => arrived[l] # <<>>)
    BY <1>2 DEF ShortOf
<1>3. CASE ~(Len(arrived[l]) < n /\ (l \in closed => arrived[l] # <<>>))
    <2>1. short' = short
        BY <1>3 DEF ShortOf
    <2>2. n <= Len(arrived[l]) \/ (l \in closed /\ arrived[l] = <<>>)
        BY <1>1, <1>3
    <2> QED
        BY <2>1, <2>2
<1> QED
    BY <1>2, <1>3

\* What a read leaves of what had arrived: nothing of nothing, and the rest of more.
LEMMA Leaves ==
    ASSUME LinkTyped, NEW l \in Links, NEW n \in Nat
    PROVE  /\ arrived[l] = <<>> => Consumed(l, n)[l] = <<>>
           /\ n <= Len(arrived[l]) =>
                Consumed(l, n)[l] = SubSeq(arrived[l], n + 1, Len(arrived[l]))
<1> DEFINE a == arrived[l]
<1>1. Consumed(l, n)[l] = SubSeq(a, Least(n, Len(a)) + 1, Len(a))
    <2>1. 1 \in Nat \ {0}
        OBVIOUS
    <2> QED
        BY <2>1, RecvTyped
<1>2. Len(a) \in Nat
    BY LenProperties DEF LinkTyped
<1> HIDE DEF a
<1>3. ASSUME a = <<>> PROVE Consumed(l, n)[l] = <<>>
    <2>1. Len(a) = 0
        BY <1>3, EmptySeq
    <2>2. Least(n, Len(a)) = 0
        BY <2>1, LeastProperties
    <2>3. SubSeq(a, 1, 0) = <<>>
        BY SubSeqEmpty
    <2> QED
        BY <1>1, <2>1, <2>2, <2>3
<1>4. ASSUME n <= Len(a) PROVE Consumed(l, n)[l] = SubSeq(a, n + 1, Len(a))
    <2>1. Least(n, Len(a)) = n
        BY <1>2, <1>4, LeastProperties
    <2> QED
        BY <1>1, <2>1
<1> QED
    BY <1>3, <1>4 DEF a

\* What a read that is complete puts into the buffer, and where.
LEMMA Puts ==
    ASSUME LinkTyped, NEW l \in Links, NEW at \in 1 .. 3, NEW n \in 0 .. 2,
           n <= Len(arrived[l])
    PROVE  /\ \A i \in 1 .. n : Received(l, at, n)[at + i - 1] = arrived[l][i]
           /\ \A i \in 1 .. at - 1 : Received(l, at, n)[i] = msg[i]
<1> DEFINE a == arrived[l]
<1>1. Len(a) \in Nat /\ BufferLength \in Nat /\ 7 <= BufferLength
    BY LenProperties, MessagesAssumption, BufferAssumption DEF LinkTyped
<1>2. Least(n, Len(a)) = n
    BY <1>1, LeastProperties
<1> HIDE DEF a
<1>3. Received(l, at, n) =
        [i \in 1 .. BufferLength |-> IF i \in at .. at + n - 1 THEN a[i - at + 1] ELSE msg[i]]
    BY <1>2 DEF Received, a
<1>4. ASSUME NEW i \in 1 .. n PROVE Received(l, at, n)[at + i - 1] = a[i]
    <2> DEFINE j == at + i - 1
    <2>1. j \in 1 .. BufferLength /\ j \in at .. at + n - 1 /\ j - at + 1 = i
        BY <1>1
    <2> HIDE DEF j
    <2> QED
        BY <1>3, <2>1 DEF j
<1>5. ASSUME NEW i \in 1 .. at - 1 PROVE Received(l, at, n)[i] = msg[i]
    <2>1. i \in 1 .. BufferLength /\ i \notin at .. at + n - 1
        BY <1>1
    <2> QED
        BY <1>3, <2>1
<1> QED
    BY <1>4, <1>5 DEF a

\* A header is read.
LEMMA ReadHeadKeeps ==
    ASSUME StreamsInv, NEW l \in Links, ReadHead(l)
    PROVE  StreamsInv'
<1>1. /\ msg' = Received(l, 1, 2) /\ arrived' = Consumed(l, 2) /\ short' = ShortOf(l, 2)
      /\ reading' = l /\ reading = "none" /\ walking = "none" /\ walking' = walking
      /\ connected' = connected /\ flight' = flight /\ closed' = closed /\ sent' = sent
      /\ handled' = handled /\ requests' = requests
    BY DEF ReadHead, HeadLength
<1>2. LinkTyped /\ 2 \in Nat /\ 1 \in Nat \ {0} /\ l # "none"
    BY DEF StreamsInv, Links
<1>3. /\ msg' \in [1 .. BufferLength -> Nat] /\ arrived' \in [Links -> Seq(Nat)]
      /\ \A k \in Links : k # l => arrived'[k] = arrived[k]
    BY <1>1, <1>2, RecvTyped
<1>4. LinkTyped'
    BY <1>1, <1>2, <1>3 DEF LinkTyped
<1>5. Quiet'
    BY <1>1 DEF StreamsInv, Quiet
<1>6. OneAtWork'
    BY <1>1 DEF OneAtWork
<1>7. \A k \in Links : k \notin short' => Kept(k)
    BY <1>1, <1>2, NotShort DEF StreamsInv, AllKept
<1>8. ASSUME NEW k \in Links, k \notin short', k # l PROVE Kept(k)'
    <2>1. reading' # k /\ reading # k
        BY <1>1, <1>8 DEF Links
    <2> QED
        BY <1>1, <1>2, <1>3, <1>4, <1>7, <1>8, <2>1, Untouched
<1>9. ASSUME l \notin short' PROVE Kept(l)'
    <2>1. Kept(l)
        BY <1>7, <1>9
    <2>2. PICK rest \in Seq(Msg) : sent[l] = handled[l] \o rest /\ Stage(l, rest)
        BY <2>1 DEF Kept
    <2> DEFINE a == arrived[l]
               f == flight[l]
    <2>3. a \o f = FlattenSeq(rest)
        BY <1>1, <1>2, <2>2 DEF Stage
    <2>4. a \in Seq(Nat) /\ f \in Seq(Nat)
        BY <1>2 DEF LinkTyped
    <2>5. ASSUME 2 <= Len(a) PROVE Stage(l, rest)'
        <3>1. /\ rest # <<>> /\ a[1] = rest[1][1] /\ a[2] = rest[1][2]
              /\ SubSeq(a, 3, Len(a)) \o f = Body(rest[1]) \o FlattenSeq(Tail(rest))
            <4> HIDE DEF a, f
            <4> QED
                BY <2>3, <2>4, <2>5, HeadIsRead
        <3>2. arrived'[l] = SubSeq(a, 3, Len(a))
            <4>1. 2 + 1 = 3
                OBVIOUS
            <4> QED
                BY <1>1, <1>2, <2>5, <4>1, Leaves
        <3>3. msg'[1] = a[1] /\ msg'[2] = a[2]
            <4>1. \A i \in 1 .. 2 : Received(l, 1, 2)[1 + i - 1] = arrived[l][i]
                <5>1. 1 \in 1 .. 3 /\ 2 \in 0 .. 2
                    OBVIOUS
                <5> QED
                    BY <1>2, <2>5, <5>1, Puts
            <4>2. 1 \in 1 .. 2 /\ 2 \in 1 .. 2 /\ 1 + 1 - 1 = 1 /\ 1 + 2 - 1 = 2
                OBVIOUS
            <4> QED
                BY <1>1, <4>1, <4>2
        <3>4. flight'[l] = f /\ reading' = l
            BY <1>1
        <3> HIDE DEF a, f
        <3> QED
            BY <3>1, <3>2, <3>3, <3>4 DEF Stage
    <2>6. ASSUME l \in closed, arrived[l] = <<>> PROVE Stage(l, rest)'
        <3>1. flight[l] = <<>>
            BY <2>6 DEF StreamsInv, Quiet
        <3>2. a \o f = <<>>
            <4>1. <<>> \in Seq(Nat)
                BY EmptySeq
            <4> QED
                BY <2>6, <3>1, <4>1, ConcatEmptySeq
        <3>3. rest = <<>>
            BY <2>3, <3>2, EmptyStream
        <3>4. arrived'[l] = <<>>
            BY <1>1, <1>2, <2>6, Leaves
        <3> QED
            BY <1>1, <2>6, <3>1, <3>3, <3>4 DEF Stage
    <2>7. 2 <= Len(a) \/ (l \in closed /\ arrived[l] = <<>>)
        BY <1>1, <1>2, <1>9, NotShort
    <2>8. Stage(l, rest)'
        BY <2>5, <2>6, <2>7
    <2> QED
        BY <1>1, <2>1, <2>2, <2>8 DEF Kept
<1>10. ASSUME NEW k \in Links, k \notin short' PROVE Kept(k)'
    <2>1. CASE k = l
        BY <1>9, <1>10, <2>1
    <2>2. CASE k # l
        BY <1>8, <1>10, <2>2
    <2> QED
        BY <2>1, <2>2
<1> QED
    BY <1>4, <1>5, <1>6, <1>10 DEF StreamsInv, AllKept

\* A length is a number.
LEMMA FirstByte ==
    ASSUME LinkTyped
    PROVE  msg[1] \in Nat
<1>1. 1 \in 1 .. BufferLength
    BY MessagesAssumption, BufferAssumption
<1>2. msg \in [1 .. BufferLength -> Nat]
    BY DEF LinkTyped
<1> QED
    BY <1>1, <1>2

\* What is dispatched of a link is the message whose header was read.
LEMMA DispatchesFirst ==
    ASSUME LinkTyped, NEW l \in Links, NEW r \in Msg,
           msg[1] = r[1], msg[2] = r[2], r[1] <= Len(arrived[l]),
           \A i \in 1 .. r[1] : arrived[l][i] = r[2 + i]
    PROVE  /\ Read(l)[1] = r[1] /\ Read(l)[2] = r[2]
           /\ SubSeq(Read(l), 1, HeadLength + Read(l)[1]) = r
           /\ \A i \in 1 .. 2 + r[1] : Read(l)[i] = r[i]
<1> DEFINE n == r[1]
           m == Received(l, 3, n)
<1>1. r \in Seq(Nat) /\ n \in 1 .. 2 /\ Len(r) = 2 + n
    BY MsgProperties
<1>2. BufferLength \in Nat /\ 7 <= BufferLength
    BY MessagesAssumption, BufferAssumption
<1>3. n \in Nat /\ n \in 0 .. 2 /\ 3 \in Nat \ {0} /\ 3 \in 1 .. 3 /\ 3 - 1 = 2
    BY <1>1
<1>4. m \in [1 .. BufferLength -> Nat]
    BY <1>3, RecvTyped
<1>5. /\ \A i \in 1 .. n : m[3 + i - 1] = arrived[l][i]
      /\ \A i \in 1 .. 2 : m[i] = msg[i]
    <2>1. /\ \A i \in 1 .. n : m[3 + i - 1] = arrived[l][i]
          /\ \A i \in 1 .. 3 - 1 : m[i] = msg[i]
        BY <1>3, Puts
    <2> QED
        BY <1>3, <2>1
<1>6. Read(l) = m /\ HeadLength = 2
    BY DEF Read, HeadLength
<1> HIDE DEF m
<1>7. m[1] = r[1] /\ m[2] = r[2]
    BY <1>5
<1>8. ASSUME NEW i \in 1 .. 2 + n PROVE m[i] = r[i]
    <2>1. CASE i \in 1 .. 2
        <3>1. i = 1 \/ i = 2
            BY <2>1
        <3> QED
            BY <1>7, <3>1
    <2>2. CASE i \notin 1 .. 2
        <3> DEFINE j == i - 2
        <3>1. j \in 1 .. n /\ 3 + j - 1 = i /\ 2 + j = i
            BY <1>1, <2>2
        <3> HIDE DEF j
        <3>2. m[3 + j - 1] = arrived[l][j] /\ arrived[l][j] = r[2 + j]
            BY <1>5, <3>1
        <3> QED
            BY <3>1, <3>2
    <2> QED
        BY <2>1, <2>2
<1> HIDE DEF n
<1>9. SubSeq(m, 1, 2 + n) = r
    <2> DEFINE x == 2 + n
    <2>1. x \in Int /\ 1 \in Int /\ 1 <= x /\ x - 1 + 1 = x /\ x <= BufferLength
        BY <1>1, <1>2
    <2>2. \A i \in 1 .. x : m[i] \in Nat
        <3>1. \A i \in 1 .. x : i \in 1 .. BufferLength
            BY <1>2, <2>1
        <3> HIDE DEF x
        <3> QED
            BY <1>4, <3>1
    <2> HIDE DEF x
    <2>3. /\ SubSeq(m, 1, x) \in Seq(Nat)
          /\ Len(SubSeq(m, 1, x)) = IF 1 <= x THEN x - 1 + 1 ELSE 0
          /\ \A i \in 1 .. x - 1 + 1 : SubSeq(m, 1, x)[i] = m[1 + i - 1]
        BY <2>1, <2>2, SubSeqProperties
    <2> DEFINE s == SubSeq(m, 1, x)
    <2> HIDE DEF s
    <2>4. s \in Seq(Nat) /\ Len(s) = x
        BY <2>1, <2>3 DEF s
    <2>5. ASSUME NEW i \in 1 .. Len(s) PROVE s[i] = r[i]
        <3>1. i \in 1 .. x - 1 + 1 /\ 1 + i - 1 = i /\ i \in 1 .. x
            BY <2>1, <2>4
        <3>2. s[i] = m[i]
            BY <2>3, <3>1 DEF s
        <3>3. m[i] = r[i]
            BY <1>8, <3>1 DEF x
        <3> QED
            BY <3>2, <3>3
    <2>6. Len(s) = Len(r)
        BY <1>1, <2>4 DEF x
    <2>7. s = r
        BY <1>1, <2>4, <2>5, <2>6, SeqEqual
    <2> QED
        BY <2>7 DEF s, x
<1>10. \A i \in 1 .. 2 + r[1] : Read(l)[i] = r[i]
    BY <1>6, <1>8 DEF n
<1> QED
    BY <1>6, <1>7, <1>9, <1>10 DEF n

\* What the handlers do to the buffer, to the requests and to the walk.
LEMMA HandlersOf ==
    ASSUME StreamsInv, NEW l \in Links, ReadBody(l)
    PROVE  /\ msg' \in [1 .. BufferLength -> Nat] /\ requests' \in [Numbers -> Nat]
           /\ walking' \in {walking, l}
<1> DEFINE m == Read(l)
<1>1. LinkTyped
    BY DEF StreamsInv
<1>2. m \in [1 .. BufferLength -> Nat]
    <2>1. HeadLength + 1 \in Nat \ {0}
        BY DEF HeadLength
    <2>2. msg[1] \in Nat
        BY <1>1, FirstByte
    <2> QED
        BY <1>1, <2>1, <2>2, RecvTyped DEF Read
<1> HIDE DEF m
<1>3. Plain(l, m) \/ Request(l, m) \/ RslConnect(l, m) \/ SetBtsAttr(l, m)
    BY DEF ReadBody, Handles, m
<1>4. CASE Plain(l, m)
    BY <1>1, <1>2, <1>4 DEF Plain, LinkTyped
<1>5. CASE Request(l, m)
    <2>1. msg' = Reply(m) /\ walking' = walking
        BY <1>5 DEF Request
    <2>2. requests' \in [Numbers -> Nat]
        <3>1. requests' = IF m[4] \in Numbers THEN [requests EXCEPT ![m[4]] = @ + 1] ELSE requests
            BY <1>5 DEF Request
        <3>2. requests \in [Numbers -> Nat]
            BY <1>1 DEF LinkTyped
        <3> QED
            BY <3>1, <3>2
    <2> QED
        BY <1>2, <2>1, <2>2, ReplyTyped
<1>6. CASE SetBtsAttr(l, m)
    BY <1>1, <1>2, <1>6 DEF SetBtsAttr, LinkTyped
<1>7. CASE RslConnect(l, m)
    <2>1. Reply(m) \in [1 .. BufferLength -> Nat]
        BY <1>2, ReplyTyped
    <2>2. msg' \in {Reply(m), m} /\ walking' = walking /\ requests' = requests
        BY <1>7 DEF RslConnect
    <2> QED
        BY <1>1, <1>2, <2>1, <2>2 DEF LinkTyped
<1> QED
    BY <1>3, <1>4, <1>5, <1>6, <1>7

\* What is noted of a message that is dispatched.
LEMMA Recorded ==
    ASSUME LinkTyped, NEW l \in Links, Record(l, Read(l))
    PROVE  /\ handled' = [k \in Links |-> handled'[k]]
           /\ \A k \in Links : k # l => handled'[k] = handled[k]
           /\ l \in closed /\ arrived[l] = <<>> => handled' = handled
           /\ ~(l \in closed /\ arrived[l] = <<>>) =>
                 handled'[l] = Append(handled[l], SubSeq(Read(l), 1, HeadLength + Read(l)[1]))
<1>1. handled = [k \in Links |-> handled[k]]
    BY DEF LinkTyped
<1>2. CASE l \in closed /\ arrived[l] = <<>>
    BY <1>1, <1>2 DEF Record
<1>3. CASE ~(l \in closed /\ arrived[l] = <<>>)
    <2> DEFINE d == SubSeq(Read(l), 1, HeadLength + Read(l)[1])
    <2>1. handled' = [handled EXCEPT ![l] = Append(@, d)]
        BY <1>3 DEF Record
    <2> HIDE DEF d
    <2>2. /\ handled' = [k \in Links |-> handled'[k]]
          /\ \A k \in Links : k # l => handled'[k] = handled[k]
          /\ handled'[l] = Append(handled[l], d)
        BY <1>1, <2>1
    <2> QED
        BY <1>3, <2>2 DEF d
<1> QED
    BY <1>2, <1>3

\* There is always a body to read.
LEMMA BodyThere ==
    ASSUME NEW rest \in Seq(Msg), rest # <<>>
    PROVE  Body(rest[1]) \o FlattenSeq(Tail(rest)) # <<>>
<1> DEFINE b == Body(rest[1])
           t == FlattenSeq(Tail(rest))
<1>1. rest[1] \in Msg /\ t \in Seq(Nat)
    BY FirstOfStream
<1>2. b \in Seq(Nat) /\ Len(b) \in 1 .. 2
    BY <1>1, MsgProperties
<1> HIDE DEF b, t
<1>3. b # <<>>
    <2>1. Len(<<>>) = 0
        BY EmptySeq
    <2>2. \A x \in 1 .. 2 : x # 0
        OBVIOUS
    <2> QED
        BY <1>2, <2>1, <2>2
<1>4. b \o t # <<>>
    BY <1>1, <1>2, <1>3, ConcatEqualIffEmpty
<1> QED
    BY <1>4 DEF b, t

\* The message r is dispatched, and the messages t are still to be read.
Dispatches(l, r, t) ==
    /\ handled[l] \in Seq(Msg) /\ sent[l] = handled[l] \o (<<r>> \o t)
    /\ \A i \in 1 .. 2 + r[1] : Read(l)[i] = r[i]
    /\ handled'[l] = Append(handled[l], r)
    /\ arrived'[l] \o flight[l] = FlattenSeq(t)

\* As long as no read was short, the handlers are given the next message sent.
LEMMA DispatchesNext ==
    ASSUME StreamsInv, NEW l \in Links, ReadBody(l), l \notin short',
           ~(l \in closed /\ arrived[l] = <<>>)
    PROVE  \E r \in Msg, t \in Seq(Msg) : Dispatches(l, r, t)
<1> DEFINE a == arrived[l]
           f == flight[l]
<1>1. /\ arrived' = Consumed(l, msg[1]) /\ short' = ShortOf(l, msg[1])
      /\ Record(l, Read(l)) /\ reading = l
    BY DEF ReadBody
<1>2. LinkTyped /\ msg[1] \in Nat
    BY FirstByte DEF StreamsInv
<1>3. Kept(l)
    BY <1>1, <1>2, NotShort DEF StreamsInv, AllKept
<1>4. PICK rest \in Seq(Msg) : sent[l] = handled[l] \o rest /\ Stage(l, rest)
    BY <1>3 DEF Kept
<1>5. a \in Seq(Nat) /\ f \in Seq(Nat) /\ handled[l] \in Seq(Msg)
    BY <1>2, <1>3 DEF LinkTyped, Kept
<1>6. /\ rest # <<>> /\ msg[1] = rest[1][1] /\ msg[2] = rest[1][2]
      /\ arrived[l] \o flight[l] = Body(rest[1]) \o FlattenSeq(Tail(rest))
    BY <1>1, <1>4 DEF Stage
<1> DEFINE r == rest[1]
           t == Tail(rest)
<1>7. r \in Msg /\ t \in Seq(Msg) /\ rest = <<r>> \o t
    BY <1>6, FirstOfStream
<1>8. r[1] <= Len(a)
    <2>1. msg[1] <= Len(arrived[l]) \/ (l \in closed /\ arrived[l] = <<>>)
        BY <1>1, <1>2, NotShort
    <2> QED
        BY <1>6, <2>1
<1>9. /\ \A i \in 1 .. r[1] : a[i] = r[2 + i]
      /\ SubSeq(a, r[1] + 1, Len(a)) \o f = FlattenSeq(t)
    <2> HIDE DEF a, f
    <2>1. a \o f = Body(rest[1]) \o FlattenSeq(Tail(rest))
        BY <1>6 DEF a, f
    <2> QED
        BY <1>5, <1>6, <1>8, <2>1, BodyIsRead
<1>10. /\ SubSeq(Read(l), 1, HeadLength + Read(l)[1]) = r
       /\ \A i \in 1 .. 2 + r[1] : Read(l)[i] = r[i]
    <2> HIDE DEF r
    <2>1. msg[1] = r[1] /\ msg[2] = r[2]
        BY <1>6 DEF r
    <2> QED
        BY <1>2, <1>7, <1>8, <1>9, <2>1, DispatchesFirst
<1>11. handled'[l] = Append(handled[l], r)
    BY <1>1, <1>2, <1>10, Recorded
<1>12. arrived'[l] \o flight[l] = FlattenSeq(t)
    <2>1. arrived'[l] = SubSeq(a, r[1] + 1, Len(a))
        BY <1>1, <1>2, <1>6, <1>8, Leaves
    <2> QED
        BY <1>9, <2>1
<1> HIDE DEF r, t
<1>13. Dispatches(l, r, t)
    BY <1>4, <1>5, <1>7, <1>10, <1>11, <1>12 DEF Dispatches
<1> QED
    BY <1>7, <1>13

\* A message is read to its end and dispatched.
LEMMA ReadBodyKeeps ==
    ASSUME StreamsInv, NEW l \in Links, ReadBody(l)
    PROVE  StreamsInv'
<1>1. /\ arrived' = Consumed(l, msg[1]) /\ short' = ShortOf(l, msg[1])
      /\ Record(l, Read(l))
      /\ reading' = "none" /\ reading = l
      /\ connected' = connected /\ flight' = flight /\ closed' = closed /\ sent' = sent
    BY DEF ReadBody
<1>2. LinkTyped /\ msg[1] \in Nat /\ l # "none"
    <2>1. msg[1] \in Nat
        BY FirstByte DEF StreamsInv
    <2> QED
        BY <2>1 DEF StreamsInv, Links
<1>3. /\ arrived' \in [Links -> Seq(Nat)]
      /\ \A k \in Links : k # l => arrived'[k] = arrived[k]
    <2>1. 1 \in Nat \ {0}
        OBVIOUS
    <2> QED
        BY <1>1, <1>2, <2>1, RecvTyped
<1>4. /\ handled' = [k \in Links |-> handled'[k]]
      /\ \A k \in Links : k # l => handled'[k] = handled[k]
      /\ l \in closed /\ arrived[l] = <<>> => handled' = handled
    BY <1>1, <1>2, Recorded
<1>5. LinkTyped'
    BY <1>1, <1>2, <1>3, <1>4, HandlersOf DEF LinkTyped
<1>6. Quiet'
    BY <1>1 DEF StreamsInv, Quiet
<1>7. OneAtWork'
    BY <1>1 DEF OneAtWork
<1>8. \A k \in Links : k \notin short' => Kept(k)
    BY <1>1, <1>2, NotShort DEF StreamsInv, AllKept
<1>9. ASSUME NEW k \in Links, k \notin short', k # l PROVE Kept(k)'
    <2>1. reading' # k /\ reading # k
        BY <1>1, <1>9 DEF Links
    <2> QED
        BY <1>1, <1>2, <1>3, <1>4, <1>5, <1>8, <1>9, <2>1, Untouched
<1>10. ASSUME l \notin short' PROVE Kept(l)'
    <2>1. CASE l \in closed /\ arrived[l] = <<>>
        <3>1. Kept(l)
            BY <1>8, <1>10
        <3>2. PICK rest \in Seq(Msg) : sent[l] = handled[l] \o rest /\ Stage(l, rest)
            BY <3>1 DEF Kept
        <3>3. flight[l] = <<>>
            BY <2>1 DEF StreamsInv, Quiet
        <3>4. <<>> \o <<>> = <<>>
            <4>1. <<>> \in Seq(Nat)
                BY EmptySeq
            <4> QED
                BY <4>1, ConcatEmptySeq
        <3>5. rest = <<>>
            BY <1>1, <2>1, <3>2, <3>3, <3>4, BodyThere DEF Stage
        <3>6. arrived'[l] = <<>> /\ handled'[l] = handled[l] /\ flight'[l] = <<>>
            BY <1>1, <1>2, <1>4, <2>1, <3>3, Leaves
        <3>7. Stage(l, rest)'
            BY <1>1, <1>2, <3>4, <3>5, <3>6, FlattenEmpty DEF Stage
        <3> QED
            BY <1>1, <3>1, <3>2, <3>6, <3>7 DEF Kept
    <2>2. CASE ~(l \in closed /\ arrived[l] = <<>>)
        <3>1. PICK r \in Msg, t \in Seq(Msg) : Dispatches(l, r, t)
            BY <1>10, <2>2, DispatchesNext
        <3>2. handled[l] \in Seq(Msg) /\ <<r>> \in Seq(Msg)
            BY <3>1 DEF Dispatches
        <3>3. handled'[l] \in Seq(Msg) /\ handled'[l] = handled[l] \o <<r>>
            BY <3>1, <3>2, AppendProperties, AppendIsConcat DEF Dispatches
        <3>4. sent'[l] = handled'[l] \o t
            <4>1. (handled[l] \o <<r>>) \o t = handled[l] \o (<<r>> \o t)
                BY <3>2, RegroupMsgs
            <4> QED
                BY <1>1, <3>1, <3>3, <4>1 DEF Dispatches
        <3>5. Stage(l, t)'
            BY <1>1, <1>2, <3>1 DEF Dispatches, Stage
        <3> QED
            BY <3>3, <3>4, <3>5 DEF Kept
    <2> QED
        BY <2>1, <2>2
<1>11. ASSUME NEW k \in Links, k \notin short' PROVE Kept(k)'
    <2>1. CASE k = l
        BY <1>10, <1>11, <2>1
    <2>2. CASE k # l
        BY <1>9, <1>11, <2>2
    <2> QED
        BY <2>1, <2>2
<1> QED
    BY <1>5, <1>6, <1>7, <1>11 DEF StreamsInv, AllKept

\* The invariant of the streams is inductive.
LEMMA LinkStep ==
    ASSUME StreamsInv, [AbisNext]_abisVars
    PROVE  StreamsInv'
<1>1. ASSUME NEW l \in Links, BscSends(l) \/ Delivered(l) \/ BscCloses(l)
      PROVE  StreamsInv'
    BY <1>1, BscSendsKeeps, DeliveredKeeps, BscClosesKeeps
<1>2. ASSUME NEW l \in Links, SocketInit(l) \/ ReadHead(l) \/ ReadBody(l)
      PROVE  StreamsInv'
    BY <1>2, SocketInitKeeps, ReadHeadKeeps, ReadBodyKeeps
<1>3. ASSUME Walks \/ SetBtsAttrAck \/ UNCHANGED abisVars
      PROVE  StreamsInv'
    BY <1>3, WalkKeeps
<1> QED
    BY <1>1, <1>2, <1>3 DEF AbisNext, Bsc

\* What the invariant says of the messages dispatched is InStep.
LEMMA KeptIsInStep ==
    ASSUME StreamsInv
    PROVE  InStep
<1> SUFFICES ASSUME NEW l \in Links \ short
             PROVE  /\ IsPrefix(handled[l], sent[l])
                    /\ reading # l =>
                         arrived[l] \o flight[l] =
                             FlattenSeq(SubSeq(sent[l], Len(handled[l]) + 1, Len(sent[l])))
    BY DEF InStep
<1>1. Kept(l)
    BY DEF StreamsInv, AllKept
<1>2. PICK rest \in Seq(Msg) : sent[l] = handled[l] \o rest /\ Stage(l, rest)
    BY <1>1 DEF Kept
<1> DEFINE h == handled[l]
<1>3. h \in Seq(Msg)
    BY <1>1 DEF Kept
<1> HIDE DEF h
<1>4. /\ IsPrefix(h, h \o rest)
      /\ SubSeq(h \o rest, Len(h) + 1, Len(h \o rest)) = rest
    BY <1>3, SameStart
<1>5. sent[l] = h \o rest
    BY <1>2 DEF h
<1>6. IsPrefix(h, sent[l])
    BY <1>4, <1>5
<1>7. SubSeq(sent[l], Len(h) + 1, Len(sent[l])) = rest
    BY <1>4, <1>5
<1>8. ASSUME reading # l PROVE arrived[l] \o flight[l] = FlattenSeq(rest)
    BY <1>2, <1>8 DEF Stage
<1> QED
    BY <1>6, <1>7, <1>8 DEF h

\* InStep.
THEOREM LinksStayInStep == AbisSpec => []InStep
<1>1. AbisInit => StreamsInv
    BY LinksInit
<1>2. StreamsInv /\ [AbisNext]_abisVars => StreamsInv'
    BY LinkStep
<1>3. StreamsInv => InStep
    BY KeptIsInStep
<1> QED
    BY <1>1, <1>2, <1>3, PTL DEF AbisSpec

-----------------------------------------------------------------------------
(* Requests are carried out once.                                          *)

IsOml(m) == m[2] = PROTO_OML

IsRequest(m) == m[2] = PROTO_OML /\ m[3] = REQUEST

\* The numbers of the O&M messages increase, and none is sent on the other link.
OmlNumbered ==
    \A i \in 1 .. Len(sent["oml"]) :
        IsOml(sent["oml"][i]) => Len(sent["oml"][i]) = 4 /\ sent["oml"][i][4] \in 1 .. Sent

OmlInOrder ==
    \A i, j \in 1 .. Len(sent["oml"]) :
        i < j /\ IsOml(sent["oml"][i]) /\ IsOml(sent["oml"][j])
            => sent["oml"][i][4] < sent["oml"][j][4]

NoOmlOnRsl == \A i \in 1 .. Len(sent["rsl"]) : ~IsOml(sent["rsl"][i])

\* A message of a number has been dispatched.
Dispatched(n) ==
    \E i \in 1 .. Len(handled["oml"]) : IsOml(handled["oml"][i]) /\ handled["oml"][i][4] = n

\* A request is carried out at most once, and only if it has been dispatched.
Once ==
    short = {} =>
        \A n \in Numbers : requests[n] = 0 \/ (requests[n] = 1 /\ Dispatched(n))

\* The next to be dispatched is not read but found in the buffer.
Idle == reading = "none" \/ (reading \in closed /\ arrived[reading] = <<>>)

\* A request does not stay in the buffer once it is carried out.
Spent == short = {} /\ Idle => ~IsRequest(msg)

WellNumbered == OmlNumbered /\ OmlInOrder /\ NoOmlOnRsl

RequestsInv == StreamsInv /\ WellNumbered /\ Once /\ Spent

\* Messages sent are counted.
LEMMA SentTyped ==
    ASSUME LinkTyped
    PROVE  /\ sent["oml"] \in Seq(Msg) /\ sent["rsl"] \in Seq(Msg)
           /\ Len(sent["oml"]) \in Nat /\ Len(sent["rsl"]) \in Nat
           /\ Sent = Len(sent["oml"]) + Len(sent["rsl"]) /\ Sent \in Nat
<1>1. "oml" \in Links /\ "rsl" \in Links
    BY DEF Links
<1>2. sent["oml"] \in Seq(Msg) /\ sent["rsl"] \in Seq(Msg)
    BY <1>1 DEF LinkTyped
<1>3. Len(sent["oml"]) \in Nat /\ Len(sent["rsl"]) \in Nat
    BY <1>2, LenProperties
<1>4. Sent = Len(sent["oml"]) + Len(sent["rsl"])
    BY DEF Sent
<1>5. \A x, y \in Nat : x + y \in Nat
    OBVIOUS
<1> QED
    BY <1>2, <1>3, <1>4, <1>5

\* The numbers of messages: each is given when the message is sent.
LEMMA SendingNumbers ==
    ASSUME StreamsInv, WellNumbered, NEW l \in Links, BscSends(l)
    PROVE  WellNumbered'
<1>1. PICK m \in Messages(l, Sent + 1) : sent' = [sent EXCEPT ![l] = Append(@, m)]
    BY DEF BscSends
<1>2. LinkTyped
    BY DEF StreamsInv
<1>3. /\ sent["oml"] \in Seq(Msg) /\ sent["rsl"] \in Seq(Msg)
      /\ Len(sent["oml"]) \in Nat /\ Len(sent["rsl"]) \in Nat
      /\ Sent = Len(sent["oml"]) + Len(sent["rsl"]) /\ Sent \in Nat
    BY <1>2, SentTyped
<1>4. Sent' = Len(sent'["oml"]) + Len(sent'["rsl"])
    BY DEF Sent
<1> DEFINE n == Sent + 1
<1>0. Sent \in Nat
    BY <1>3
<1>5. n \in Nat /\ n = Sent + 1
    BY <1>0
<1> HIDE DEF n
<1>6. sent \in [Links -> Seq(Msg)] /\ "oml" \in Links /\ "rsl" \in Links /\ l \in {"oml", "rsl"}
    BY <1>2 DEF LinkTyped, Links
<1>7. ASSUME l = "oml" PROVE WellNumbered'
    <2>1. sent'["oml"] = Append(sent["oml"], m) /\ sent'["rsl"] = sent["rsl"]
        BY <1>1, <1>6, <1>7
    <2>2. m = <<1, 2, 0>> \/ \E t \in OmlMessages : m = <<2, 1, t, n>>
        BY <1>7 DEF Messages, PROTO_SOFTBTS, PROTO_RSL, PROTO_OML, MSG_PING, ACK, n
    <2>3. IsOml(m) => Len(m) = 4 /\ m[4] = n
        BY <2>2 DEF IsOml, PROTO_OML
    <2> DEFINE s == sent["oml"]
               k == Len(s)
               t == sent'["oml"]
    <2>4. /\ Len(t) = k + 1 /\ t[k + 1] = m /\ \A i \in 1 .. k : t[i] = s[i]
        <3> DEFINE S == Seq(Nat)
        <3>1. s \in Seq(S) /\ m \in S
            <4>1. m \in Seq(Nat)
                <5>1. OmlMessages \subseteq Nat
                    BY OmlMessagesAssumption DEF REQUEST, SET_ATTR, SW_ACT_REQ_ACK, RSL_CONNECT
                <5>2. <<1, 2, 0>> \in Seq(Nat) /\ \A y \in Nat : <<2, 1, y, n>> \in Seq(Nat)
                    BY <1>5
                <5> QED
                    BY <2>2, <5>1, <5>2
            <4> QED
                BY <1>3, <4>1, MsgSeqs
        <3> HIDE DEF s, S
        <3>2. /\ Len(Append(s, m)) = Len(s) + 1
              /\ \A i \in 1 .. Len(s) : Append(s, m)[i] = s[i]
              /\ Append(s, m)[Len(s) + 1] = m
            BY <3>1, AppendProperties
        <3> QED
            BY <2>1, <3>2 DEF s
    <2>5. k \in Nat /\ Sent' = n
        <3>1. Len(sent'["oml"]) = Len(sent["oml"]) + 1 /\ Len(sent'["rsl"]) = Len(sent["rsl"])
            BY <2>1, <2>4
        <3>2. Len(sent["oml"]) \in Nat /\ Len(sent["rsl"]) \in Nat
            BY <1>3
        <3>3. \A x, y \in Nat : (x + 1) + y = (x + y) + 1
            OBVIOUS
        <3>4. Sent' = Sent + 1
            BY <1>3, <1>4, <3>1, <3>2, <3>3
        <3> QED
            BY <1>5, <3>2, <3>4
    <2>6. \A i \in 1 .. k : IsOml(s[i]) => Len(s[i]) = 4 /\ s[i][4] \in 1 .. Sent
        BY DEF WellNumbered, OmlNumbered
    <2>7. \A i, j \in 1 .. k : i < j /\ IsOml(s[i]) /\ IsOml(s[j]) => s[i][4] < s[j][4]
        BY DEF WellNumbered, OmlInOrder
    <2> HIDE DEF s, k, t
    <2>8. \A i \in 1 .. Len(t) : IsOml(t[i]) => Len(t[i]) = 4 /\ t[i][4] \in 1 .. n
        <3> SUFFICES ASSUME NEW i \in 1 .. k + 1, IsOml(t[i])
                     PROVE  Len(t[i]) = 4 /\ t[i][4] \in 1 .. n
            BY <2>4
        <3>1. CASE i = k + 1
            <4>1. t[i] = m
                BY <2>4, <3>1
            <4>2. Len(t[i]) = 4 /\ t[i][4] = n
                BY <2>3, <4>1
            <4>3. n \in 1 .. n
                BY <1>0, <1>5
            <4> QED
                BY <4>2, <4>3
        <3>2. CASE i # k + 1
            <4>1. i \in 1 .. k
                BY <2>5, <3>2
            <4>2. t[i] = s[i]
                BY <2>4, <4>1
            <4>3. Len(s[i]) = 4 /\ s[i][4] \in 1 .. Sent
                BY <2>6, <4>1, <4>2
            <4>4. 1 .. Sent \subseteq 1 .. n
                BY <1>0, <1>5
            <4> QED
                BY <4>2, <4>3, <4>4
        <3> QED
            BY <3>1, <3>2
    <2>9. \A i, j \in 1 .. Len(t) : i < j /\ IsOml(t[i]) /\ IsOml(t[j]) => t[i][4] < t[j][4]
        <3> SUFFICES ASSUME NEW i \in 1 .. k + 1, NEW j \in 1 .. k + 1, i < j,
                            IsOml(t[i]), IsOml(t[j])
                     PROVE  t[i][4] < t[j][4]
            BY <2>4
        <3>1. i \in 1 .. k
            BY <2>5
        <3>2. t[i] = s[i] /\ IsOml(s[i])
            BY <2>4, <3>1
        <3>3. CASE j = k + 1
            <4>1. t[j] = m
                BY <2>4, <3>3
            <4>2. t[j][4] = n
                BY <2>3, <4>1
            <4>3. s[i][4] \in 1 .. Sent
                BY <2>6, <3>1, <3>2
            <4>4. s[i][4] < n
                BY <1>0, <1>5, <4>3
            <4> QED
                BY <3>2, <4>2, <4>4
        <3>4. CASE j # k + 1
            <4>1. j \in 1 .. k
                BY <2>5, <3>4
            <4>2. t[j] = s[j] /\ IsOml(s[j])
                BY <2>4, <4>1
            <4>3. s[i][4] < s[j][4]
                BY <2>7, <3>1, <3>2, <4>1, <4>2
            <4> QED
                BY <3>2, <4>2, <4>3
        <3> QED
            BY <3>3, <3>4
    <2>10. NoOmlOnRsl'
        BY <2>1 DEF WellNumbered, NoOmlOnRsl, IsOml
    <2>11. OmlNumbered'
        BY <2>5, <2>8 DEF OmlNumbered, IsOml, t
    <2>12. OmlInOrder'
        BY <2>9 DEF OmlInOrder, IsOml, t
    <2> QED
        BY <2>10, <2>11, <2>12 DEF WellNumbered
<1>8. ASSUME l = "rsl" PROVE WellNumbered'
    <2>1. sent'["rsl"] = Append(sent["rsl"], m) /\ sent'["oml"] = sent["oml"]
        BY <1>1, <1>6, <1>8
    <2>2. m = <<1, 2, 0>> \/ m = <<1, 0, 5>>
        BY <1>8
           DEF Messages, PROTO_SOFTBTS, PROTO_RSL, PROTO_OML,
               MSG_PING, REQUEST, SET_ATTR, ACK
    <2>3. ~IsOml(m) /\ m \in Seq(Nat)
        <3>1. <<1, 2, 0>>[2] = 2 /\ <<1, 0, 5>>[2] = 0
            OBVIOUS
        <3>2. <<1, 2, 0>> \in Seq(Nat) /\ <<1, 0, 5>> \in Seq(Nat)
            OBVIOUS
        <3>3. m[2] = 2 \/ m[2] = 0
            BY <2>2, <3>1
        <3>4. ~IsOml(m)
            BY <3>3 DEF IsOml, PROTO_OML
        <3>5. m \in Seq(Nat)
            BY <2>2, <3>2
        <3> QED
            BY <3>4, <3>5
    <2> DEFINE s == sent["rsl"]
               k == Len(s)
               t == sent'["rsl"]
    <2>4. s \in Seq(Seq(Nat))
        BY <1>3, MsgSeqs
    <2> HIDE DEF s
    <2>5. /\ Len(Append(s, m)) = k + 1 /\ Append(s, m)[k + 1] = m
          /\ \A i \in 1 .. k : Append(s, m)[i] = s[i]
        BY <2>3, <2>4, AppendProperties
    <2>6. t = Append(s, m)
        BY <2>1 DEF s
    <2>7. k \in Nat /\ \A i \in 1 .. k : ~IsOml(s[i])
        BY <1>3 DEF WellNumbered, NoOmlOnRsl, s
    <2> HIDE DEF t, k
    <2>8. ASSUME NEW i \in 1 .. Len(t) PROVE ~IsOml(t[i])
        <3>1. i = k + 1 \/ i \in 1 .. k
            BY <2>5, <2>6, <2>7
        <3> QED
            BY <2>3, <2>5, <2>6, <2>7, <3>1
    <2>9. NoOmlOnRsl'
        BY <2>8 DEF NoOmlOnRsl, IsOml, t
    <2>10. 1 .. Sent \subseteq 1 .. Sent'
        <3>1. Len(sent'["rsl"]) = Len(sent["rsl"]) + 1 /\ Len(sent'["oml"]) = Len(sent["oml"])
            BY <2>1, <2>5, <2>6 DEF t, k, s
        <3>2. Len(sent["oml"]) \in Nat /\ Len(sent["rsl"]) \in Nat
            BY <1>3
        <3>3. \A x, y \in Nat : x + (y + 1) = (x + y) + 1
            OBVIOUS
        <3>4. Sent' = Sent + 1
            BY <1>3, <1>4, <3>1, <3>2, <3>3, ZenonT(30)
        <3> QED
            BY <1>0, <3>4
    <2>11. OmlNumbered'
        BY <2>1, <2>10 DEF WellNumbered, OmlNumbered, IsOml
    <2>12. OmlInOrder'
        BY <2>1 DEF WellNumbered, OmlInOrder, IsOml
    <2> QED
        BY <2>9, <2>11, <2>12 DEF WellNumbered
<1> QED
    BY <1>6, <1>7, <1>8

\* Numbers change only with messages.
LEMMA NumberedKept ==
    ASSUME WellNumbered, sent' = sent
    PROVE  WellNumbered'
BY DEF WellNumbered, OmlNumbered, OmlInOrder, NoOmlOnRsl, IsOml, Sent

\* Requests are counted only when a message is dispatched.
LEMMA OnceKept ==
    ASSUME Once, requests' = requests, handled' = handled, short' = {} => short = {}
    PROVE  Once'
BY DEF Once, Dispatched, IsOml

\* A buffer that does not change holds no request that it did not hold.
LEMMA SpentKept ==
    ASSUME Spent, msg' = msg, short' = {} => short = {}, short' = {} /\ Idle' => Idle
    PROVE  Spent'
BY DEF Spent, IsRequest

\* The numbers keep: messages are only ever added.
LEMMA NumberedStep ==
    ASSUME StreamsInv, WellNumbered, [AbisNext]_abisVars
    PROVE  WellNumbered'
<1>1. ASSUME NEW l \in Links, Delivered(l) \/ BscCloses(l)
      PROVE  sent' = sent
    BY <1>1 DEF Delivered, BscCloses
<1>2. ASSUME NEW l \in Links, SocketInit(l) \/ ReadHead(l) \/ ReadBody(l)
      PROVE  sent' = sent
    BY <1>2 DEF SocketInit, ReadHead, ReadBody
<1>3. ASSUME Walks \/ SetBtsAttrAck \/ UNCHANGED abisVars
      PROVE  sent' = sent
    BY <1>3 DEF Walks, SetBtsAttrAck, abisVars, link
<1>4. sent' = sent \/ \E l \in Links : BscSends(l)
    BY <1>1, <1>2, <1>3 DEF AbisNext, Bsc
<1> QED
    BY <1>4, SendingNumbers, NumberedKept

\* Between a header and its body, a link that is not closed has something to read.
LEMMA BodyOnItsWay ==
    ASSUME StreamsInv, reading \in Links, reading \notin short, reading \notin closed,
           flight[reading] = <<>>
    PROVE  arrived[reading] # <<>>
<1> SUFFICES ASSUME arrived[reading] = <<>> PROVE FALSE
    OBVIOUS
<1>1. Kept(reading)
    BY DEF StreamsInv, AllKept
<1>2. PICK rest \in Seq(Msg) : Stage(reading, rest)
    BY <1>1 DEF Kept
<1>3. /\ rest # <<>>
      /\ arrived[reading] \o flight[reading] = Body(rest[1]) \o FlattenSeq(Tail(rest))
    BY <1>2 DEF Stage
<1>4. <<>> \o <<>> = <<>>
    <2>1. <<>> \in Seq(Nat)
        BY EmptySeq
    <2> QED
        BY <2>1, ConcatEmptySeq
<1> QED
    BY <1>3, <1>4, BodyThere

\* The BSC and main() do not touch the buffer; a link they close has a body to read
\* if its header has been read.
LEMMA PeerRequests ==
    ASSUME RequestsInv, NEW l \in Links,
           SocketInit(l) \/ BscSends(l) \/ Delivered(l) \/ BscCloses(l)
    PROVE  Once' /\ Spent'
<1>1. /\ msg' = msg /\ reading' = reading /\ short' = short
      /\ requests' = requests /\ handled' = handled
    BY DEF SocketInit, BscSends, Delivered, BscCloses, trace
<1>2. Once'
    BY <1>1, OnceKept DEF RequestsInv
<1>3. ASSUME short = {}, Idle' PROVE Idle
    <2> SUFFICES ASSUME reading # "none" PROVE Idle
        BY DEF Idle
    <2>1. reading \in closed' /\ arrived'[reading] = <<>> /\ reading \in Links
        BY <1>1, <1>3 DEF Idle, RequestsInv, StreamsInv, LinkTyped
    <2>2. CASE BscSends(l)
        BY <2>1, <2>2 DEF BscSends, Idle
    <2>3. CASE Delivered(l)
        <3>1. PICK n \in 1 .. Len(flight[l]) :
                 arrived' = [arrived EXCEPT ![l] = @ \o SubSeq(flight[l], 1, n)]
            BY <2>3 DEF Delivered
        <3>2. closed' = closed
            BY <2>3 DEF Delivered
        <3>3. flight[l] # <<>>
            BY <3>1, EmptySeq
        <3>4. l \notin closed
            BY <3>3 DEF RequestsInv, StreamsInv, Quiet
        <3>5. arrived'[reading] = arrived[reading]
            BY <2>1, <3>1, <3>2, <3>4 DEF RequestsInv, StreamsInv, LinkTyped
        <3> QED
            BY <2>1, <3>2, <3>5 DEF Idle
    <2>4. CASE BscCloses(l) \/ SocketInit(l)
        <3>1. arrived' = arrived /\ closed' \subseteq closed \cup {l}
            BY <2>4 DEF BscCloses, SocketInit
        <3>2. flight[l] = <<>>
            BY <2>4 DEF BscCloses, SocketInit, RequestsInv, StreamsInv, Quiet
        <3>3. CASE reading \in closed
            BY <2>1, <3>1, <3>3 DEF Idle
        <3>4. CASE reading \notin closed
            <4>1. reading = l
                BY <2>1, <3>1, <3>4
            <4> QED
                BY <1>3, <2>1, <3>1, <3>2, <3>4, <4>1, BodyOnItsWay DEF RequestsInv
        <3> QED
            BY <3>3, <3>4
    <2> QED
        BY <2>2, <2>3, <2>4
<1>4. Spent'
    BY <1>1, <1>3, SpentKept DEF RequestsInv
<1> QED
    BY <1>2, <1>4

\* A reply replaces the request in the buffer.
LEMMA ReplyIsNoRequest ==
    ASSUME NEW m \in [1 .. BufferLength -> Nat]
    PROVE  ~IsRequest(Reply(m))
<1>1. 3 \in 1 .. BufferLength
    BY MessagesAssumption, BufferAssumption
<1>2. Reply(m)[3] = ACK
    BY <1>1 DEF Reply
<1> QED
    BY <1>2 DEF IsRequest, REQUEST, ACK

\* The walk is no request, nor is its acknowledgement.
LEMMA WalkRequests ==
    ASSUME RequestsInv, Walks \/ SetBtsAttrAck \/ UNCHANGED abisVars
    PROVE  Once' /\ Spent'
<1>1. UNCHANGED <<link, reading, trace>> /\ (msg' = msg \/ msg' = Reply(msg))
    BY DEF Walks, SetBtsAttrAck, abisVars
<1>2. /\ closed' = closed /\ arrived' = arrived /\ reading' = reading /\ short' = short
      /\ requests' = requests /\ handled' = handled
    BY <1>1 DEF link, trace
<1>3. Once'
    BY <1>2, OnceKept DEF RequestsInv
<1>4. CASE msg' = msg
    <2>1. Idle' => Idle
        BY <1>2 DEF Idle
    <2> QED
        BY <1>2, <1>3, <1>4, <2>1, SpentKept DEF RequestsInv
<1>5. CASE msg' = Reply(msg)
    <2>1. ~IsRequest(Reply(msg))
        BY ReplyIsNoRequest DEF RequestsInv, StreamsInv, LinkTyped
    <2>2. ~IsRequest(msg')
        BY <1>5, <2>1
    <2>3. Spent'
        BY <2>2 DEF Spent, IsRequest
    <2> QED
        BY <1>3, <2>3
<1> QED
    BY <1>1, <1>4, <1>5

\* Nothing is read of nothing.
LEMMA NothingRead ==
    ASSUME LinkTyped, NEW l \in Links, NEW at \in Nat, NEW n \in Nat,
           arrived[l] = <<>>
    PROVE  Received(l, at, n) = msg
<1>1. Len(arrived[l]) = 0
    BY EmptySeq
<1>2. Least(n, Len(arrived[l])) = 0
    BY <1>1, LeastProperties
<1>3. at .. at + 0 - 1 = {}
    OBVIOUS
<1>4. Received(l, at, n) = [i \in 1 .. BufferLength |-> msg[i]]
    BY <1>2, <1>3 DEF Received
<1>5. msg = [i \in 1 .. BufferLength |-> msg[i]]
    BY DEF LinkTyped
<1> QED
    BY <1>4, <1>5

\* A header is read behind a spent message, or nothing is.
LEMMA HeadRequests ==
    ASSUME RequestsInv, StreamsInv', NEW l \in Links, ReadHead(l)
    PROVE  Once' /\ Spent'
<1>1. /\ msg' = Received(l, 1, 2) /\ arrived' = Consumed(l, 2) /\ short' = ShortOf(l, 2)
      /\ reading' = l /\ reading = "none" /\ closed' = closed /\ flight' = flight
      /\ handled' = handled /\ requests' = requests
    BY DEF ReadHead, HeadLength
<1>2. LinkTyped /\ 2 \in Nat /\ 1 \in Nat /\ l # "none"
    BY DEF RequestsInv, StreamsInv, Links
<1>3. short' = {} => short = {}
    BY <1>1 DEF ShortOf
<1>4. Once'
    BY <1>1, <1>3, OnceKept DEF RequestsInv
<1>5. ASSUME short' = {}, Idle' PROVE ~IsRequest(msg')
    <2>1. l \in closed /\ arrived'[l] = <<>>
        BY <1>1, <1>2, <1>5 DEF Idle
    <2>2. flight[l] = <<>>
        BY <2>1 DEF RequestsInv, StreamsInv, Quiet
    <2>3. arrived[l] = <<>>
        <3> SUFFICES ASSUME arrived[l] # <<>> PROVE FALSE
            OBVIOUS
        <3>1. 2 <= Len(arrived[l])
            BY <1>1, <1>2, <1>5, NotShort
        <3>2. Kept(l)
            BY <1>3, <1>5 DEF RequestsInv, StreamsInv, AllKept
        <3>3. PICK rest \in Seq(Msg) : Stage(l, rest)
            BY <3>2 DEF Kept
        <3> DEFINE a == arrived[l]
                   f == flight[l]
        <3>4. a \o f = FlattenSeq(rest) /\ a \in Seq(Nat) /\ f \in Seq(Nat)
            BY <1>1, <1>2, <3>3 DEF Stage, LinkTyped
        <3>5. /\ rest # <<>>
              /\ SubSeq(a, 3, Len(a)) \o f = Body(rest[1]) \o FlattenSeq(Tail(rest))
            <4> HIDE DEF a, f
            <4>1. 2 <= Len(a)
                BY <3>1 DEF a
            <4> QED
                BY <3>4, <4>1, HeadIsRead
        <3>6. arrived'[l] = SubSeq(a, 3, Len(a))
            <4>1. 2 + 1 = 3
                OBVIOUS
            <4> QED
                BY <1>1, <1>2, <3>1, <4>1, Leaves
        <3>7. <<>> \o <<>> = <<>>
            <4>1. <<>> \in Seq(Nat)
                BY EmptySeq
            <4> QED
                BY <4>1, ConcatEmptySeq
        <3> QED
            BY <2>1, <2>2, <3>5, <3>6, <3>7, BodyThere
    <2>4. msg' = msg
        BY <1>1, <1>2, <2>3, NothingRead
    <2>5. ~IsRequest(msg)
        BY <1>1, <1>3, <1>5 DEF RequestsInv, Spent, Idle
    <2> QED
        BY <2>4, <2>5
<1>6. Spent'
    BY <1>5 DEF Spent, IsRequest
<1> QED
    BY <1>4, <1>6

\* Where what is behind a sequence stands.
LEMMA Behind ==
    ASSUME NEW h \in Seq(Msg), NEW u \in Seq(Msg), u # <<>>
    PROVE  /\ Len(h) \in Nat /\ Len(h) + 1 \in 1 .. Len(h \o u)
           /\ (h \o u)[Len(h) + 1] = u[1]
           /\ \A i \in 1 .. Len(h) : i \in 1 .. Len(h \o u) /\ (h \o u)[i] = h[i]
<1> DEFINE k == Len(h)
           n == Len(u)
           s == h \o u
<1>1. k \in Nat /\ n \in Nat /\ n # 0
    BY LenProperties, EmptySeq
<1>2. /\ Len(s) = k + n
      /\ \A i \in 1 .. k + n : s[i] = IF i <= k THEN h[i] ELSE u[i - k]
    BY ConcatProperties
<1> HIDE DEF k, n, s
<1>3. k + 1 \in 1 .. k + n /\ k + 1 - k = 1 /\ ~(k + 1 <= k)
    BY <1>1
<1>4. s[k + 1] = u[1]
    <2>1. ASSUME NEW j \in 1 .. k + n, j = k + 1 PROVE s[j] = u[1]
        <3>1. ~(j <= k) /\ j - k = 1
            BY <1>1, <2>1
        <3>2. s[j] = IF j <= k THEN h[j] ELSE u[j - k]
            BY <1>2
        <3> QED
            BY <3>1, <3>2
    <2> QED
        BY <1>3, <2>1
<1>5. ASSUME NEW i \in 1 .. k PROVE i \in 1 .. Len(s) /\ s[i] = h[i]
    <2>1. i \in 1 .. k + n /\ i <= k
        BY <1>1
    <2> QED
        BY <1>2, <2>1
<1>6. k + 1 \in 1 .. Len(s)
    BY <1>2, <1>3
<1> QED
    BY <1>1, <1>4, <1>5, <1>6 DEF k, s

\* Where the next message stands among those sent.
LEMMA NextIs ==
    ASSUME NEW h \in Seq(Msg), NEW r \in Msg, NEW t \in Seq(Msg), NEW s, s = h \o (<<r>> \o t)
    PROVE  /\ Len(h) \in Nat /\ Len(h) + 1 \in 1 .. Len(s) /\ s[Len(h) + 1] = r
           /\ \A i \in 1 .. Len(h) : i \in 1 .. Len(s) /\ s[i] = h[i]
<1> DEFINE u == <<r>> \o t
<1>1. <<r>> \in Seq(Msg) /\ Len(<<r>>) = 1 /\ <<r>>[1] = r
    OBVIOUS
<1>2. u \in Seq(Msg) /\ u # <<>> /\ u[1] = r
    <2>1. Len(t) \in Nat
        BY LenProperties
    <2>2. 1 \in 1 .. 1 + Len(t)
        BY <2>1
    <2>3. /\ u \in Seq(Msg) /\ Len(u) = Len(<<r>>) + Len(t)
          /\ \A i \in 1 .. Len(<<r>>) + Len(t) : u[i] = IF i <= Len(<<r>>) THEN <<r>>[i] ELSE t[i - Len(<<r>>)]
        BY <1>1, ConcatProperties
    <2>4. u[1] = <<r>>[1]
        BY <1>1, <2>2, <2>3
    <2>5. Len(u) # 0
        BY <1>1, <2>1, <2>3
    <2>6. u # <<>>
        <3> HIDE DEF u
        <3> QED
            BY <2>5, EmptySeq
    <2> QED
        BY <1>1, <2>3, <2>4, <2>6
<1>3. s = h \o u
    BY DEF u
<1> HIDE DEF u
<1> QED
    BY <1>2, <1>3, Behind

\* What has been dispatched stays so, and the message dispatched is added.
LEMMA DispatchedGrows ==
    ASSUME handled["oml"] \in Seq(Msg), NEW r \in Msg,
           handled'["oml"] = handled["oml"] \/ handled'["oml"] = Append(handled["oml"], r)
    PROVE  /\ \A n : Dispatched(n) => Dispatched(n)'
           /\ handled'["oml"] = Append(handled["oml"], r) /\ IsOml(r) => Dispatched(r[4])'
<1> DEFINE h == handled["oml"]
           g == handled'["oml"]
           k == Len(h)
<1>1. h \in Seq(Seq(Nat)) /\ r \in Seq(Nat) /\ k \in Nat
    BY MsgSeqs, MsgProperties, LenProperties
<1> HIDE DEF h
<1>2. /\ Len(Append(h, r)) = k + 1 /\ Append(h, r)[k + 1] = r
      /\ \A i \in 1 .. k : Append(h, r)[i] = h[i]
    BY <1>1, AppendProperties
<1>3. g = h \/ g = Append(h, r)
    BY DEF h
<1>4. \A n : Dispatched(n) <=> \E i \in 1 .. k : IsOml(h[i]) /\ h[i][4] = n
    BY DEF Dispatched, h
<1>5. \A n : Dispatched(n)' <=> \E i \in 1 .. Len(g) : IsOml(g[i]) /\ g[i][4] = n
    BY DEF Dispatched, IsOml
<1> HIDE DEF g, k
<1>6. ASSUME NEW n, Dispatched(n) PROVE Dispatched(n)'
    <2>1. PICK i \in 1 .. k : IsOml(h[i]) /\ h[i][4] = n
        BY <1>4, <1>6
    <2>2. i \in 1 .. Len(g) /\ g[i] = h[i]
        <3>1. CASE g = h
            BY <3>1 DEF k
        <3>2. CASE g = Append(h, r)
            <4>1. i \in 1 .. k + 1
                BY <1>1
            <4> QED
                BY <1>2, <3>2, <4>1
        <3> QED
            BY <1>3, <3>1, <3>2
    <2> QED
        BY <1>5, <2>1, <2>2
<1>7. ASSUME g = Append(h, r), IsOml(r) PROVE Dispatched(r[4])'
    <2>1. k + 1 \in 1 .. k + 1
        BY <1>1
    <2>2. k + 1 \in 1 .. Len(g) /\ g[k + 1] = r
        BY <1>2, <1>7, <2>1
    <2> QED
        BY <1>5, <1>7, <2>2
<1> QED
    BY <1>6, <1>7 DEF g, h

\* A request is dispatched for the first time.
LEMMA FirstTime ==
    ASSUME RequestsInv, NEW l \in Links, NEW r \in Msg, NEW t \in Seq(Msg),
           Dispatches(l, r, t), IsOml(r), short = {}
    PROVE  /\ l = "oml" /\ Len(r) = 4 /\ r[1] = 2
           /\ r[4] \in Numbers => requests[r[4]] = 0
<1>1. LinkTyped /\ WellNumbered
    BY DEF RequestsInv, StreamsInv
<1> DEFINE h == handled[l]
           s == sent[l]
           k == Len(h)
<1>2. h \in Seq(Msg) /\ s = h \o (<<r>> \o t)
    BY DEF Dispatches
<1>3. /\ k \in Nat /\ k + 1 \in 1 .. Len(s) /\ s[k + 1] = r
      /\ \A i \in 1 .. k : i \in 1 .. Len(s) /\ s[i] = h[i]
    <2> HIDE DEF h, s
    <2> QED
        BY <1>2, NextIs
<1>4. l = "oml"
    <2>1. l = "rsl" => ~IsOml(r)
        BY <1>1, <1>3 DEF WellNumbered, NoOmlOnRsl
    <2> QED
        BY <2>1 DEF Links
<1>5. Len(r) = 4
    BY <1>1, <1>3, <1>4 DEF WellNumbered, OmlNumbered
<1>6. r[1] = 2
    <2>1. Len(r) = 2 + r[1] /\ (r[1] = 1 \/ r[1] = 2)
        BY MsgProperties
    <2>2. r[1] = 1 => Len(r) = 3
        BY <2>1
    <2> QED
        BY <1>5, <2>1, <2>2
<1>7. ASSUME r[4] \in Numbers PROVE requests[r[4]] = 0
    <2>1. SUFFICES ASSUME requests[r[4]] # 0 PROVE FALSE
        OBVIOUS
    <2>2. Dispatched(r[4])
        BY <1>7, <2>1 DEF RequestsInv, Once
    <2>3. PICK i \in 1 .. k : IsOml(h[i]) /\ h[i][4] = r[4]
        BY <1>4, <2>2 DEF Dispatched
    <2>4. i \in 1 .. Len(s) /\ s[i] = h[i] /\ i < k + 1
        BY <1>3
    <2>5. s[i][4] < s[k + 1][4]
        BY <1>1, <1>3, <1>4, <2>3, <2>4 DEF WellNumbered, OmlInOrder
    <2>6. s[k + 1][4] < s[k + 1][4]
        BY <1>3, <2>3, <2>4, <2>5
    <2>7. r[4] \in Nat
        <3>1. r \in Seq(Nat) /\ 4 \in 1 .. Len(r)
            BY <1>5, MsgProperties
        <3> QED
            BY <3>1, ElementOfSeq
    <2> QED
        BY <1>3, <2>6, <2>7
<1> QED
    BY <1>4, <1>5, <1>6, <1>7

\* What the handlers do to a request and to the buffer.
LEMMA HandlerKinds ==
    ASSUME LinkTyped, NEW l \in Links, ReadBody(l)
    PROVE  \/ ~IsRequest(Read(l)) /\ ~IsRequest(msg') /\ requests' = requests
           \/ /\ IsRequest(Read(l)) /\ ~IsRequest(msg')
              /\ requests' = IF Read(l)[4] \in Numbers
                             THEN [requests EXCEPT ![Read(l)[4]] = @ + 1] ELSE requests
<1> DEFINE m == Read(l)
<1>1. m \in [1 .. BufferLength -> Nat]
    <2>1. HeadLength + 1 \in Nat \ {0}
        BY DEF HeadLength
    <2> QED
        BY <2>1, FirstByte, RecvTyped DEF Read
<1> HIDE DEF m
<1>2. Plain(l, m) \/ Request(l, m) \/ RslConnect(l, m) \/ SetBtsAttr(l, m)
    BY DEF ReadBody, Handles, m
<1>3. CASE Plain(l, m)
    <2>1. ~IsRequest(m) /\ msg' = m /\ requests' = requests
        BY <1>3 DEF Plain, IsRequest
    <2> QED
        BY <2>1 DEF m
<1>4. CASE SetBtsAttr(l, m)
    <2>1. ~IsRequest(m) /\ msg' = m /\ requests' = requests
        BY <1>4 DEF SetBtsAttr, IsRequest, REQUEST, SET_ATTR
    <2> QED
        BY <2>1 DEF m
<1>5. CASE Request(l, m)
    <2>1. msg' = Reply(m) /\ IsRequest(m)
        BY <1>5 DEF Request, IsRequest
    <2>2. ~IsRequest(msg')
        BY <1>1, <2>1, ReplyIsNoRequest
    <2>3. requests' = IF m[4] \in Numbers THEN [requests EXCEPT ![m[4]] = @ + 1] ELSE requests
        BY <1>5 DEF Request
    <2> QED
        BY <2>1, <2>2, <2>3 DEF m
<1>6. CASE RslConnect(l, m)
    <2>1. ~IsRequest(m) /\ requests' = requests
        BY <1>6 DEF RslConnect, IsRequest, REQUEST, RSL_CONNECT
    <2>2. msg' = m \/ msg' = Reply(m)
        BY <1>6 DEF RslConnect
    <2>3. ~IsRequest(msg')
        <3>1. CASE msg' = m
            BY <2>1, <3>1
        <3>2. CASE msg' = Reply(m)
            BY <1>1, <3>2, ReplyIsNoRequest
        <3> QED
            BY <2>2, <3>1, <3>2
    <2> QED
        BY <2>1, <2>3 DEF m
<1> QED
    BY <1>2, <1>3, <1>4, <1>5, <1>6

\* A request is dispatched when it was read, and then for the first time.
LEMMA BodyRequests ==
    ASSUME RequestsInv, StreamsInv', NEW l \in Links, ReadBody(l)
    PROVE  Once' /\ Spent'
<1>1. /\ short' = ShortOf(l, msg[1]) /\ Record(l, Read(l))
      /\ reading' = "none" /\ reading = l
    BY DEF ReadBody
<1>2. LinkTyped /\ StreamsInv /\ msg[1] \in Nat /\ HeadLength + 1 \in Nat
    BY FirstByte DEF RequestsInv, StreamsInv, HeadLength
<1>3. short' = {} => short = {}
    BY <1>1 DEF ShortOf
<1>4. \/ ~IsRequest(Read(l)) /\ ~IsRequest(msg') /\ requests' = requests
      \/ /\ IsRequest(Read(l)) /\ ~IsRequest(msg')
         /\ requests' = IF Read(l)[4] \in Numbers
                        THEN [requests EXCEPT ![Read(l)[4]] = @ + 1] ELSE requests
    BY <1>2, HandlerKinds
<1>5. ~IsRequest(msg')
    BY <1>4
<1>6. Spent'
    BY <1>5 DEF Spent, IsRequest
<1>7. CASE l \in closed /\ arrived[l] = <<>>
    <2>1. handled' = handled
        BY <1>1, <1>2, <1>7, Recorded
    <2>2. Read(l) = msg
        BY <1>2, <1>7, NothingRead DEF Read
    <2>3. ASSUME short = {} PROVE requests' = requests
        <3>1. ~IsRequest(msg)
            BY <1>1, <1>7, <2>3 DEF RequestsInv, Spent, Idle
        <3> QED
            BY <1>4, <2>2, <3>1
    <2>4. Once'
        BY <1>3, <2>1, <2>3 DEF RequestsInv, Once, Dispatched, IsOml
    <2> QED
        BY <1>6, <2>4
<1>8. CASE ~(l \in closed /\ arrived[l] = <<>>)
    <2> SUFFICES ASSUME short' = {}, NEW n \in Numbers
                 PROVE  requests'[n] = 0 \/ (requests'[n] = 1 /\ Dispatched(n)')
        BY <1>6 DEF Once
    <2>1. PICK r \in Msg, t \in Seq(Msg) : Dispatches(l, r, t)
        BY <1>2, <1>8, DispatchesNext
    <2>2. short = {} /\ (requests[n] = 0 \/ (requests[n] = 1 /\ Dispatched(n)))
        BY <1>3 DEF RequestsInv, Once
    <2>3. /\ handled["oml"] \in Seq(Msg)
          /\ handled'["oml"] = handled["oml"] \/ handled'["oml"] = Append(handled["oml"], r)
          /\ l = "oml" => handled'["oml"] = Append(handled["oml"], r)
        <3>1. "oml" \in Links
            BY DEF Links
        <3>2. handled["oml"] \in Seq(Msg)
            BY <1>2, <2>2, <3>1 DEF StreamsInv, AllKept, Kept
        <3>3. l # "oml" => handled'["oml"] = handled["oml"]
            BY <1>1, <1>2, <3>1, Recorded
        <3> QED
            BY <2>1, <3>2, <3>3 DEF Dispatches
    <2>4. /\ Dispatched(n) => Dispatched(n)'
          /\ l = "oml" /\ IsOml(r) => Dispatched(r[4])'
        BY <2>3, DispatchedGrows
    <2>5. CASE requests' = requests
        BY <2>2, <2>4, <2>5
    <2>6. CASE requests' # requests
        <3>1. /\ IsRequest(Read(l)) /\ Read(l)[4] \in Numbers
              /\ requests' = [requests EXCEPT ![Read(l)[4]] = @ + 1]
            BY <1>4, <2>6
        <3>2. Read(l)[2] = r[2]
            <4>1. r[1] \in 1 .. 2
                BY MsgProperties
            <4>2. 2 \in 1 .. 2 + r[1]
                BY <4>1
            <4> QED
                BY <2>1, <4>2 DEF Dispatches
        <3>3. IsOml(r)
            BY <3>1, <3>2 DEF IsOml, IsRequest
        <3>4. /\ l = "oml" /\ r[1] = 2
              /\ r[4] \in Numbers => requests[r[4]] = 0
            BY <2>1, <2>2, <3>3, FirstTime
        <3>5. Read(l)[4] = r[4]
            <4>1. 4 \in 1 .. 2 + r[1]
                BY <3>4
            <4> QED
                BY <2>1, <4>1 DEF Dispatches
        <3>6. requests \in [Numbers -> Nat]
            BY <1>2 DEF LinkTyped
        <3>7. CASE n = r[4]
            <4>1. requests'[n] = 0 + 1
                BY <3>1, <3>4, <3>5, <3>6, <3>7
            <4> QED
                BY <2>4, <3>3, <3>4, <3>7, <4>1
        <3>8. CASE n # r[4]
            <4>1. requests'[n] = requests[n]
                BY <3>1, <3>5, <3>6, <3>8
            <4> QED
                BY <2>2, <2>4, <4>1
        <3> QED
            BY <3>7, <3>8
    <2> QED
        BY <2>5, <2>6
<1> QED
    BY <1>7, <1>8

\* No request has been carried out yet.
LEMMA RequestsInit ==
    ASSUME AbisInit
    PROVE  RequestsInv
<1>1. StreamsInv
    BY LinksInit
<1>2. sent["oml"] = <<>> /\ sent["rsl"] = <<>> /\ Len(<<>>) = 0
    BY EmptySeq DEF AbisInit, Links
<1>3. WellNumbered
    BY <1>2 DEF WellNumbered, OmlNumbered, OmlInOrder, NoOmlOnRsl
<1>4. \A n \in Numbers : requests[n] = 0
    BY DEF AbisInit
<1>5. Once
    BY <1>4 DEF Once
<1>6. msg[2] = 0
    <2>1. 2 \in 1 .. BufferLength
        BY MessagesAssumption, BufferAssumption
    <2> QED
        BY <2>1 DEF AbisInit
<1>7. Spent
    BY <1>6 DEF Spent, IsRequest, PROTO_OML
<1> QED
    BY <1>1, <1>3, <1>5, <1>7 DEF RequestsInv

\* The invariant of the requests is inductive.
LEMMA RequestsStep ==
    ASSUME RequestsInv, [AbisNext]_abisVars
    PROVE  RequestsInv'
<1>1. StreamsInv'
    BY LinkStep DEF RequestsInv
<1>2. WellNumbered'
    BY NumberedStep DEF RequestsInv
<1>3. ASSUME NEW l \in Links, BscSends(l) \/ Delivered(l) \/ BscCloses(l) \/ SocketInit(l)
      PROVE  Once' /\ Spent'
    BY <1>3, PeerRequests
<1>4. ASSUME NEW l \in Links, ReadHead(l) \/ ReadBody(l)
      PROVE  Once' /\ Spent'
    BY <1>1, <1>4, HeadRequests, BodyRequests
<1>5. ASSUME Walks \/ SetBtsAttrAck \/ UNCHANGED abisVars
      PROVE  Once' /\ Spent'
    BY <1>5, WalkRequests
<1>6. Once' /\ Spent'
    BY <1>3, <1>4, <1>5 DEF AbisNext, Bsc
<1> QED
    BY <1>1, <1>2, <1>6 DEF RequestsInv

\* NoRequestTwice.
THEOREM NoRequestIsRepeated == AbisSpec => []NoRequestTwice
<1>1. AbisInit => RequestsInv
    BY RequestsInit
<1>2. RequestsInv /\ [AbisNext]_abisVars => RequestsInv'
    BY RequestsStep
<1>3. RequestsInv => NoRequestTwice
    BY DEF RequestsInv, Once, NoRequestTwice
<1> QED
    BY <1>1, <1>2, <1>3, PTL DEF AbisSpec
=============================================================================
