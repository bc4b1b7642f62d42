----------------------------- MODULE StreamTransfer -----------------------------
(***************************************************************************)
(* Synchronous read() and write() of PosixDescriptor on the two ends of a  *)
(* stream (a Pipe, a FIFO or a connected socket): do_read() and do_write() *)
(* call ::read() and ::write() until the size asked for is transferred,    *)
(* each of which may transfer less than it is asked for and may block.     *)
(* Nothing locks a descriptor, so that several threads may use one end.    *)
(*                                                                         *)
(* A byte is <<w, i>>, the i-th byte that writer w has to send.  A writer  *)
(* goes on after a write() from where its result says; a reader takes the  *)
(* number of bytes that its read() returned out of its buffer.  A call     *)
(* that throws ends the thread.                                            *)
(***************************************************************************)
EXTENDS Integers, Sequences, SequencesExt, FiniteSets, FiniteSetsExt

CONSTANTS
    Writer, Reader,   \* threads that use the two ends
    Capacity,         \* bytes the kernel keeps between the ends
    MaxSize,          \* bound on the size of one call; readers have buffers of this size
    MaxBytes          \* bound on the bytes the writers send together

ASSUME ThreadAssumption == Writer \cap Reader = {}
ASSUME SizeAssumption   == Capacity \in Nat \ {0} /\ MaxSize \in Nat /\ MaxBytes \in Nat

Thread == Writer \cup Reader
Byte   == Writer \X (1..MaxBytes)
Empty  == <<>>

VARIABLES
    stream,     \* the bytes the kernel keeps, oldest first
    writeEnd,   \* the writers that have not closed their descriptor
    call,       \* the call each thread is in
    size,       \* the argument size
    remaining,  \* the local variable remaining
    buffer,     \* the memory each reader's call fills
    reported,   \* the bytes each writer's calls said they had written
    log         \* the bytes each reader took out of its buffer, in order

streamVars == <<stream, writeEnd, call, size, remaining, buffer, reported, log>>

\* size-remaining: the result, and the offset of the next transfer.
Transferred(t) == size[t] - remaining[t]

Free == [i \in 1..MaxSize |-> Empty]

StreamInit ==
    /\ stream = <<>>
    /\ writeEnd = Writer
    /\ call = [t \in Thread |-> "ready"]
    /\ size = [t \in Thread |-> 0]
    /\ remaining = [t \in Thread |-> 0]
    /\ buffer = [r \in Reader |-> Free]
    /\ reported = [w \in Writer |-> 0]
    /\ log = [r \in Reader |-> <<>>]

Enter(t, place) == call' = [call EXCEPT ![t] = place]

\* The local variables of a call that has returned are gone.
Return(t) ==
    /\ Enter(t, "ready")
    /\ size' = [size EXCEPT ![t] = 0]
    /\ remaining' = [remaining EXCEPT ![t] = 0]

\* The beginning of a call.  One of size 0 returns 0 at once, and one of more than the size of
\* the Buffer returns -1: they change nothing and are left out.
Begin(t, place, n) ==
    /\ call[t] = "ready"
    /\ Enter(t, place)
    /\ size' = [size EXCEPT ![t] = n]
    /\ remaining' = [remaining EXCEPT ![t] = n]

--------------------------------------------------------------------------------
(* write().                                                                  *)

Accounted == MapThenSumSet(LAMBDA w : reported[w] + size[w], Writer)

CallWrite(w) ==
    /\ w \in writeEnd
    /\ \E n \in 1..MaxSize : Accounted + n <= MaxBytes /\ Begin(w, "write", n)
    /\ UNCHANGED <<stream, writeEnd, buffer, reported, log>>

\* ::write() takes some of the remaining bytes, from the offset that was reached.
WriteSome(w) ==
    /\ call[w] = "write"
    /\ \E k \in 1..remaining[w] :
        /\ Len(stream) + k <= Capacity
        /\ stream' = stream \o [i \in 1..k |-> <<w, reported[w] + Transferred(w) + i>>]
        /\ remaining' = [remaining EXCEPT ![w] = @ - k]
    /\ UNCHANGED <<writeEnd, call, size, buffer, reported, log>>

\* do_write() returns size-remaining.
Written(w) ==
    /\ call[w] = "write"
    /\ Return(w)
    /\ reported' = [reported EXCEPT ![w] = @ + Transferred(w)]
    /\ UNCHANGED <<stream, writeEnd, buffer, log>>

WriteReturns(w) == remaining[w] = 0 /\ Written(w)

\* ::write() returned 0: the loop is left with part of the data written.
WriteStops(w) == remaining[w] > 0 /\ Written(w)

\* The program closes the writer's descriptor.
CloseWriteEnd(w) ==
    /\ call[w] \in {"ready", "threw"}
    /\ writeEnd' = writeEnd \ {w}
    /\ UNCHANGED <<stream, call, size, remaining, buffer, reported, log>>

--------------------------------------------------------------------------------
(* read().                                                                   *)

CallRead(r) ==
    /\ \E n \in 1..MaxSize : Begin(r, "read", n)
    /\ UNCHANGED <<stream, writeEnd, buffer, reported, log>>

\* ::read() puts k bytes behind the first "offset" ones of the buffer.
Fill(r, offset, k) ==
    /\ k <= Len(stream)
    /\ buffer' = [buffer EXCEPT ![r] =
            [i \in 1..MaxSize |-> IF i \in offset + 1 .. offset + k THEN stream[i - offset] ELSE @[i]]]
    /\ stream' = SubSeq(stream, k + 1, Len(stream))

\* Mutant of ReadSome: every ::read() fills the buffer from its beginning.
ReadSome_FromStart(r) ==
    /\ call[r] = "read"
    /\ \E k \in 1..remaining[r] :
        /\ Fill(r, 0, k)
        /\ remaining' = [remaining EXCEPT ![r] = @ - k]
    /\ UNCHANGED <<writeEnd, call, size, reported, log>>

\* ::read() gives some of the bytes that remain, behind those it gave before.
ReadSome(r) ==
    /\ call[r] = "read"
    /\ \E k \in 1..remaining[r] :
        /\ Fill(r, Transferred(r), k)
        /\ remaining' = [remaining EXCEPT ![r] = @ - k]
    /\ UNCHANGED <<writeEnd, call, size, reported, log>>

\* do_read() returns size-remaining; the program takes that many bytes.
ReadDone(r) ==
    /\ call[r] = "read"
    /\ Return(r)
    /\ log' = [log EXCEPT ![r] = @ \o SubSeq(buffer[r], 1, Transferred(r))]
    /\ buffer' = [buffer EXCEPT ![r] = Free]
    /\ UNCHANGED <<stream, writeEnd, reported>>

\* Mutant of ReadReturns: a ::read() that gave less than it was asked for ends the loop.
ReadReturns_AfterShort(r) == Transferred(r) > 0 /\ ReadDone(r)

ReadReturns(r) == remaining[r] = 0 /\ ReadDone(r)

\* Mutant of ReadEndOfFile: the loop goes on.
ReadEndOfFile_Loops(r) ==
    /\ call[r] = "read" /\ remaining[r] > 0
    /\ stream = <<>> /\ writeEnd = {}
    /\ UNCHANGED streamVars

\* ::read() returned 0: every writer has closed and nothing is left.
ReadEndOfFile(r) ==
    /\ remaining[r] > 0
    /\ stream = <<>> /\ writeEnd = {}
    /\ ReadDone(r)

\* ::read() or ::write() failed: the loop throws, and the count is lost.
Throws(t) ==
    /\ call[t] \in {"read", "write"}
    /\ remaining[t] > 0
    /\ Enter(t, "threw")
    /\ UNCHANGED <<stream, writeEnd, size, remaining, buffer, reported, log>>

--------------------------------------------------------------------------------
WriteStep(w) == WriteSome(w) \/ WriteReturns(w)
ReadStep(r)  == ReadSome(r) \/ ReadReturns(r) \/ ReadEndOfFile(r)

StreamNext ==
    \/ \E w \in Writer : CallWrite(w) \/ WriteStep(w) \/ WriteStops(w) \/ CloseWriteEnd(w)
    \/ \E r \in Reader : CallRead(r) \/ ReadStep(r)
    \/ \E t \in Thread : Throws(t)

StreamSpec == StreamInit /\ [][StreamNext]_streamVars

\* The kernel serves every thread that is blocked on the stream again and again.
StreamFairness ==
    /\ \A w \in Writer : SF_streamVars(WriteStep(w))
    /\ \A r \in Reader : SF_streamVars(ReadStep(r))

FairStreamSpec == StreamSpec /\ StreamFairness

--------------------------------------------------------------------------------
StreamTypeOK ==
    /\ stream \in Seq(Byte) /\ Len(stream) <= Capacity
    /\ writeEnd \subseteq Writer
    /\ call \in [Thread -> {"ready", "read", "write", "threw"}]
    /\ size \in [Thread -> 0..MaxSize]
    /\ remaining \in [Thread -> 0..MaxSize]
    /\ \A t \in Thread : remaining[t] <= size[t]
    /\ buffer \in [Reader -> [1..MaxSize -> Byte \cup {Empty}]]
    /\ reported \in [Writer -> 0..MaxBytes]
    /\ log \in [Reader -> Seq(Byte)]

\* What a writer's calls have put into the stream, by their results and, for the call it
\* is in or that threw, by its local variables.
Sent(w) == reported[w] + Transferred(w)

\* What a reader holds: what it took out, and the part of its buffer that is filled.
Held(r) == log[r] \o SubSeq(buffer[r], 1, Transferred(r))

\* The numbers of w's bytes in a sequence.
Numbers(w, s) == {b[2] : b \in {c \in ToSet(s) : c # Empty /\ c[1] = w}}

\* The bytes of each writer stand in the order they were written, and none twice.
InOrder(s) ==
    \A i, k \in DOMAIN s : i < k /\ s[i][1] = s[k][1] => s[i][2] < s[k][2]

\* Every byte a write() counted is in the stream or in the hands of exactly one reader, once,
\* and no other byte is; each reader gets a writer's bytes in the order they were written, and
\* the stream keeps the last ones.  Partial transfers, end of file and exceptions of other
\* threads change nothing in that.
OnceInOrder ==
    /\ \A r \in Reader : Empty \notin ToSet(Held(r)) /\ InOrder(Held(r))
    /\ InOrder(stream)
    /\ \A w \in Writer :
        /\ \E before \in 0..Sent(w) :
            /\ Numbers(w, stream) = before + 1 .. Sent(w)
            /\ UNION {Numbers(w, Held(r)) : r \in Reader} = 1..before
        /\ \A r, q \in Reader : r # q => Numbers(w, Held(r)) \cap Numbers(w, Held(q)) = {}

\* A read() that returns less than it was asked for says that the data is over: every byte
\* any writer has put into the stream is then in the hands of the readers, and none follows.
ShortOnlyAtEnd ==
    [][\A r \in Reader : call[r] = "read" /\ call'[r] = "ready" /\ remaining[r] > 0 =>
        writeEnd = {} /\ \A w \in Writer : 1..Sent(w) \subseteq
            UNION {Numbers(w, Held(q)) : q \in Reader}]_streamVars

\* "It can block the caller": a reader in read() while a writer is in write(), or after the
\* last writer has closed, does not wait for ever; one of the two calls ends.
TransfersEnd ==
    \A r \in Reader, w \in Writer :
        call[r] = "read" /\ (call[w] = "write" \/ writeEnd = {}) ~>
            call[r] # "read" \/ (call[w] # "write" /\ writeEnd # {})

--------------------------------------------------------------------------------
(* What a comment says and the code does not do.                             *)

\* "@exception runtime_error if the ::write() returns 0 or an error": a write() that does
\* not throw has written everything.
WritesAllOrThrows ==
    [][\A w \in Writer : call[w] = "write" /\ call'[w] = "ready" => remaining[w] = 0]_streamVars
================================================================================
