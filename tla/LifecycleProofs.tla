-------------------------- MODULE LifecycleProofs ---------------------------
(* What holds of boot and shutdown for any parts, closers and work, inside  *)
(* a service that logs: Shutdown, and AppLifecycle as it instantiates it.   *)
(* The log sink comes first, by itself (LogSink).                           *)
EXTENDS LogSink, Shutdown, TLAPS

-----------------------------------------------------------------------------
(* LogSink: the batches partition what left the buffer, in order, for any   *)
(* batch size, any callers of flush() and any number of records.            *)

\* Batches lie one behind the other, up to what was taken, and no later one has an
\* earlier key.
InLine ==
    /\ \A b \in Batches : b.first <= b.last /\ b.last <= taken /\ b.key <= clock
    /\ \A b, c \in Batches :
           \/ b = c
           \/ b.last < c.first /\ b.key <= c.key
           \/ c.last < b.first /\ c.key <= b.key

\* Everything taken out of the buffer is in a batch.
Covered == \A n \in Record : n <= taken => \E b \in Batches : Holds(b, n)

\* A flush() waits for one batch at most, and had no more to take than was taken.
OneWait ==
    \A f \in Flusher :
        /\ mark[f] <= taken
        /\ waits[f] \subseteq Batches
        /\ \A x, y \in waits[f] : x = y

IInv == TypeOK /\ InLine /\ Covered /\ OneWait /\ FlushAnswers

\* The initial state satisfies the invariant.
LEMMA InitIInv == Init => IInv
  <1> SUFFICES ASSUME Init PROVE IInv
      OBVIOUS
  <1> USE SinkAssumption
  <1>1. TypeOK
      BY DEF Init, TypeOK
  <1>2. InLine /\ Covered /\ OneWait /\ FlushAnswers
      BY DEF Init, InLine, Covered, OneWait, FlushAnswers, Batches, Record
  <1> QED BY <1>1, <1>2 DEF IInv

\* A batch of all that is in the buffer keeps the line in order.
LEMMA NewBatchInLine ==
    ASSUME IInv, NEW n \in Record, taken < n, taken' = n, clock' = clock,
           Batches' = Batches \cup {BatchUpTo(n)}
    PROVE  BatchUpTo(n) \in Batch /\ BatchUpTo(n) \notin Batches /\ InLine' /\ Covered'
  <1> DEFINE new == BatchUpTo(n)
  <1> USE SinkAssumption
  <1>0. /\ new.first = taken + 1 /\ new.last = n /\ new.key = clock
        /\ taken \in Nat /\ n \in Nat /\ clock \in 0..MaxTime
        /\ Batches \subseteq Batch /\ Batches' = Batches \cup {new}
      BY DEF BatchUpTo, IInv, TypeOK, Record, Batches
  <1>1. new \in Batch
      BY <1>0 DEF BatchUpTo, Batch, Record
  <1>2. \A b \in Batches : b.first \in Nat /\ b.last \in Nat /\ b.key \in Nat
      BY <1>0 DEF Batch, Record
  <1>3. \A b \in Batches : b.last < new.first /\ b.key <= new.key
      BY <1>0, <1>2 DEF IInv, InLine
  <1>4. new \notin Batches
      BY <1>0, <1>2, <1>3 DEF IInv, InLine
  <1> HIDE DEF new
  <1>5. InLine'
    <2>1. \A b \in Batches' : b.first <= b.last /\ b.last <= taken' /\ b.key <= clock'
        BY <1>0, <1>2 DEF IInv, InLine
    <2>2. \A b, c \in Batches' : \/ b = c
                                 \/ b.last < c.first /\ b.key <= c.key
                                 \/ c.last < b.first /\ c.key <= b.key
        BY <1>0, <1>3 DEF IInv, InLine
    <2> QED BY <2>1, <2>2 DEF InLine
  <1>6. Covered'
    <2> SUFFICES ASSUME NEW m \in Record, m <= n
                 PROVE  \E b \in Batches' : Holds(b, m)
        BY DEF Covered
    <2>1. CASE m <= taken
        BY <2>1 DEF IInv, Covered
    <2>2. CASE m > taken
        BY <1>0, <2>2 DEF Holds, Record
    <2> QED BY <1>0, <2>1, <2>2 DEF Record
  <1> QED BY <1>1, <1>4, <1>5, <1>6 DEF new

\* A batch whose put is answered is still one of the batches.
LEMMA AnsweredInLine ==
    ASSUME IInv, Batches' = Batches, UNCHANGED <<taken, clock, mark, waits>>
    PROVE  InLine' /\ Covered' /\ OneWait'
  <1>1. InLine'
      BY DEF IInv, InLine
  <1>2. Covered'
      BY DEF IInv, Covered
  <1>3. OneWait'
      BY DEF IInv, OneWait
  <1> QED BY <1>1, <1>2, <1>3

\* A write lengthens the buffer, or sends all of it.
LEMMA WriteIInv == ASSUME IInv, Write PROVE IInv'
  <1> USE SinkAssumption DEF Write, Splice
  <1>0. /\ written \in 0..MaxRecord /\ taken \in 0..written /\ written < MaxRecord
        /\ written' = written + 1
      BY DEF IInv, TypeOK
  <1>1. CASE written + 1 - taken >= FlushEvery
    <2>1. /\ written + 1 \in Record /\ taken < written + 1 /\ taken' = written + 1
          /\ Batches' = Batches \cup {BatchUpTo(written + 1)}
        BY <1>0, <1>1 DEF Record, Batches
    <2>2. /\ BatchUpTo(written + 1) \in Batch /\ BatchUpTo(written + 1) \notin Batches
          /\ InLine' /\ Covered'
        BY <2>1, NewBatchInLine
    <2>3. TypeOK'
        BY <1>0, <1>1, <2>1, <2>2 DEF IInv, TypeOK
    <2>4. \A f \in Flusher : mark[f] <= taken'
        BY <1>0, <2>1 DEF IInv, OneWait, TypeOK
    <2>5. OneWait'
        BY <2>1, <2>4 DEF IInv, OneWait
    <2>6. FlushAnswers'
        BY <1>1, <2>2, <2>4 DEF IInv, OneWait, FlushAnswers, TypeOK
    <2> QED BY <2>2, <2>3, <2>5, <2>6 DEF IInv
  <1>2. CASE ~(written + 1 - taken >= FlushEvery)
    <2>1. Batches' = Batches /\ UNCHANGED <<taken, clock, mark, waits, sending, done>>
        BY <1>2 DEF Batches
    <2>2. TypeOK'
        BY <1>0, <1>2 DEF IInv, TypeOK
    <2>3. FlushAnswers'
        BY <2>1 DEF IInv, FlushAnswers
    <2> QED BY <2>1, <2>2, <2>3, AnsweredInLine DEF IInv
  <1> QED BY <1>1, <1>2

\* A flush() returns at once from an empty buffer, or waits for the batch it sends.
LEMMA FlushIInv == ASSUME IInv, NEW f \in Flusher, Flush(f) PROVE IInv'
  <1> USE SinkAssumption DEF Flush, Splice, Await
  <1>0. /\ written \in 0..MaxRecord /\ taken \in 0..written
        /\ mark' = [mark EXCEPT ![f] = written] /\ mark' \in [Flusher -> 0..MaxRecord]
        /\ f \notin done /\ waits[f] = {}
      BY DEF IInv, TypeOK
  <1>1. CASE taken = written
    <2>1. Batches' = Batches /\ UNCHANGED <<taken, clock, written, waits, sending>>
        BY <1>1 DEF Batches
    <2>2. TypeOK'
        BY <1>0, <1>1 DEF IInv, TypeOK
    <2>3. InLine' /\ Covered'
        BY <2>1 DEF IInv, InLine, Covered
    <2>4. OneWait'
        BY <1>0, <1>1, <2>1 DEF IInv, TypeOK, OneWait
    <2>5. FlushAnswers'
        BY <1>0, <1>1, <2>1, <2>4 DEF IInv, OneWait, FlushAnswers
    <2> QED BY <2>2, <2>3, <2>4, <2>5 DEF IInv
  <1>2. CASE taken # written
    <2> DEFINE new == BatchUpTo(written)
    <2>1. /\ written \in Record /\ taken < written /\ taken' = written
          /\ clock' = clock /\ sending' = sending \cup {new}
          /\ waits' = [waits EXCEPT ![f] = {new}] /\ done' = done
        BY <1>0, <1>2 DEF Record
    <2>2. Batches' = Batches \cup {new}
        BY <2>1 DEF Batches
    <2>3. new \in Batch /\ new \notin Batches /\ InLine' /\ Covered'
        BY <2>1, <2>2, NewBatchInLine
    <2> HIDE DEF new
    <2>4. TypeOK'
      <3>1. waits' \in [Flusher -> SUBSET Batch]
          BY <2>1, <2>3 DEF IInv, TypeOK
      <3> QED BY <1>0, <2>1, <2>3, <3>1 DEF IInv, TypeOK
    <2>5. \A g \in Flusher : mark'[g] <= taken'
        BY <1>0, <2>1 DEF IInv, TypeOK, OneWait
    <2>6. OneWait'
        BY <2>1, <2>2, <2>5 DEF IInv, TypeOK, OneWait
    <2>7. FlushAnswers'
        BY <1>0, <2>1, <2>3, <2>5 DEF IInv, TypeOK, OneWait, FlushAnswers
    <2> QED BY <2>3, <2>4, <2>6, <2>7 DEF IInv
  <1> QED BY <1>1, <1>2

\* A put that is applied moves batches between the objects and the replaced.
LEMMA AppliedIInv == ASSUME IInv, NEW b \in sending, Applied(b) PROVE IInv'
  <1>0. /\ b \in Batch
        /\ UNCHANGED <<taken, clock, written, mark, waits, sending, failed, done>>
        /\ bucket' = {x \in bucket : x.key # b.key} \cup {b}
        /\ replaced' = replaced \cup {x \in bucket : x.key = b.key}
      BY DEF Applied, IInv, TypeOK
  <1>1. Batches' = Batches
      BY <1>0 DEF Batches
  <1>2. TypeOK'
      BY <1>0 DEF IInv, TypeOK
  <1>3. FlushAnswers'
      BY <1>0 DEF IInv, FlushAnswers
  <1> QED BY <1>0, <1>1, <1>2, <1>3, AnsweredInLine DEF IInv

\* A put that is answered, either way, releases the flush() that waits for it.
LEMMA AnsweredIInv == ASSUME IInv, NEW b \in sending, Sent(b) \/ SendFails(b) PROVE IInv'
  <1>0. /\ b \in Batch
        /\ UNCHANGED <<taken, clock, written, mark, waits, bucket, replaced>>
        /\ sending' = sending \ {b}
        /\ done' = done \cup {f \in Flusher : b \in waits[f]}
      BY DEF Sent, SendFails, Settles, IInv, TypeOK
  <1>1. Batches' = Batches
    <2>1. CASE Sent(b)
        BY <1>0, <2>1 DEF Sent, Batches
    <2>2. CASE SendFails(b)
        BY <1>0, <2>2 DEF SendFails, Batches
    <2> QED BY <2>1, <2>2
  <1>2. TypeOK'
    <2>1. failed' \subseteq Batch
        BY <1>0 DEF Sent, SendFails, IInv, TypeOK
    <2> QED BY <1>0, <2>1 DEF IInv, TypeOK
  <1>3. FlushAnswers'
      BY <1>0 DEF IInv, OneWait, FlushAnswers
  <1> QED BY <1>0, <1>1, <1>2, <1>3, AnsweredInLine DEF IInv

\* Later batches get later keys.
LEMMA TickIInv == ASSUME IInv, Tick PROVE IInv'
  <1> USE SinkAssumption
  <1>0. /\ Batches' = Batches
        /\ UNCHANGED <<taken, written, mark, waits, sending, done>>
        /\ clock \in Nat /\ clock' = clock + 1 /\ clock' \in 0..MaxTime
      BY DEF Tick, Batches, IInv, TypeOK
  <1>1. TypeOK'
      BY <1>0 DEF Tick, IInv, TypeOK
  <1>2. InLine'
    <2>1. \A b \in Batches : b.key \in Nat
        BY DEF IInv, TypeOK, Batches, Batch
    <2> QED BY <1>0, <2>1 DEF IInv, InLine
  <1>3. (Covered /\ OneWait /\ FlushAnswers)'
      BY <1>0 DEF IInv, Covered, OneWait, FlushAnswers
  <1> QED BY <1>1, <1>2, <1>3 DEF IInv

\* Every step, and a stutter, keeps the invariant.
LEMMA NextIInv == IInv /\ [Next]_vars => IInv'
  <1> SUFFICES ASSUME IInv, [Next]_vars PROVE IInv'
      OBVIOUS
  <1>1. CASE Next
      BY <1>1, WriteIInv, FlushIInv, AppliedIInv, AnsweredIInv, TickIInv DEF Next
  <1>2. CASE UNCHANGED vars
      BY <1>2 DEF vars, IInv, TypeOK, InLine, Covered, OneWait, FlushAnswers, Batches
  <1> QED BY <1>1, <1>2
-----------------------------------------------------------------------------
\* The inductive invariant holds throughout: the batches
\* stay a line of unbroken stretches (src/log/s3.ts).
THEOREM SpecIInv == Spec => []IInv
  BY InitIInv, NextIInv, PTL DEF Spec

\* Every reachable state of the sink has its type.
THEOREM SinkTypes == Spec => []TypeOK
  <1>1. IInv => TypeOK
      BY DEF IInv
  <1> QED BY <1>1, SpecIInv, PTL

\* createS3LogSink sends no record twice and drops none between the buffer and the
\* batches, however writes and flushes overlap.
THEOREM NothingTwice == Spec => []EachRecordOnce
  <1>1. IInv => EachRecordOnce
    <2> SUFFICES ASSUME IInv, NEW n \in Record
                 PROVE  /\ n <= taken => \E b \in Batches : Holds(b, n)
                        /\ \A b, c \in Batches : Holds(b, n) /\ Holds(c, n) => b = c
        BY DEF EachRecordOnce
    <2>1. n <= taken => \E b \in Batches : Holds(b, n)
        BY DEF IInv, Covered
    <2>2. ASSUME NEW b \in Batches, NEW c \in Batches, Holds(b, n), Holds(c, n)
          PROVE  b = c
      <3>1. b.first \in Int /\ b.last \in Int /\ c.first \in Int /\ c.last \in Int /\ n \in Int
          BY DEF IInv, TypeOK, Batches, Batch, Record
      <3> QED BY <2>2, <3>1 DEF IInv, InLine, Holds
    <2> QED BY <2>1, <2>2
  <1> QED BY <1>1, SpecIInv, PTL

\* Objects in key order hold the log in order, a rejected or replaced one apart.
THEOREM KeysInOrder == Spec => []KeysFollowRecords
  <1>1. IInv => KeysFollowRecords
    <2> SUFFICES ASSUME IInv, NEW b \in Batches, NEW c \in Batches, b.first < c.first
                 PROVE  b.last < c.first /\ b.key <= c.key
        BY DEF KeysFollowRecords
    <2>1. b.first \in Int /\ b.last \in Int /\ c.first \in Int /\ c.last \in Int
        BY DEF IInv, TypeOK, Batches, Batch, Record
    <2> QED BY <2>1 DEF IInv, InLine
  <1> QED BY <1>1, SpecIInv, PTL

\* A flush() that returned left nothing written before it in the buffer, and its own
\* batch has been answered.
THEOREM FlushIsAnswered == Spec => []FlushAnswers
  <1>1. IInv => FlushAnswers
      BY DEF IInv
  <1> QED BY <1>1, SpecIInv, PTL

-----------------------------------------------------------------------------
(* The step simulation: LogSink implements RecordLog.                        *)

\* A batch is being sent or has failed, not both, and an object is there or replaced.
Apart == sending \cap failed = {} /\ bucket \cap replaced = {}

SinkInv == IInv /\ Apart

\* Every step moves a batch on; a new one is none of those there are.
LEMMA SinkStep == SinkInv /\ [Next]_vars => SinkInv'
  <1> SUFFICES ASSUME SinkInv, [Next]_vars PROVE Apart'
      BY NextIInv DEF SinkInv
  <1> USE DEF SinkInv, Apart
  <1>1. CASE Write
    <2>1. CASE written + 1 - taken >= FlushEvery
      <3>1. /\ written + 1 \in Record /\ taken < written + 1 /\ taken' = written + 1
            /\ Batches' = Batches \cup {BatchUpTo(written + 1)} /\ clock' = clock
          BY <1>1, <2>1, SinkAssumption DEF Write, Splice, IInv, TypeOK, Record, Batches
      <3>2. BatchUpTo(written + 1) \notin Batches
          BY <3>1, NewBatchInLine
      <3> QED BY <1>1, <2>1, <3>2 DEF Write, Batches
    <2>2. CASE ~(written + 1 - taken >= FlushEvery)
        BY <1>1, <2>2 DEF Write
    <2> QED BY <2>1, <2>2
  <1>2. ASSUME NEW f \in Flusher, Flush(f) PROVE Apart'
    <2>1. CASE taken = written
        BY <1>2, <2>1 DEF Flush
    <2>2. CASE taken # written
      <3>1. /\ written \in Record /\ taken < written /\ taken' = written /\ clock' = clock
            /\ Batches' = Batches \cup {BatchUpTo(written)}
          BY <1>2, <2>2, SinkAssumption DEF Flush, Splice, IInv, TypeOK, Record, Batches
      <3>2. BatchUpTo(written) \notin Batches
          BY <3>1, NewBatchInLine
      <3> QED BY <1>2, <2>2, <3>2 DEF Flush, Batches
    <2> QED BY <2>1, <2>2
  <1>3. ASSUME NEW b \in sending, Applied(b) \/ Sent(b) \/ SendFails(b) PROVE Apart'
      BY <1>3 DEF Applied, Sent, SendFails, Settles
  <1>4. CASE Tick \/ UNCHANGED vars
      BY <1>4 DEF Tick, vars
  <1> QED BY <1>1, <1>2, <1>3, <1>4 DEF Next

\* Hence a batch that was answered is not among those being sent, ever again.
THEOREM SinkInvariant == Spec => []SinkInv
  <1>1. Init => SinkInv
      BY InitIInv DEF Init, SinkInv, Apart
  <1> QED BY <1>1, SinkStep, PTL DEF Spec

\* The one batch of a record says what became of it: where its object is counts once
\* the put has resolved.
Unresolved == sending \cup failed

FateSaysWhere ==
    \A n \in Record :
        /\ Fate(n) = "none" <=> n > written
        /\ Fate(n) = "buffered" <=> taken < n /\ n <= written
        /\ Fate(n) = "sent" <=> \E b \in sending : Holds(b, n)
        /\ Fate(n) = "stored" <=> \E b \in bucket \ Unresolved : Holds(b, n)
        /\ Fate(n) = "failed" <=> \E b \in failed : Holds(b, n)
        /\ Fate(n) = "replaced" <=> \E b \in replaced \ Unresolved : Holds(b, n)
        /\ Fate(n) \in {"none", "buffered", "sent", "stored", "failed", "replaced"}

\* Two batches have no record in common, and hold only what was taken.
LEMMA OneBatch ==
    ASSUME IInv, NEW n \in Record
    PROVE  /\ \A b \in Batches : Holds(b, n) => n <= taken
           /\ \A b, c \in Batches : Holds(b, n) /\ Holds(c, n) => b = c
  <1>1. /\ n \in Int /\ taken \in Int
        /\ \A b \in Batches : b.first \in Int /\ b.last \in Int
      BY SinkAssumption DEF IInv, TypeOK, Batches, Batch, Record
  <1> QED BY <1>1 DEF IInv, InLine, Holds

\* Fate, read off the sets of batches.
LEMMA FateIs == SinkInv => FateSaysWhere
  <1> SUFFICES ASSUME SinkInv, NEW n \in Record
               PROVE  /\ Fate(n) = "none" <=> n > written
                      /\ Fate(n) = "buffered" <=> taken < n /\ n <= written
                      /\ Fate(n) = "sent" <=> \E b \in sending : Holds(b, n)
                      /\ Fate(n) = "stored" <=> \E b \in bucket \ Unresolved : Holds(b, n)
                      /\ Fate(n) = "failed" <=> \E b \in failed : Holds(b, n)
                      /\ Fate(n) = "replaced" <=> \E b \in replaced \ Unresolved : Holds(b, n)
                      /\ Fate(n) \in {"none", "buffered", "sent", "stored", "failed", "replaced"}
      BY DEF FateSaysWhere
  <1>1. /\ n \in Nat /\ taken \in Nat /\ written \in Nat /\ taken <= written
      BY SinkAssumption DEF SinkInv, IInv, TypeOK, Record
  <1>2. /\ \A b \in Batches : Holds(b, n) => n <= taken
        /\ \A b, c \in Batches : Holds(b, n) /\ Holds(c, n) => b = c
      BY OneBatch DEF SinkInv
  <1>3. n <= taken => \E b \in Batches : Holds(b, n)
      BY DEF SinkInv, IInv, Covered
  <1>4. CASE n > written
      BY <1>1, <1>2, <1>4 DEF Fate, Batches, Unresolved
  <1>5. CASE taken < n /\ n <= written
      BY <1>1, <1>2, <1>5 DEF Fate, Batches, Unresolved
  <1>6. CASE n <= taken
    <2>1. PICK b \in Batches : Holds(b, n)
        BY <1>3, <1>6
    <2>2. Fate(n) = IF \E c \in sending : Holds(c, n) THEN "sent"
                    ELSE IF \E c \in failed : Holds(c, n) THEN "failed"
                    ELSE IF \E c \in bucket : Holds(c, n) THEN "stored" ELSE "replaced"
        BY <1>1, <1>6 DEF Fate
    <2>3. \A c \in Batches : Holds(c, n) => c = b
        BY <1>2, <2>1
    <2> QED BY <1>1, <1>6, <2>1, <2>2, <2>3 DEF Batches, SinkInv, Apart, Unresolved
  <1> QED BY <1>1, <1>4, <1>5, <1>6

\* The same of the next state.
LEMMA FateWillBe == SinkInv' => FateSaysWhere'
  BY FateIs, PTL

\* Sending the buffer, up to record k that may have been written just now.
LEMMA BufferIsSent ==
    ASSUME FateSaysWhere, FateSaysWhere', SinkInv, NEW k \in Record,
           written <= k, written' = k, taken' = k, sending' = sending \cup {BatchUpTo(k)},
           UNCHANGED <<bucket, failed, replaced>>
    PROVE  Fates' = Records!Becomes({n \in Record : taken < n /\ n <= k}, "sent")
  <1>1. /\ taken \in Nat /\ k \in Nat /\ written \in Nat /\ taken <= written
        /\ \A n \in Record : n \in Nat
      BY SinkAssumption DEF SinkInv, IInv, TypeOK, Record
  <1>2. \A n \in Record : Holds(BatchUpTo(k), n) <=> taken < n /\ n <= k
      BY <1>1 DEF Holds, BatchUpTo
  <1>3. ASSUME NEW n \in Record
        PROVE  Fate(n)' = IF taken < n /\ n <= k THEN "sent" ELSE Fate(n)
    <2>1. CASE taken < n /\ n <= k
        BY <1>2, <2>1 DEF FateSaysWhere, Unresolved
    <2>2. CASE n <= taken
        BY <1>1, <1>2, <2>2 DEF FateSaysWhere, Unresolved
    <2>3. CASE n > k
        BY <1>1, <2>3 DEF FateSaysWhere, Unresolved
    <2> QED BY <1>1, <2>1, <2>2, <2>3
  <1> QED BY <1>3 DEF Fates, Records!Becomes

\* sink.write: the next record is buffered, or sent with what is.
LEMMA WriteAdds ==
    ASSUME SinkInv, SinkInv', Write
    PROVE  Records!RNext
  <1> DEFINE k == written + 1
  <1>1. FateSaysWhere /\ FateSaysWhere'
      BY FateIs, FateWillBe
  <1>2. /\ taken \in Nat /\ written \in Nat /\ taken <= written /\ k \in Record
        /\ \A n \in Record : n \in Nat
      BY SinkAssumption DEF SinkInv, IInv, TypeOK, Record, Write
  <1>3. UNCHANGED <<Asked, done>> /\ written' = k
      BY DEF Write, Asked
  <1>4. \A m \in Record : Fates[m] = "none" <=> m >= k
      BY <1>1, <1>2 DEF FateSaysWhere, Fates
  <1>5. CASE written + 1 - taken >= FlushEvery
    <2>1. Fates' = Records!Becomes({n \in Record : taken < n /\ n <= k}, "sent")
        BY <1>1, <1>2, <1>5, BufferIsSent DEF Write, Splice
    <2>2. {n \in Record : taken < n /\ n <= k} = Records!Buffered \cup {k}
        BY <1>1, <1>2 DEF FateSaysWhere, Fates, Records!Buffered, Records!At
    <2>3. Records!Add(k)
        BY <1>3, <1>4, <2>1, <2>2 DEF Records!Add
    <2> QED BY <1>2, <2>3 DEF Records!RNext
  <1>6. CASE ~(written + 1 - taken >= FlushEvery)
    <2>1. UNCHANGED <<taken, sending, bucket, failed, replaced>>
        BY <1>6 DEF Write
    <2>2. ASSUME NEW n \in Record
          PROVE  Fate(n)' = IF n = k THEN "buffered" ELSE Fate(n)
      <3>1. CASE n = k
          BY <1>1, <1>2, <1>3, <2>1, <3>1 DEF FateSaysWhere, Unresolved
      <3>2. CASE n # k
          BY <1>1, <1>2, <1>3, <2>1, <3>2 DEF FateSaysWhere, Unresolved
      <3> QED BY <3>1, <3>2
    <2>3. Fates' = Records!Becomes({k}, "buffered")
        BY <2>2 DEF Fates, Records!Becomes
    <2>4. Records!Add(k)
        BY <1>3, <1>4, <2>3 DEF Records!Add
    <2> QED BY <1>2, <2>4 DEF Records!RNext
  <1> QED BY <1>5, <1>6

\* flush() sends what is buffered and waits for it, or has nothing to ask for.
LEMMA FlushAsks ==
    ASSUME SinkInv, SinkInv', NEW f \in Flusher, Flush(f)
    PROVE  Records!RNext
  <1>1. FateSaysWhere /\ FateSaysWhere'
      BY FateIs, FateWillBe
  <1>2. /\ taken \in Nat /\ written \in Nat /\ taken <= written /\ written <= MaxRecord
        /\ \A n \in Record : n \in Nat /\ waits \in [Flusher -> SUBSET Batch]
      BY SinkAssumption DEF SinkInv, IInv, TypeOK, Record
  <1>3. f \notin done /\ Asked[f] = {} /\ written' = written
      BY DEF Flush, Asked
  <1>4. Records!Buffered = {n \in Record : taken < n /\ n <= written}
      BY <1>1 DEF FateSaysWhere, Fates, Records!Buffered, Records!At
  <1>5. CASE taken = written
    <2>1. Records!Buffered = {}
        BY <1>2, <1>4, <1>5
    <2>2. UNCHANGED <<Fates, Asked>> /\ done' = done \cup {f}
        BY <1>5 DEF Flush, Fates, Fate, Asked
    <2>3. Records!AskNothing(f)
        BY <1>3, <2>1, <2>2 DEF Records!AskNothing
    <2> QED BY <2>3 DEF Records!RNext
  <1>6. CASE taken # written
    <2>1. written \in Record /\ written \in Records!Buffered
        BY <1>2, <1>4, <1>6 DEF Record
    <2>2. Fates' = Records!Becomes(Records!Buffered, "sent")
        BY <1>1, <1>3, <1>4, <1>6, <2>1, BufferIsSent DEF Flush, Splice
    <2>3. waits' = [waits EXCEPT ![f] = {BatchUpTo(written)}] /\ done' = done
        BY <1>6 DEF Flush, Await
    <2>4. \A n \in Record : Holds(BatchUpTo(written), n) <=> n \in Records!Buffered
        BY <1>2, <1>4 DEF Holds, BatchUpTo
    <2>5. ASSUME NEW g \in Flusher
          PROVE  Asked'[g] = IF g = f THEN Records!Buffered ELSE Asked[g]
      <3>1. Asked'[g] = {n \in Record : \E b \in waits'[g] : Holds(b, n)}
          BY DEF Asked
      <3>2. CASE g = f
        <4>1. waits'[g] = {BatchUpTo(written)}
            BY <1>2, <2>1, <2>3, <3>2
        <4>2. Asked'[g] = {n \in Record : Holds(BatchUpTo(written), n)}
            BY <3>1, <4>1
        <4> QED BY <2>4, <3>2, <4>2 DEF Records!Buffered, Records!At
      <3>3. CASE g # f
          BY <1>2, <2>1, <2>3, <3>1, <3>3 DEF Asked
      <3> QED BY <3>2, <3>3
    <2>6. Asked' = [Asked EXCEPT ![f] = Records!Buffered]
        BY <2>5 DEF Asked
    <2>7. Records!Ask(f)
        BY <1>3, <2>1, <2>2, <2>3, <2>6 DEF Records!Ask
    <2> QED BY <2>7 DEF Records!RNext
  <1> QED BY <1>5, <1>6

\* What a batch that is being sent holds is on its way, and the flush() that waits for
\* just that is the one that waits for the batch.
LEMMA AnswerIsOfBatch ==
    ASSUME SinkInv, NEW b \in sending
    PROVE  /\ {n \in Record : Holds(b, n)} # {}
           /\ {n \in Record : Holds(b, n)} \in SUBSET Records!At("sent")
           /\ \A f \in Flusher : b \in waits[f] <=>
                 Asked[f] # {} /\ Asked[f] \subseteq {n \in Record : Holds(b, n)}
  <1> DEFINE R == {n \in Record : Holds(b, n)}
  <1>1. FateSaysWhere
      BY FateIs
  <1>2. /\ b \in Batches /\ b \in Batch
        /\ waits \in [Flusher -> SUBSET Batch]
      BY DEF SinkInv, IInv, TypeOK, Batches
  <1>3. \A c \in Batches : c.first \in Record /\ Holds(c, c.first)
    <2>1. \A c \in Batches : c \in Batch /\ c.first <= c.last
        BY DEF SinkInv, IInv, TypeOK, InLine, Batches
    <2> QED BY <2>1, SinkAssumption DEF Batch, Record, Holds
  <1>4. R # {} /\ R \in SUBSET Records!At("sent")
      BY <1>1, <1>2, <1>3 DEF FateSaysWhere, Fates, Records!At
  <1>6. ASSUME NEW f \in Flusher
        PROVE  b \in waits[f] <=> Asked[f] # {} /\ Asked[f] \subseteq R
    <2>1. waits[f] \subseteq Batches /\ \A x, y \in waits[f] : x = y
        BY DEF SinkInv, IInv, OneWait
    <2>2. Asked[f] = {n \in Record : \E c \in waits[f] : Holds(c, n)}
        BY DEF Asked
    <2>3. ASSUME b \in waits[f] PROVE Asked[f] = R
        BY <2>1, <2>2, <2>3
    <2>4. ASSUME Asked[f] # {}, Asked[f] \subseteq R PROVE b \in waits[f]
      <3>1. PICK n \in Record : \E c \in waits[f] : Holds(c, n)
          BY <2>2, <2>4
      <3>2. PICK c \in waits[f] : Holds(c, n)
          BY <3>1
      <3>3. Holds(b, n)
          BY <2>2, <2>4, <3>2
      <3>4. c = b
          BY <1>2, <2>1, <3>2, <3>3, OneBatch DEF SinkInv
      <3> QED BY <3>4
    <2> QED BY <1>4, <2>3, <2>4
  <1> QED BY <1>4, <1>6

\* A put is applied: it may replace an object whose put has resolved.
LEMMA AppliedOverwrites ==
    ASSUME SinkInv, SinkInv', NEW b \in sending, Applied(b)
    PROVE  Records!RNext
  <1> DEFINE Q == {n \in Record : \E c \in bucket \ Unresolved : c.key = b.key /\ Holds(c, n)}
  <1>1. FateSaysWhere /\ FateSaysWhere'
      BY FateIs, FateWillBe
  <1>2. /\ bucket' = {x \in bucket : x.key # b.key} \cup {b}
        /\ replaced' = replaced \cup {x \in bucket : x.key = b.key}
        /\ UNCHANGED <<sending, failed, taken, written, waits, done, Unresolved>>
      BY DEF Applied, Unresolved
  <1>3. Q \in SUBSET Records!At("stored")
      BY <1>1 DEF FateSaysWhere, Fates, Records!At
  <1>4. ASSUME NEW n \in Record
        PROVE  Fate(n)' = IF n \in Q THEN "replaced" ELSE Fate(n)
    <2>1. CASE n \in Q
        BY <1>1, <1>2, <2>1 DEF FateSaysWhere
    <2>2. CASE n \notin Q
      <3>1. b \in Unresolved
          BY DEF Unresolved
      <3>2. /\ (\E c \in bucket' \ Unresolved : Holds(c, n)) <=>
                   (\E c \in bucket \ Unresolved : Holds(c, n))
            /\ (\E c \in replaced' \ Unresolved : Holds(c, n)) <=>
                   (\E c \in replaced \ Unresolved : Holds(c, n))
          BY <1>2, <2>2, <3>1
      <3> QED BY <1>1, <1>2, <3>2 DEF FateSaysWhere
    <2> QED BY <2>1, <2>2
  <1>5. Fates' = Records!Becomes(Q, "replaced")
      BY <1>4 DEF Fates, Records!Becomes
  <1>6. UNCHANGED <<Asked, done>>
      BY <1>2 DEF Asked
  <1> HIDE DEF Q
  <1>7. Records!Overwritten(Q)
      BY <1>5, <1>6 DEF Records!Overwritten
  <1> QED BY <1>3, <1>7 DEF Records!RNext

\* A put is answered: its records are stored, unless another replaced them, or failed.
LEMMA AnswerSettles ==
    ASSUME SinkInv, SinkInv', NEW b \in sending, Sent(b) \/ SendFails(b)
    PROVE  Records!RNext
  <1> DEFINE R == {n \in Record : Holds(b, n)}
             how == IF b \in failed' THEN "failed"
                    ELSE IF b \in bucket THEN "stored" ELSE "replaced"
  <1>1. FateSaysWhere /\ FateSaysWhere'
      BY FateIs, FateWillBe
  <1>2. /\ R # {} /\ R \in SUBSET Records!At("sent")
        /\ \A f \in Flusher : b \in waits[f] <=> Asked[f] # {} /\ Asked[f] \subseteq R
      BY AnswerIsOfBatch
  <1>3. /\ sending' = sending \ {b} /\ UNCHANGED <<bucket, replaced, taken, written, waits>>
        /\ done' = done \cup {f \in Flusher : b \in waits[f]}
      BY DEF Sent, SendFails, Settles
  <1>4. /\ failed' = IF b \in failed' THEN failed \cup {b} ELSE failed
        /\ b \in failed' \/ b \in bucket \cup replaced
      BY DEF Sent, SendFails
  <1>5. ASSUME NEW n \in Record
        PROVE  Fate(n)' = IF n \in R THEN how ELSE Fate(n)
    <2>1. CASE n \in R
      <3>1. CASE b \in failed'
          BY <1>1, <2>1, <3>1 DEF FateSaysWhere
      <3>2. CASE b \notin failed'
        <4>1. b \notin Unresolved'
            BY <1>3, <3>2 DEF Unresolved
        <4> QED BY <1>1, <1>3, <1>4, <2>1, <3>2, <4>1 DEF FateSaysWhere
      <3> QED BY <3>1, <3>2
    <2>2. CASE n \notin R
      <3>1. \A c : Holds(c, n) => c # b
          BY <2>2
      <3>2. \A c : c # b => /\ c \in sending' <=> c \in sending
                            /\ c \in failed' <=> c \in failed
          BY <1>3, <1>4
      <3>3. \A c : c # b => (c \in Unresolved' <=> c \in Unresolved)
          BY <3>2 DEF Unresolved
      <3> QED BY <1>1, <1>3, <3>1, <3>2, <3>3 DEF FateSaysWhere
    <2> QED BY <2>1, <2>2
  <1>6. Fates' = Records!Becomes(R, how)
      BY <1>5 DEF Fates, Records!Becomes
  <1>7. how \in {"stored", "replaced", "failed"}
      OBVIOUS
  <1>8. /\ UNCHANGED Asked
        /\ done' = done \cup {f \in Flusher : Asked[f] # {} /\ Asked[f] \subseteq R}
      BY <1>2, <1>3 DEF Asked
  <1> HIDE DEF R, how
  <1>9. Records!Settled(R)
      BY <1>2, <1>6, <1>7, <1>8 DEF Records!Settled
  <1> QED BY <1>2, <1>9 DEF Records!RNext

\* createS3LogSink, with batches under way beside one another, keys and a bucket,
\* implements one fate per record: sent once, answered once, never sent again, and a
\* flush() comes back when what it sent is answered.
THEOREM RecordsKeepOneFate == Spec => RecordsHaveOneFate
  <1>1. Init => Records!RInit
    <2> SUFFICES ASSUME Init PROVE Records!RInit
        OBVIOUS
    <2>1. \A n \in Record : Fate(n) = "none"
        BY SinkAssumption DEF Init, Fate, Record
    <2> QED BY <2>1 DEF Init, Records!RInit, Fates, Asked
  <1>2. SinkInv /\ SinkInv' /\ [Next]_vars => [Records!RNext]_(Records!rvars)
    <2> SUFFICES ASSUME SinkInv, SinkInv', [Next]_vars
                 PROVE  [Records!RNext]_(Records!rvars)
        OBVIOUS
    <2>1. CASE Tick \/ UNCHANGED vars
        BY <2>1 DEF Tick, vars, Records!rvars, Fates, Fate, Asked
    <2> QED BY <2>1, WriteAdds, FlushAsks, AppliedOverwrites, AnswerSettles DEF Next
  <1>3. Records!RInit /\ [][Records!RNext]_(Records!rvars) => RecordsHaveOneFate
      BY DEF RecordsHaveOneFate, Records!RSpec
  <1> QED BY <1>1, <1>2, <1>3, SinkInvariant, PTL DEF Spec

-----------------------------------------------------------------------------
(* Shutdown; what is shown of the sink alone holds of it in there.          *)

USE DEF App!Entry, App!Backend, App!Part

\* The parts in the order they are closed in, and that of opening them.
LEMMA Orders ==
    /\ Len(App!CloseOrder) = 8 /\ Len(App!OpenOrder) = 7
    /\ App!CloseOrder[1] = "http" /\ App!CloseOrder[2] = "ws" /\ App!CloseOrder[3] = "grpc"
    /\ App!CloseOrder[4] = "bus" /\ App!CloseOrder[5] = "cache" /\ App!CloseOrder[6] = "mongoose"
    /\ App!CloseOrder[7] = "mongo" /\ App!CloseOrder[8] = "logs"
    /\ App!OpenOrder[1] = "cache" /\ App!OpenOrder[2] = "mongo" /\ App!OpenOrder[3] = "bus"
    /\ App!OpenOrder[4] = "mongoose" /\ App!OpenOrder[5] = "http" /\ App!OpenOrder[6] = "ws"
    /\ App!OpenOrder[7] = "grpc"
  BY DEF App!CloseOrder, App!OpenOrder

\* Every step closes a part, and every part has a step.
LEMMA CloseOrderCovers ==
    /\ \A i \in 1..8 : App!CloseOrder[i] \in App!Part
    /\ \A p \in App!Part : \E i \in 1..8 : App!CloseOrder[i] = p
  BY Orders

\* The backends are opened before the first port.
Opening ==
    /\ \A i \in 1..7 : (i <= booted /\ App!OpenOrder[i] \in Configured) => state[App!OpenOrder[i]] # "none"
    /\ state["logs"] # "none"
    /\ \A p \in App!Entry : state[p] # "none" => \A b \in App!Backend \cap Configured : state[b] # "none"
    /\ live # {} => \A b \in App!Backend \cap Configured : state[b] # "none"

\* Nobody closes before all is open.
Started ==
    /\ armed # {} => booted = 7
    /\ \A k \in Flusher : fate[k] # "idle" => booted = 7
    /\ \A k \in Flusher : fate[k] = "idle" <=> at[k] = 0

\* Closer k is behind part i of the order.
Behind(k, i) == i < at[k] \/ (i = at[k] /\ fate[k] = "resolved")

\* What a closer has behind it is closed; what it waits for takes nobody any more.
Passed ==
    \A k \in Flusher :
        /\ \A i \in 1..8 : Behind(k, i) =>
              /\ state[App!CloseOrder[i]] # "open"
              /\ App!CloseOrder[i] \in Configured => state[App!CloseOrder[i]] = "closed"
        /\ fate[k] = "waiting" => state[App!CloseOrder[at[k]]] # "open"
        /\ fate[k] = "resolved" => at[k] = 8

\* Behind HTTP only RPCs are in flight, behind gRPC nothing is.
NoneLeft ==
    \A k \in Flusher :
        /\ at[k] >= 2 => \A w \in live : door[w] = "grpc"
        /\ at[k] >= 4 => live = {}

\* Only a closer that has come to a part closes it.
InTurn ==
    \A i \in 1..8 : state[App!CloseOrder[i]] \in {"closing", "closed"} => \E k \in Flusher : at[k] >= i

AppInv == App!TypeOK /\ Opening /\ Started /\ Passed /\ NoneLeft /\ InTurn

\* Nothing is open, nobody has called close().
LEMMA AppInitially == App!Init => AppInv
  BY Orders, CloseOrderCovers DEF App!Init, AppInv, App!TypeOK, Opening, Started, Passed, Behind, NoneLeft, InTurn

\* A part is opened while no closer has begun.
LEMMA OpenKeeps == AppInv /\ App!Open => AppInv'
  <1> SUFFICES ASSUME AppInv, App!Open PROVE AppInv'
    OBVIOUS
  <1> USE DEF AppInv, App!TypeOK
  <1> DEFINE p == App!OpenOrder[booted + 1]
  <1>1. booted \in 0..6 /\ booted' = booted + 1 /\ p \in App!Part
        /\ state' = (IF p \in Configured THEN [state EXCEPT ![p] = "open"] ELSE state)
        /\ UNCHANGED <<at, fate, live, door, process>>
    BY Orders DEF App!Open
  <1>2. armed' \subseteq App!Signal /\ (armed' # {} => booted' = 7)
    BY Orders DEF App!Open
  <1>3. \A k \in Flusher : at[k] = 0 /\ fate[k] = "idle"
    BY <1>1 DEF Started
  <1>4. App!TypeOK'
    BY <1>1, <1>2, Orders
  <1>5. \A q \in App!Part : state[q] # "none" => state'[q] # "none"
    BY <1>1
  <1>6. Opening'
    <2>1. \A i \in 1..7 : (i <= booted' /\ App!OpenOrder[i] \in Configured) => state'[App!OpenOrder[i]] # "none"
      <3>1. ASSUME NEW i \in 1..7, i <= booted', App!OpenOrder[i] \in Configured
            PROVE  state'[App!OpenOrder[i]] # "none"
        <4>1. CASE i <= booted
          BY <1>5, <3>1, <4>1, Orders DEF Opening
        <4>2. CASE i = booted + 1
          BY <1>1, <3>1, <4>2
        <4>3. QED
          BY <1>1, <3>1, <4>1, <4>2
      <3>2. QED
        BY <3>1
    <2>2. booted >= 4 => \A b \in App!Backend \cap Configured : state'[b] # "none"
      BY <1>1, <1>5, Orders DEF Opening
    <2>3. booted < 4 => p \notin App!Entry
      BY <1>1, Orders
    <2>4. \A q \in App!Entry : state'[q] # "none" => \A b \in App!Backend \cap Configured : state'[b] # "none"
      BY <1>1, <1>5, <2>2, <2>3 DEF Opening
    <2>5. QED
      BY <1>1, <1>5, <2>1, <2>4 DEF Opening
  <1>7. Started'
    BY <1>1, <1>2, <1>3 DEF Started
  <1>8. Passed' /\ NoneLeft'
    BY <1>1, <1>3 DEF Passed, Behind, NoneLeft
  <1>9. InTurn'
    BY <1>1, <1>3 DEF InTurn
  <1>10. QED
    BY <1>4, <1>6, <1>7, <1>8, <1>9

\* A failed boot leaves what is open as it is.
LEMMA OpenFailKeeps == AppInv /\ App!OpenFail => AppInv'
  <1> SUFFICES ASSUME AppInv, App!OpenFail PROVE AppInv'
    OBVIOUS
  <1> USE DEF AppInv, App!TypeOK
  <1>1. booted \in 0..6 /\ booted' = -1 /\ UNCHANGED <<state, armed, at, fate, live, door, process>>
    BY Orders DEF App!OpenFail
  <1>2. \A k \in Flusher : at[k] = 0 /\ fate[k] = "idle"
    BY <1>1 DEF Started
  <1>3. armed = {}
    BY <1>1 DEF Started
  <1>4. App!TypeOK'
    BY <1>1, Orders
  <1>5. Opening' /\ Started' /\ Passed'
    BY <1>1, <1>2, <1>3 DEF Opening, Started, Passed, Behind
  <1>6. NoneLeft' /\ InTurn'
    BY <1>1 DEF NoneLeft, InTurn
  <1>7. QED
    BY <1>4, <1>5, <1>6

\* Work comes in through an open part, so no closer is past it.
LEMMA BeginKeeps == ASSUME AppInv, NEW w \in Work, App!Begin(w) PROVE AppInv'
  <1> USE DEF AppInv, App!TypeOK
  <1>1. PICK p \in App!Entry : state[p] = "open" /\ door' = [door EXCEPT ![w] = p]
    BY DEF App!Begin
  <1>2. /\ p = "ws" => state["http"] = "open"
        /\ live' = live \cup {w} /\ UNCHANGED <<booted, state, armed, at, fate, process>>
    BY <1>1 DEF App!Begin
  <1>3. App!TypeOK'
    BY <1>1, <1>2
  <1>4. Opening'
    BY <1>1, <1>2 DEF Opening
  <1>5. Started' /\ Passed' /\ InTurn'
    BY <1>2 DEF Started, Passed, Behind, InTurn
  <1>6. NoneLeft'
    <2>1. ASSUME NEW k \in Flusher, at[k] >= 2 PROVE p = "grpc" /\ at[k] < 4
      <3>1. state["http"] # "open"
        BY <2>1, Orders DEF Passed, Behind
      <3>2. at[k] >= 4 => state["grpc"] # "open"
        BY <2>1, Orders DEF Passed, Behind
      <3>3. QED
        BY <1>1, <1>2, <3>1, <3>2
    <2>2. QED
      BY <1>1, <1>2, <2>1 DEF NoneLeft
  <1>7. QED
    BY <1>3, <1>4, <1>5, <1>6

\* Work that ends is in nobody's way.
LEMMA EndKeeps == ASSUME AppInv, NEW w \in Work, App!End(w) PROVE AppInv'
  <1> USE DEF AppInv, App!TypeOK, App!End
  <1>1. App!TypeOK' /\ Opening' /\ Started'
    BY DEF Opening, Started
  <1>2. Passed' /\ NoneLeft' /\ InTurn'
    BY DEF Passed, Behind, NoneLeft, InTurn
  <1>3. QED
    BY <1>1, <1>2

\* close() is called once all is open.
LEMMA CallKeeps ==
    ASSUME AppInv, NEW k \in Flusher, App!CallClose(k), booted = 7, armed' \subseteq armed,
           UNCHANGED <<booted, state, live, door, process>>
    PROVE  AppInv'
  <1> USE DEF AppInv, App!TypeOK, App!CallClose
  <1>1. App!TypeOK' /\ Opening'
    BY Orders DEF Opening
  <1>2. Started'
    BY DEF Started
  <1>3. at[k] = 0
    BY DEF Started
  <1>4. fate'[k] = "calling" /\ at'[k] = 1 /\ \A j \in Flusher : j # k => at'[j] = at[j] /\ fate'[j] = fate[j]
    BY Orders
  <1>5. Passed'
    BY <1>4 DEF Passed, Behind
  <1>6. NoneLeft'
    BY <1>4 DEF NoneLeft
  <1>7. InTurn'
    <2>1. \A j \in Flusher : at[j] \in Int /\ at'[j] \in Int /\ at'[j] >= at[j]
      BY <1>3, <1>4, Orders
    <2>2. ASSUME NEW i \in 1..8, state'[App!CloseOrder[i]] \in {"closing", "closed"}
          PROVE  \E j \in Flusher : at'[j] >= i
      <3>1. PICK j \in Flusher : at[j] >= i
        BY <2>2 DEF InTurn
      <3>2. QED
        BY <2>1, <3>1
    <2>3. QED
      BY <2>2 DEF InTurn
  <1>8. QED
    BY <1>1, <1>2, <1>5, <1>6, <1>7

\* A step that begins takes a part from open to closing.
LEMMA BeginStepKeeps == ASSUME AppInv, NEW k \in Flusher, App!BeginStep(k) PROVE AppInv'
  <1> USE DEF AppInv, App!TypeOK
  <1> DEFINE p == App!CloseOrder[at[k]]
  <1>1. fate[k] = "calling" /\ at[k] \in 1..8 /\ p \in App!Part
    BY Orders, CloseOrderCovers DEF App!BeginStep, Started
  <1>2. /\ fate' = [fate EXCEPT ![k] = fate'[k]] /\ fate'[k] \in {"refused", "waiting"}
        /\ state' = (IF state[p] = "open" THEN [state EXCEPT ![p] = "closing"] ELSE state)
        /\ UNCHANGED <<booted, armed, at, live, door, process>>
    BY <1>1 DEF App!BeginStep
  <1>3. App!TypeOK'
    BY <1>1, <1>2
  <1>4. \A q \in App!Part : /\ state'[q] = "none" <=> state[q] = "none"
                            /\ state'[q] = "open" => state[q] = "open" /\ q # p
                            /\ state[q] = "closed" => state'[q] = "closed"
                            /\ q # p => state'[q] = state[q]
    BY <1>1, <1>2
  <1>5. Opening'
    <2>1. \A i \in 1..7 : App!OpenOrder[i] \in App!Part
      BY Orders
    <2>2. QED
      BY <1>2, <1>4, <2>1 DEF Opening
  <1>6. Started'
    BY <1>1, <1>2 DEF Started
  <1>7. Passed'
    <2>1. ASSUME NEW j \in Flusher, NEW i \in 1..8, Behind(j, i)'
          PROVE  /\ state'[App!CloseOrder[i]] # "open"
                 /\ App!CloseOrder[i] \in Configured => state'[App!CloseOrder[i]] = "closed"
      <3>1. Behind(j, i)
        BY <1>2, <2>1 DEF Behind
      <3>2. /\ state[App!CloseOrder[i]] # "open"
            /\ App!CloseOrder[i] \in Configured => state[App!CloseOrder[i]] = "closed"
        BY <3>1 DEF Passed
      <3>3. App!CloseOrder[i] \in App!Part
        BY CloseOrderCovers
      <3>4. QED
        BY <1>4, <3>2, <3>3
    <2>2. ASSUME NEW j \in Flusher, fate'[j] = "waiting" PROVE state'[App!CloseOrder[at'[j]]] # "open"
      <3>1. CASE j = k
        BY <1>1, <1>2, <1>4, <3>1
      <3>2. CASE j # k
        <4>1. fate[j] = "waiting" /\ at'[j] = at[j] /\ state[App!CloseOrder[at[j]]] # "open"
          BY <1>2, <2>2, <3>2 DEF Passed
        <4>2. at[j] \in 1..8
          BY <4>1, Orders DEF Started
        <4>3. App!CloseOrder[at[j]] \in App!Part
          BY <4>2, CloseOrderCovers
        <4>4. PICK q \in App!Part : q = App!CloseOrder[at[j]]
          BY <4>3
        <4>5. state[q] # "open"
          BY <4>1, <4>4
        <4>6. state'[q] # "open"
          BY <1>4, <4>5
        <4>7. QED
          BY <4>1, <4>4, <4>6
      <3>3. QED
        BY <3>1, <3>2
    <2>3. \A j \in Flusher : fate'[j] = "resolved" => at'[j] = 8
      BY <1>2 DEF Passed
    <2>4. QED
      BY <2>1, <2>2, <2>3 DEF Passed
  <1>8. NoneLeft'
    BY <1>2 DEF NoneLeft
  <1>9. InTurn'
    <2>1. ASSUME NEW i \in 1..8, state'[App!CloseOrder[i]] \in {"closing", "closed"}
          PROVE  \E j \in Flusher : at'[j] >= i
      <3>1. CASE App!CloseOrder[i] = p
        <4>1. i = at[k]
          BY <1>1, <3>1, Orders
        <4>2. QED
          BY <1>1, <1>2, <4>1
      <3>2. CASE App!CloseOrder[i] # p
        <4>1. state'[App!CloseOrder[i]] = state[App!CloseOrder[i]]
          <5>1. App!CloseOrder[i] \in App!Part
            BY CloseOrderCovers
          <5>2. PICK q \in App!Part : q = App!CloseOrder[i]
            BY <5>1
          <5>3. state'[q] = state[q]
            BY <1>4, <3>2, <5>2
          <5>4. QED
            BY <5>2, <5>3
        <4>2. QED
          BY <1>2, <2>1, <4>1 DEF InTurn
      <3>3. QED
        BY <3>1, <3>2
    <2>2. QED
      BY <2>1 DEF InTurn
  <1>10. QED
    BY <1>3, <1>5, <1>6, <1>7, <1>8, <1>9

\* A step that ends has drained its part and closed it.
LEMMA EndStepKeeps == ASSUME AppInv, NEW k \in Flusher, App!EndStep(k) PROVE AppInv'
  <1> USE DEF AppInv, App!TypeOK
  <1> DEFINE p == App!CloseOrder[at[k]]
  <1>1. fate[k] = "waiting" /\ at[k] \in 1..8 /\ p \in App!Part /\ booted = 7
    BY Orders, CloseOrderCovers DEF App!EndStep, Started
  <1>2. /\ App!Drained(p)
        /\ state' = (IF state[p] = "closing" THEN [state EXCEPT ![p] = "closed"] ELSE state)
        /\ UNCHANGED <<booted, armed, live, door, process>>
    BY DEF App!EndStep
  <1>3. \/ at[k] = 8 /\ fate' = [fate EXCEPT ![k] = "resolved"] /\ at' = at
        \/ at[k] < 8 /\ fate' = [fate EXCEPT ![k] = "calling"] /\ at' = [at EXCEPT ![k] = at[k] + 1]
    BY <1>1, Orders DEF App!EndStep, App!Advance
  <1>4. App!TypeOK'
    BY <1>1, <1>2, <1>3, Orders
  <1>5. \A q \in App!Part : /\ state'[q] = "none" <=> state[q] = "none"
                            /\ state'[q] = "open" => state[q] = "open"
                            /\ state[q] = "closed" => state'[q] = "closed"
                            /\ state'[q] = "closing" => state[q] = "closing"
                            /\ q # p => state'[q] = state[q]
    BY <1>1, <1>2
  <1>6. Opening'
    <2>1. \A i \in 1..7 : App!OpenOrder[i] \in App!Part
      BY Orders
    <2>2. QED
      BY <1>2, <1>5, <2>1 DEF Opening
  <1>7. Started'
    BY <1>1, <1>2, <1>3 DEF Started
  <1>8. state'[p] # "open" /\ (p \in Configured => state'[p] = "closed")
    <2>1. state[p] # "open"
      BY <1>1 DEF Passed
    <2>2. p \in Configured => state[p] # "none"
      BY <1>1, Orders DEF Opening
    <2>3. QED
      BY <1>1, <1>2, <2>1, <2>2
  <1>9. Passed'
    <2>1. ASSUME NEW j \in Flusher, NEW i \in 1..8, Behind(j, i)'
          PROVE  /\ state'[App!CloseOrder[i]] # "open"
                 /\ App!CloseOrder[i] \in Configured => state'[App!CloseOrder[i]] = "closed"
      <3>1. Behind(j, i) \/ (j = k /\ i = at[k])
        BY <1>1, <1>3, <2>1 DEF Behind
      <3>2. CASE Behind(j, i)
        <4>1. /\ state[App!CloseOrder[i]] # "open"
              /\ App!CloseOrder[i] \in Configured => state[App!CloseOrder[i]] = "closed"
          BY <3>2 DEF Passed
        <4>2. App!CloseOrder[i] \in App!Part
          BY CloseOrderCovers
        <4>3. QED
          BY <1>5, <4>1, <4>2
      <3>3. CASE i = at[k]
        BY <1>8, <3>3
      <3>4. QED
        BY <3>1, <3>2, <3>3
    <2>2. ASSUME NEW j \in Flusher, fate'[j] = "waiting" PROVE state'[App!CloseOrder[at'[j]]] # "open"
      <3>1. j # k /\ fate[j] = "waiting" /\ at'[j] = at[j] /\ state[App!CloseOrder[at[j]]] # "open"
        BY <1>1, <1>3, <2>2 DEF Passed
      <3>2. at[j] \in 1..8
        BY <3>1, Orders DEF Started
      <3>3. PICK q \in App!Part : q = App!CloseOrder[at[j]]
        BY <3>2, CloseOrderCovers
      <3>4. state[q] # "open"
        BY <3>1, <3>3
      <3>5. state'[q] # "open"
        BY <1>5, <3>4
      <3>6. QED
        BY <3>1, <3>3, <3>5
    <2>3. \A j \in Flusher : fate'[j] = "resolved" => at'[j] = 8
      BY <1>1, <1>3 DEF Passed
    <2>4. QED
      BY <2>1, <2>2, <2>3 DEF Passed
  <1>10. NoneLeft'
    <2>1. at[k] = 1 => \A w \in live : door[w] = "grpc"
      <3>1. at[k] = 1 => \A w \in live : door[w] # "http" /\ door[w] # "ws"
        BY <1>2, Orders DEF App!Drained, App!InFlight
      <3>2. \A w \in live : door[w] \in {"http", "ws", "grpc"}
        OBVIOUS
      <3>3. QED
        BY <3>1, <3>2
    <2>2. at[k] = 3 => live = {}
      <3>1. at[k] = 3 => \A w \in live : door[w] # "grpc"
        BY <1>2, Orders DEF App!Drained, App!InFlight
      <3>2. QED
        BY <3>1 DEF NoneLeft
    <2>3. ASSUME NEW j \in Flusher
          PROVE  at'[j] = at[j] \/ (j = k /\ at'[j] = at[k] + 1)
      BY <1>3
    <2>4. ASSUME NEW j \in Flusher
          PROVE  /\ at'[j] >= 2 => \A w \in live : door[w] = "grpc"
                 /\ at'[j] >= 4 => live = {}
      <3>1. CASE at'[j] = at[j]
        BY <3>1 DEF NoneLeft
      <3>2. CASE j = k /\ at'[j] = at[k] + 1
        <4>1. (at[k] = 1 \/ at[k] >= 2) /\ (at'[j] >= 4 => at[k] = 3 \/ at[k] >= 4)
          BY <1>1, <3>2
        <4>2. (at[k] >= 2 => \A w \in live : door[w] = "grpc") /\ (at[k] >= 4 => live = {})
          BY DEF NoneLeft
        <4>3. QED
          BY <4>1, <4>2, <2>1, <2>2
      <3>3. QED
        BY <2>3, <3>1, <3>2
    <2>5. QED
      BY <1>2, <2>4 DEF NoneLeft
  <1>11. InTurn'
    <2>1. \A j \in Flusher : at[j] \in Int /\ at'[j] \in Int /\ at'[j] >= at[j]
      BY <1>1, <1>3, Orders
    <2>2. \A i \in 1..8 : state'[App!CloseOrder[i]] \in {"closing", "closed"}
                             => state[App!CloseOrder[i]] \in {"closing", "closed"}
      BY <1>1, <1>2, CloseOrderCovers
    <2>3. ASSUME NEW i \in 1..8, state'[App!CloseOrder[i]] \in {"closing", "closed"}
          PROVE  \E j \in Flusher : at'[j] >= i
      <3>1. PICK j \in Flusher : at[j] >= i
        BY <2>2, <2>3 DEF InTurn
      <3>2. QED
        BY <2>1, <3>1
    <2>4. QED
      BY <2>3 DEF InTurn
  <1>12. QED
    BY <1>4, <1>6, <1>7, <1>9, <1>10, <1>11

\* A close that rejects stays where it is, and so does one whose process exits.
LEMMA FailStepKeeps == ASSUME AppInv, NEW k \in Flusher, App!FailStep(k) PROVE AppInv'
  <1> USE DEF AppInv, App!TypeOK
  <1>1. /\ fate' = [fate EXCEPT ![k] = "rejected"] /\ fate[k] \in {"refused", "waiting"}
        /\ UNCHANGED <<booted, state, armed, at, live, door, process>>
    BY DEF App!FailStep
  <1>2. App!TypeOK' /\ Opening' /\ Started'
    BY <1>1 DEF Opening, Started
  <1>3. Passed'
    BY <1>1 DEF Passed, Behind
  <1>4. NoneLeft' /\ InTurn'
    BY <1>1 DEF NoneLeft, InTurn
  <1>5. QED
    BY <1>2, <1>3, <1>4

\* An exit or a kill changes no part and no closer.
LEMMA ProcessKeeps ==
    ASSUME AppInv, process' \in {"up", "exited", "killed"},
           UNCHANGED <<booted, state, armed, at, fate, live, door>>
    PROVE  AppInv'
  BY DEF AppInv, App!TypeOK, Opening, Started, Passed, Behind, NoneLeft, InTurn
-----------------------------------------------------------------------------
(* The service: boot and shutdown with the sink behind the logger           *)

\* What a closer has flushed holds every record written during work.
Flushed == \A k \in Flusher : at[k] = 8 /\ fate[k] \in {"waiting", "resolved"} => served <= taken

SinkBounds == written \in Nat /\ taken \in Nat /\ served \in Nat /\ taken <= written /\ served <= written

ServiceInv == AppInv /\ SinkBounds /\ Flushed

\* The sink's counters only grow, and a write that happens while no closer is
\* behind gRPC is the one that may be noted.
LEMMA WriteGrows ==
    ASSUME SinkBounds, Write
    PROVE  written' = written + 1 /\ taken' \in Nat /\ taken <= taken' /\ taken' <= written'
  BY DEF SinkBounds, Write, Splice

\* Records written with nobody in flight leave served alone; with somebody in
\* flight no closer has come to the flush.
LEMMA NoteKeeps ==
    ASSUME ServiceInv, Write, NoteWork, AppInv',
           \A k \in Flusher : at'[k] = 8 => at[k] = 8 /\ fate'[k] = fate[k]
    PROVE  ServiceInv'
  <1>1. written' = written + 1 /\ taken' \in Nat /\ taken <= taken' /\ taken' <= written'
    BY WriteGrows DEF ServiceInv
  <1>2. served' = IF live # {} THEN written' ELSE served
    BY DEF NoteWork
  <1>3. SinkBounds'
    BY <1>1, <1>2 DEF ServiceInv, SinkBounds
  <1>4. Flushed'
    <2>1. ASSUME NEW k \in Flusher, at'[k] = 8, fate'[k] \in {"waiting", "resolved"}
          PROVE  served' <= taken'
      <3>1. live = {}
        BY <2>1 DEF ServiceInv, AppInv, NoneLeft
      <3>2. served <= taken
        BY <2>1 DEF ServiceInv, Flushed
      <3>3. QED
        BY <1>1, <1>2, <3>1, <3>2 DEF ServiceInv, SinkBounds
    <2>2. QED
      BY <2>1 DEF Flushed
  <1>5. QED
    BY <1>3, <1>4 DEF ServiceInv

\* A step the sink takes no part in keeps the bounds.
LEMMA IdleKeeps ==
    ASSUME ServiceInv, SinkIdles, AppInv',
           \A k \in Flusher : at'[k] = 8 /\ fate'[k] \in {"waiting", "resolved"}
                                 => at[k] = 8 /\ fate[k] \in {"waiting", "resolved"}
    PROVE  ServiceInv'
  BY DEF ServiceInv, SinkBounds, Flushed, SinkIdles, vars

\* The flush is the last step.
LEMMA AtLogsIsLast == ASSUME AppInv, NEW k \in Flusher PROVE AtLogs(k) <=> at[k] = 8
  BY Orders DEF AppInv, App!TypeOK, AtLogs

\* A close() just called stands at its first step.
LEMMA CalledIsFirst ==
    ASSUME AppInv, NEW k, App!CallClose(k), NEW j \in Flusher, at'[j] = 8
    PROVE  at[j] = 8 /\ fate'[j] = fate[j]
  BY Orders DEF AppInv, App!TypeOK, App!CallClose

\* The service starts in the invariant.
LEMMA ServiceInitially == InitService => ServiceInv
  <1>1. ASSUME InitService PROVE ServiceInv
    <2>1. AppInv
      BY <1>1, AppInitially DEF InitService
    <2>2. SinkBounds
      BY <1>1 DEF InitService, Init, SinkBounds
    <2>3. Flushed
      BY <1>1 DEF InitService, App!Init, Flushed
    <2>4. QED
      BY <2>1, <2>2, <2>3 DEF ServiceInv
  <1>2. QED
    BY <1>1

\* Each step of the service keeps it.
LEMMA BootKeeps == ASSUME ServiceInv, Boot PROVE ServiceInv'
  <1> USE DEF ServiceInv
  <1>1. CASE App!Open \/ App!OpenFail
    <2>1. AppInv'
      BY <1>1, OpenKeeps, OpenFailKeeps
    <2>2. at' = at /\ fate' = fate
      BY <1>1 DEF App!Open, App!OpenFail
    <2>3. QED
      BY <2>1, <2>2, IdleKeeps DEF Boot
  <1>2. CASE App!ProgramCloses
    <2>1. AppInv'
      BY <1>2, Orders, CallKeeps DEF App!ProgramCloses
    <2>2. App!CallClose("program")
      BY <1>2 DEF App!ProgramCloses
    <2>3. QED
      BY <2>1, <2>2, CalledIsFirst, IdleKeeps DEF Boot
  <1>3. QED
    BY <1>1, <1>2 DEF Boot

\* Work that begins or ends writes nothing.
LEMMA WorkKeeps == ASSUME ServiceInv, NEW w \in Work, Begin(w) \/ End(w) PROVE ServiceInv'
  <1> USE DEF ServiceInv
  <1>1. AppInv'
    BY BeginKeeps, EndKeeps DEF Begin, End
  <1>2. at' = at /\ fate' = fate /\ SinkIdles
    BY DEF Begin, End, App!Begin, App!End
  <1>3. QED
    BY <1>1, <1>2, IdleKeeps

\* A record written while the service runs.
LEMMA LogKeeps == ASSUME ServiceInv, Log PROVE ServiceInv'
  <1>1. UNCHANGED service /\ Write /\ NoteWork
    BY DEF Log
  <1>2. AppInv'
    BY <1>1, ProcessKeeps DEF service, ServiceInv, AppInv, App!TypeOK
  <1>3. QED
    BY <1>1, <1>2, NoteKeeps DEF service

\* The clock and the answers to puts leave the counters alone.
LEMMA SinkKeeps == ASSUME ServiceInv, Time \/ Answer PROVE ServiceInv'
  <1>1. UNCHANGED service /\ UNCHANGED <<served, written, taken>>
    BY DEF Time, Answer, Tick, Applied, Sent, SendFails, Settles
  <1>2. AppInv'
    BY <1>1, ProcessKeeps DEF service, ServiceInv, AppInv, App!TypeOK
  <1>3. QED
    BY <1>1, <1>2 DEF service, ServiceInv, SinkBounds, Flushed

\* A signal writes its record and calls close(), or kills the process.
LEMMA DeliverKeeps == ASSUME ServiceInv, NEW s \in App!Signal, Deliver(s) PROVE ServiceInv'
  <1> USE DEF ServiceInv
  <1>1. CASE s \in armed
    <2>1. /\ App!CallClose(s) /\ s \in Flusher /\ armed' \subseteq armed
          /\ UNCHANGED <<booted, state, live, door, process>>
          /\ Write /\ NoteWork
      BY <1>1 DEF Deliver, App!Deliver
    <2>2. booted = 7
      BY <1>1 DEF AppInv, Started
    <2>3. AppInv'
      BY <2>1, <2>2, CallKeeps
    <2>4. QED
      BY <2>1, <2>3, CalledIsFirst, NoteKeeps
  <1>2. CASE s \notin armed
    <2>1. /\ process' = "killed" /\ UNCHANGED <<booted, state, armed, at, fate, live, door>>
          /\ SinkIdles
      BY <1>2 DEF Deliver, App!Deliver
    <2>2. QED
      BY <2>1, ProcessKeeps, IdleKeeps
  <1>3. QED
    BY <1>1, <1>2

\* The steps of close(), of which only the flush moves the buffer.
LEMMA CloseKeeps == ASSUME ServiceInv, NEW k \in Flusher, CloseStep(k) PROVE ServiceInv'
  <1> USE DEF ServiceInv
  <1>1. CASE PartStep(k)
    <2>1. AppInv' /\ at[k] # 8 /\ SinkIdles
      BY <1>1, BeginStepKeeps, EndStepKeeps, FailStepKeeps, AtLogsIsLast DEF PartStep
    <2>2. at[k] \in 0..8 /\ at \in [Flusher -> 0..8]
          /\ fate \in [Flusher -> {"idle", "calling", "waiting", "refused", "resolved", "rejected"}]
      BY Orders DEF AppInv, App!TypeOK
    <2>3. ASSUME NEW j \in Flusher, at'[j] = 8, fate'[j] \in {"waiting", "resolved"}
          PROVE  at[j] = 8 /\ fate[j] \in {"waiting", "resolved"}
      <3>1. CASE App!BeginStep(k)
        BY <2>1, <2>2, <2>3, <3>1 DEF App!BeginStep
      <3>2. CASE App!EndStep(k)
        BY <2>1, <2>2, <2>3, <3>2, Orders DEF App!EndStep, App!Advance
      <3>3. CASE App!FailStep(k)
        BY <2>1, <2>2, <2>3, <3>3 DEF App!FailStep
      <3>4. QED
        BY <1>1, <3>1, <3>2, <3>3 DEF PartStep
    <2>4. QED
      BY <2>1, <2>3, IdleKeeps
  <1>2. CASE CallFlush(k)
    <2>1. AppInv' /\ written' = written /\ taken' = written /\ served' = served
      BY <1>2, BeginStepKeeps DEF CallFlush, Flush, Splice
    <2>2. SinkBounds'
      BY <2>1 DEF SinkBounds
    <2>3. Flushed'
      BY <2>1 DEF SinkBounds, Flushed
    <2>4. QED
      BY <2>1, <2>2, <2>3
  <1>3. CASE FlushSettles(k)
    <2>1. AppInv' /\ at[k] = 8 /\ SinkIdles
      BY <1>3, EndStepKeeps, FailStepKeeps, AtLogsIsLast DEF FlushSettles
    <2>2. fate \in [Flusher -> {"idle", "calling", "waiting", "refused", "resolved", "rejected"}]
      BY DEF AppInv, App!TypeOK
    <2>3. ASSUME NEW j \in Flusher, at'[j] = 8, fate'[j] \in {"waiting", "resolved"}
          PROVE  at[j] = 8 /\ fate[j] \in {"waiting", "resolved"}
      <3>1. CASE App!EndStep(k)
        BY <2>1, <2>2, <2>3, <3>1, Orders DEF App!EndStep, App!Advance
      <3>2. CASE App!FailStep(k)
        BY <2>1, <2>2, <2>3, <3>2 DEF App!FailStep
      <3>3. QED
        BY <1>3, <3>1, <3>2 DEF FlushSettles
    <2>4. QED
      BY <2>1, <2>3, IdleKeeps
  <1>4. CASE App!Exit(k) /\ SinkIdles
    <2>1. process' = "exited" /\ UNCHANGED <<booted, state, armed, at, fate, live, door>>
      BY <1>4 DEF App!Exit
    <2>2. QED
      BY <1>4, <2>1, ProcessKeeps, IdleKeeps
  <1>5. QED
    BY <1>1, <1>2, <1>3, <1>4 DEF CloseStep

\* So does a step of something else.
LEMMA StutterKeeps == ServiceInv /\ UNCHANGED allvars => ServiceInv'
  <1>1. ASSUME ServiceInv, UNCHANGED allvars PROVE ServiceInv'
    <2>1. UNCHANGED service /\ SinkIdles
      BY <1>1 DEF allvars, SinkIdles
    <2>2. AppInv'
      BY <1>1, <2>1, ProcessKeeps DEF service, ServiceInv, AppInv, App!TypeOK
    <2>3. QED
      BY <1>1, <2>1, <2>2, IdleKeeps DEF service
  <1>2. QED
    BY <1>1

\* The invariant of the service, in every state it can reach.
THEOREM ServiceIsInvariant == ShutdownSpec => []ServiceInv
  <1>1. ServiceInv /\ [NextService]_allvars => ServiceInv'
    <2>1. ASSUME ServiceInv, NextService PROVE ServiceInv'
      BY <2>1, BootKeeps, WorkKeeps, LogKeeps, SinkKeeps, DeliverKeeps, CloseKeeps DEF NextService
    <2>2. QED
      BY <2>1, StutterKeeps
  <1>2. QED
    BY <1>1, ServiceInitially, PTL DEF ShutdownSpec

\* Every reachable state of the service's parts and closers has its type.
THEOREM LifecycleTypes == ShutdownSpec => []App!TypeOK
  <1>1. ServiceInv => App!TypeOK
    BY DEF ServiceInv, AppInv
  <1>2. QED
    BY <1>1, ServiceIsInvariant, PTL

\* Whatever is in flight finds the cache, the databases and the bus open, in
\* whatever order closers, signals and failing steps meet (Kinara.close, boot).
THEOREM WorkFindsBackends == ShutdownSpec => []BackendsOutliveWork
  <1>1. ASSUME AppInv PROVE BackendsOutliveWork
    <2>1. ASSUME live # {}, NEW b \in App!Backend \cap Configured PROVE state[b] = "open"
      <3>1. state[b] # "none"
        BY <1>1, <2>1 DEF AppInv, Opening
      <3>2. ~ \E k \in Flusher : at[k] >= 4
        BY <1>1, <2>1 DEF AppInv, NoneLeft
      <3>3. state[b] \in {"none", "open", "closing", "closed"}
        BY <1>1 DEF AppInv, App!TypeOK
      <3>4. PICK i \in 1..8 : App!CloseOrder[i] = b /\ i >= 4
        BY <2>1, Orders
      <3>5. \A k \in Flusher : at[k] \in Int
        BY <1>1, Orders DEF AppInv, App!TypeOK
      <3>6. state[b] \notin {"closing", "closed"}
        BY <1>1, <3>2, <3>4, <3>5 DEF AppInv, InTurn
      <3>7. QED
        BY <3>1, <3>3, <3>6
    <2>2. QED
      BY <2>1 DEF BackendsOutliveWork, App!BackendsOutliveWork
  <1>2. ServiceInv => BackendsOutliveWork
    BY <1>1 DEF ServiceInv
  <1>3. QED
    BY <1>2, ServiceIsInvariant, PTL

\* A close() that resolves has closed every part the service uses, whatever came
\* before it and runs beside it, and no part is touched before those ahead of it are
\* closed (Kinara.close).
THEOREM CloseGoesInOrder == ShutdownSpec => []ClosesInOrder
  <1>1. ASSUME AppInv, NEW k \in Flusher, fate[k] = "resolved", NEW p \in Configured
        PROVE  state[p] = "closed"
    <2>1. PICK i \in 1..8 : App!CloseOrder[i] = p
      BY CloseOrderCovers, ShutdownAssumption
    <2>2. Behind(k, i)
      BY <1>1 DEF AppInv, Passed, Behind
    <2>3. QED
      BY <1>1, <2>1, <2>2 DEF AppInv, Passed
  <1>2. ASSUME AppInv, NEW i \in 1..8, NEW j \in 1..8, i < j, App!CloseOrder[i] \in Configured,
               state[App!CloseOrder[j]] \in {"closing", "closed"}
        PROVE  state[App!CloseOrder[i]] = "closed"
    <2>1. PICK k \in Flusher : at[k] >= j
      BY <1>2 DEF AppInv, InTurn
    <2>2. at[k] \in Int
      BY <1>2, Orders DEF AppInv, App!TypeOK
    <2>3. Behind(k, i)
      BY <1>2, <2>1, <2>2 DEF Behind
    <2>4. QED
      BY <1>2, <2>3 DEF AppInv, Passed
  <1>3. ServiceInv => ClosesInOrder
    BY <1>1, <1>2, Orders DEF ServiceInv, ClosesInOrder, App!ClosesInOrder, App!Closed
  <1>4. QED
    BY <1>3, ServiceIsInvariant, PTL

\* What was logged during work is out of the buffer when the process exits behind a
\* close() that resolved: the flush comes behind the last request, client and RPC.
THEOREM WorkLeavesTheBuffer == ShutdownSpec => []WorkIsLogged
  <1>1. ServiceInv => WorkIsLogged
    BY DEF ServiceInv, AppInv, Passed, Flushed, WorkIsLogged, App!Lone
  <1>2. QED
    BY <1>1, ServiceIsInvariant, PTL
-----------------------------------------------------------------------------
(* Shutdown implements LogSink                                              *)

\* A step of the service that is none of the sink leaves the sink as it is.
LEMMA IdleIsStutter == SinkIdles => UNCHANGED vars
  BY DEF SinkIdles

\* Each step of the service is a step of the sink or leaves the sink alone.
LEMMA ServiceStep == ASSUME NextService PROVE [Next]_vars
<1>1. CASE Boot
  BY <1>1, IdleIsStutter DEF Boot
<1>2. CASE Log
  BY <1>2 DEF Log, Next
<1>3. CASE Time
  BY <1>3 DEF Time, Next
<1>4. CASE Answer
  BY <1>4 DEF Answer, Next
<1>5. ASSUME NEW w \in Work, Begin(w) \/ End(w) PROVE [Next]_vars
  BY <1>5, IdleIsStutter DEF Begin, End
<1>6. ASSUME NEW s \in App!Signal, Deliver(s) PROVE [Next]_vars
  BY <1>6, IdleIsStutter DEF Deliver, Next
<1>7. ASSUME NEW k \in Flusher, CloseStep(k) PROVE [Next]_vars
  <2>1. CASE PartStep(k)
    BY <2>1, IdleIsStutter DEF PartStep
  <2>2. CASE CallFlush(k)
    BY <2>2 DEF CallFlush, Next
  <2>3. CASE FlushSettles(k)
    BY <2>3, IdleIsStutter DEF FlushSettles
  <2>4. CASE App!Exit(k) /\ SinkIdles
    BY <2>4, IdleIsStutter
  <2> QED BY <1>7, <2>1, <2>2, <2>3, <2>4 DEF CloseStep
<1> QED BY <1>1, <1>2, <1>3, <1>4, <1>5, <1>6, <1>7 DEF NextService

\* The composition implements the sink: whatever order a service boots, logs, closes
\* and is killed in, its log sink behaves as LogSink says.
THEOREM ServiceHasSink == ShutdownSpec => Spec
<1>1. InitService => Init
  BY DEF InitService
<1>2. [NextService]_allvars => [Next]_vars
  <2>1. CASE NextService
    BY <2>1, ServiceStep
  <2>2. CASE UNCHANGED allvars
    BY <2>2 DEF allvars
  <2> QED BY <2>1, <2>2
<1> QED BY <1>1, <1>2, PTL DEF ShutdownSpec, Spec

\* In a service that shuts down no record is lost or sent twice by the sink itself
\* (createS3LogSink under Kinara.close).
THEOREM NothingTwiceInService == ShutdownSpec => []EachRecordOnce
  BY ServiceHasSink, NothingTwice, PTL

\* When the flush() at the end of Kinara.close returns, the buffer holds nothing that
\* was written before it and its own batch has been answered.
THEOREM CloseFlushes == ShutdownSpec => []FlushAnswers
  BY ServiceHasSink, FlushIsAnswered, PTL

\* In a service each record has one fate too, whatever boots, closes and exits between
\* its being written and its being answered.
THEOREM OneFateInService == ShutdownSpec => RecordsHaveOneFate
  BY ServiceHasSink, RecordsKeepOneFate, PTL
=============================================================================
