------------------------------- MODULE LogSink -------------------------------
(* The S3 log sink (src/log/s3.ts) behind the logger (src/logger.ts).        *)
(* Records are numbered in the order they are written.  A flush takes the    *)
(* whole buffer before its first await, names the object after the           *)
(* millisecond and sends it; writes do not wait for one another, so several  *)
(* batches can be under way.  Time is in ms, within one hour's prefix.       *)
EXTENDS Integers

CONSTANTS FlushEvery,   \* options.flushEvery
          Flusher,      \* callers of flush(), as app.close() is
          MaxRecord,    \* bound on the records written
          MaxTime       \* bound on the clock

ASSUME SinkAssumption ==
    FlushEvery \in Nat \ {0} /\ MaxRecord \in Nat /\ MaxTime \in Nat

Record == 1..MaxRecord
Batch == [first : Record, last : Record, key : 0..MaxTime]

VARIABLES
    clock,     \* Date.now()
    written,   \* records written; the buffer is taken + 1 .. written
    taken,     \* records spliced out of the buffer
    sending,   \* batches whose put has not been answered
    bucket,    \* objects in the bucket
    failed,    \* batches whose send rejected, though the put may have been applied
    replaced,  \* history: objects a later one of the same key replaced
    waits,     \* waits[f]: the batch the flush() of f sent, if it sent one
    mark,      \* mark[f]: records written when f called flush()
    done       \* flush() calls that returned

vars == <<clock, written, taken, sending, bucket, failed, replaced, waits, mark, done>>

TypeOK ==
    /\ clock \in 0..MaxTime
    /\ written \in 0..MaxRecord /\ taken \in 0..written
    /\ sending \subseteq Batch /\ bucket \subseteq Batch
    /\ failed \subseteq Batch /\ replaced \subseteq Batch
    /\ waits \in [Flusher -> SUBSET Batch]
    /\ mark \in [Flusher -> 0..MaxRecord]
    /\ done \subseteq Flusher

Init ==
    /\ clock = 0 /\ written = 0 /\ taken = 0
    /\ sending = {} /\ bucket = {} /\ failed = {} /\ replaced = {}
    /\ waits = [f \in Flusher |-> {}]
    /\ mark = [f \in Flusher |-> 0]
    /\ done = {}
-----------------------------------------------------------------------------
\* What flush() makes of a buffer that ends with record n.
BatchUpTo(n) == [first |-> taken + 1, last |-> n, key |-> clock]

\* buffer.splice(0, length), and one that is off by one; what follows in flush(), the
\* await of the send, and a flush() that does not await.
SpliceKeepsLast(n) == taken' = n - 1
Splice(n) == taken' = n
NoAwait(f) == done' = done \cup {f}
Await(f) == UNCHANGED done

\* sink.write: push, and flush when the buffer has reached its size.
Write ==
    /\ written < MaxRecord
    /\ written' = written + 1
    /\ IF written + 1 - taken >= FlushEvery
         THEN sending' = sending \cup {BatchUpTo(written + 1)} /\ Splice(written + 1)
         ELSE UNCHANGED <<sending, taken>>
    /\ UNCHANGED <<clock, bucket, failed, replaced, waits, mark, done>>

\* flush(): an empty buffer returns at once, whatever is still being sent.
Flush(f) ==
    /\ f \notin done /\ waits[f] = {}
    /\ mark' = [mark EXCEPT ![f] = written]
    /\ IF taken = written
         THEN done' = done \cup {f} /\ UNCHANGED <<sending, taken, waits>>
         ELSE /\ sending' = sending \cup {BatchUpTo(written)}
              /\ waits' = [waits EXCEPT ![f] = {BatchUpTo(written)}]
              /\ Splice(written)
              /\ Await(f)
    /\ UNCHANGED <<clock, written, bucket, failed, replaced>>

\* S3 applies the put: the object takes the place of one with the same key.  The
\* answer is on its way.
Applied(b) ==
    /\ b \in sending /\ b \notin bucket \cup replaced
    /\ bucket' = {x \in bucket : x.key # b.key} \cup {b}
    /\ replaced' = replaced \cup {x \in bucket : x.key = b.key}
    /\ UNCHANGED <<clock, written, taken, sending, failed, waits, mark, done>>

Settles(b) ==
    /\ sending' = sending \ {b}
    /\ done' = done \cup {f \in Flusher : b \in waits[f]}
    /\ UNCHANGED <<clock, written, taken, bucket, replaced, waits, mark>>

\* The put resolves.
Sent(b) == b \in sending \cap (bucket \cup replaced) /\ Settles(b) /\ UNCHANGED failed

\* The import or the put rejects, or the answer to a put that was applied is lost: the
\* batch is dropped, the error goes to the console or to the caller of flush().
SendFails(b) == b \in sending /\ Settles(b) /\ failed' = failed \cup {b}

Tick ==
    /\ clock < MaxTime
    /\ clock' = clock + 1
    /\ UNCHANGED <<written, taken, sending, bucket, failed, replaced, waits, mark, done>>

Next ==
    \/ Write \/ Tick
    \/ \E f \in Flusher : Flush(f)
    \/ \E b \in sending : Applied(b) \/ Sent(b) \/ SendFails(b)

Spec == Init /\ [][Next]_vars
-----------------------------------------------------------------------------
(* Properties                                                                *)

Batches == sending \cup bucket \cup failed \cup replaced
Holds(b, n) == b.first <= n /\ n <= b.last

Fate(n) ==
    CASE n > written -> "none"
      [] taken < n /\ n <= written -> "buffered"
      [] OTHER -> IF \E b \in sending : Holds(b, n) THEN "sent"
                  ELSE IF \E b \in failed : Holds(b, n) THEN "failed"
                  ELSE IF \E b \in bucket : Holds(b, n) THEN "stored" ELSE "replaced"

Fates == [n \in Record |-> Fate(n)]
Asked == [f \in Flusher |-> {n \in Record : \E b \in waits[f] : Holds(b, n)}]

Records == INSTANCE RecordLog WITH fate <- Fates, asked <- Asked, returned <- done

\* Batches, keys and bucket implement one fate per record: each is sent once, with all
\* that was buffered, answered once and never sent again, and a flush() returns when
\* what it sent has been answered, however writes, flushes, puts and answers
\* interleave.  What failed may be in the bucket all the same.
RecordsHaveOneFate == Records!RSpec

\* Every record that left the buffer is in exactly one batch, so however writes and
\* flushes overlap nothing is sent twice, and nothing is lost but by a rejected put
\* or by a second object of the same millisecond.
EachRecordOnce ==
    \A n \in Record :
        /\ n <= taken => \E b \in Batches : Holds(b, n)
        /\ \A b, c \in Batches : Holds(b, n) /\ Holds(c, n) => b = c

\* An object holds the records of one unbroken stretch, and an earlier key never
\* holds later records: reading the bucket by key gives the log in order.
KeysFollowRecords ==
    \A b, c \in Batches : b.first < c.first => b.last < c.first /\ b.key <= c.key

\* When a flush() returns, every record written before its call has been put, was
\* rejected or replaced, or is in a batch an earlier call is still sending: the
\* buffer holds none of them, and what it sent itself has been answered.
FlushAnswers ==
    \A f \in done :
        /\ mark[f] <= taken
        /\ waits[f] \cap sending = {}
=============================================================================
