----------------------------- MODULE RecordLog ------------------------------
(* What a log sink promises of each record (src/log/s3.ts), with no batches, *)
(* keys, clock or bucket: a record is buffered when it is written, sent once *)
(* with all that is buffered, and stored or failed once; and a flush()       *)
(* returns when what it sent has been answered.                              *)
EXTENDS Integers

CONSTANTS Record, Flusher

VARIABLES fate,      \* fate[n]: how far record n has come
          asked,     \* asked[f]: the records the flush() of f sent
          returned   \* the flush() calls that returned

rvars == <<fate, asked, returned>>

At(how) == {n \in Record : fate[n] = how}
Buffered == At("buffered")
Becomes(R, how) == [n \in Record |-> IF n \in R THEN how ELSE fate[n]]

RInit ==
    /\ fate = [n \in Record |-> "none"]
    /\ asked = [f \in Flusher |-> {}]
    /\ returned = {}

\* Records come in order; one may fill the buffer, and sends it.
Add(n) ==
    /\ \A m \in Record : fate[m] = "none" <=> m >= n
    /\ \/ fate' = Becomes({n}, "buffered")
       \/ fate' = Becomes(Buffered \cup {n}, "sent")
    /\ UNCHANGED <<asked, returned>>

AskNothing(f) ==
    /\ f \notin returned /\ asked[f] = {} /\ Buffered = {}
    /\ returned' = returned \cup {f}
    /\ UNCHANGED <<fate, asked>>

Ask(f) ==
    /\ f \notin returned /\ asked[f] = {} /\ Buffered # {}
    /\ fate' = Becomes(Buffered, "sent")
    /\ asked' = [asked EXCEPT ![f] = Buffered]
    /\ UNCHANGED returned

\* What was sent is answered, and whoever asked for it returns: it is stored, unless it
\* has been replaced by then, or has failed.
Settled(R) ==
    /\ R # {}
    /\ returned' = returned \cup {f \in Flusher : asked[f] # {} /\ asked[f] \subseteq R}
    /\ \E how \in {"stored", "replaced", "failed"} : fate' = Becomes(R, how)
    /\ UNCHANGED asked

\* Something stored later takes the place of what was.
Overwritten(R) ==
    /\ fate' = Becomes(R, "replaced")
    /\ UNCHANGED <<asked, returned>>

RNext ==
    \/ \E n \in Record : Add(n)
    \/ \E f \in Flusher : AskNothing(f) \/ Ask(f)
    \/ \E R \in SUBSET At("sent") : Settled(R)
    \/ \E R \in SUBSET At("stored") : Overwritten(R)

RSpec == RInit /\ [][RNext]_rvars
=============================================================================
