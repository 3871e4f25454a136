----------------------------- MODULE EventNames -----------------------------
(* Event names and the patterns listeners subscribe with                     *)
(* (src/security/event-name.ts).  A name is the sequence of its              *)
(* dot-separated segments; the segment EmptySegment stands for the text      *)
(* between two adjacent dots, or after a trailing one, both of which the     *)
(* name grammar lets through ("user." is a legal name).                      *)
EXTENDS Integers, Sequences

CONSTANTS Segment,        \* the texts a segment can have
          EmptySegment,   \* the empty text
          MaxSegments     \* bound on the length of a name

ASSUME SegmentAssumption ==
    /\ EmptySegment \in Segment
    /\ MaxSegments \in Nat \ {0}

\* EVENT_NAME: the first segment starts with a letter, so it is not empty.
EventName ==
    {n \in UNION {[1..k -> Segment] : k \in 1..MaxSegments} :
        n[1] # EmptySegment}

\* EVENT_PATTERN: "*", a name, a name and ".*" ("dotted"), or a name with a
\* star glued to its last segment ("user*"), which the grammar also accepts.
EventPattern ==
    [star : {"none", "dotted", "glued"}, name : EventName]
        \cup [star : {"all"}, name : {<<>>}]

\* matchesEvent.  "a.*" is the text prefix "a." with something after it; a glued
\* star is compared as an ordinary character and so equals no event name.
matchesEvent(p, e) ==
    \/ p.star = "all"
    \/ p.star = "none" /\ p.name = e
    \/ /\ p.star = "dotted"
       /\ Len(e) > Len(p.name)
       /\ SubSeq(e, 1, Len(p.name)) = p.name
       /\ SubSeq(e, Len(p.name) + 1, Len(e)) # <<EmptySegment>>
=============================================================================
