----------------------------- MODULE ByteStream -----------------------------
(***************************************************************************)
(* What the byte paths of the library promise, whatever rings, interrupts  *)
(* and controllers they are made of: what is put in comes out, once and in *)
(* order, and nothing else does. Opening a stream forgets what was in it.  *)
(* A stream may fail for good; it promises nothing from then on.           *)
(***************************************************************************)
EXTENDS Naturals, Sequences

VARIABLES open,     \* bytes may be put in
          failed,
          put, got  \* what went in and what came out since the opening

stream == <<open, failed, put, got>>

Init ==
    /\ open \in BOOLEAN /\ failed = FALSE
    /\ put = <<>> /\ got = <<>>

Open ==
    /\ ~open /\ open'
    /\ put' = <<>> /\ got' = <<>>

(* Bytes still in the stream may come out of it after it was closed.       *)
Close == open /\ ~open' /\ UNCHANGED <<put, got>>

Put ==
    /\ open /\ Len(put) < Len(put')
    /\ put = SubSeq(put', 1, Len(put))
    /\ UNCHANGED <<open, got>>

Get ==
    /\ Len(got) < Len(put)
    /\ got' = Append(got, put[Len(got) + 1])
    /\ UNCHANGED <<open, put>>

Next == failed' \/ (~failed' /\ ~failed /\ (Open \/ Close \/ Put \/ Get))

Spec == Init /\ [][Next]_stream
=============================================================================
