------------------------------ MODULE Streams ------------------------------
(***************************************************************************)
(* Byte streams.  The bytes an end sends are numbered 1, 2, 3, ... in the  *)
(* order it sends them, so that a part of a stream that was neither        *)
(* reordered nor holed nor doubled is a run of consecutive numbers.        *)
(***************************************************************************)
EXTENDS Naturals, Sequences

Numbers == Nat \ {0}

\* The bytes after the first a, up to the b-th: <<a+1, ..., b>>.
Span(a, b) == [i \in 1 .. (b - a) |-> a + i]

\* What a read of n bytes takes from a stream, and what it leaves there.
Taken(s, n)  == SubSeq(s, 1, n)
Remaining(s, n) == SubSeq(s, n + 1, Len(s))
=============================================================================
