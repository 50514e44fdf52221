---------------------------- MODULE ReceiveWindow ----------------------------
(***************************************************************************)
(* What the buffer of a TCP receiver promises, without its packets, its    *)
(* counters or its SACK list: a set of positions of the stream.            *)
(*                                                                         *)
(* All of a segment that the window has room for is kept, none of it       *)
(* twice; what is read is the stream, from where the last read stopped and *)
(* never past the first hole, which is what the receiver asks for.         *)
(***************************************************************************)
EXTENDS Integers

CONSTANTS
  N,          \* bytes of the stream
  MaxBuffer   \* bytes the buffer may hold

VARIABLES
  got,        \* positions that have come
  read,       \* bytes the application has read
  next,       \* what the receiver asks for
  fin         \* the end of the stream is known

vars == <<got, read, next, fin>>

\* The first missing position.
Hole(g) == CHOOSE n \in 0 .. N : n \notin g /\ 0 .. (n - 1) \subseteq g

\* The first hole, or one past the FIN when only that is left.
Asked(g, f) == IF f /\ Hole(g) = N THEN N + 1 ELSE Hole(g)

Init ==
  /\ got = {}
  /\ read = 0
  /\ next = 0
  /\ fin = FALSE

\* A segment comes, in a window that starts at the first byte not read.
Take ==
  /\ \E a, b \in 0 .. N : /\ a < b /\ b <= read + MaxBuffer
                          /\ got' = got \union (a .. (b - 1))
  /\ next' = Asked(got', fin)
  /\ UNCHANGED <<read, fin>>

\* The FIN comes, with the last bytes of the stream or alone.
TakeFin ==
  /\ fin' = TRUE
  /\ \E a \in 0 .. N : /\ a < N => N <= read + MaxBuffer
                       /\ got' = got \union (a .. (N - 1))
  /\ next' = Asked(got', fin')
  /\ UNCHANGED read

\* A read returns all that is in order, up to the size the reader asks for.
Read(max) ==
  /\ LET avail == Hole(got) - read
     IN /\ avail > 0
        /\ read' = read + (IF max < avail THEN max ELSE avail)
  /\ UNCHANGED <<got, next, fin>>

Next == Take \/ TakeFin \/ \E max \in 1 .. N : Read(max)

Spec == Init /\ [][Next]_vars

=============================================================================
