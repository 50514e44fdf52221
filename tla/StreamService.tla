---------------------------- MODULE StreamService ----------------------------
(***************************************************************************)
(* What a TCP connection promises its two applications, whatever happens   *)
(* on the path and whenever either end is closed: a stream.                *)
(*                                                                         *)
(* The receiver gets what was written, in order, each segment once; the    *)
(* end of the stream only after the writer has closed and all of it has    *)
(* come; and the writer's socket lets go of nothing the receiver does not  *)
(* have.  It promises no progress: an end may give up.                     *)
(***************************************************************************)
EXTENDS Integers

CONSTANTS
  Length      \* segments the writer may write

VARIABLES
  written,    \* segments written
  closed,     \* the writer has closed
  delivered,  \* segments handed on, in order
  ended,      \* the receiver knows the end of the stream
  released    \* segments the writer's socket has let go of

vars == <<written, closed, delivered, ended, released>>

Init ==
  /\ written = 0
  /\ closed = FALSE
  /\ delivered = 0
  /\ ended = FALSE
  /\ released = 0

Write ==
  /\ ~closed /\ written < Length
  /\ written' = written + 1
  /\ UNCHANGED <<closed, delivered, ended, released>>

Close ==
  /\ closed' = TRUE
  /\ UNCHANGED <<written, delivered, ended, released>>

\* One arrival may fill a hole and bring the end with it.
Deliver ==
  /\ ~ended
  /\ delivered' \in delivered .. written
  /\ ended' \in {e \in BOOLEAN : e => closed /\ delivered' = written}
  /\ UNCHANGED <<written, closed, released>>

Release ==
  /\ released' \in released .. delivered
  /\ UNCHANGED <<written, closed, delivered, ended>>

Next == Write \/ Close \/ Deliver \/ Release

Spec == Init /\ [][Next]_vars

\* What the four parts of the promise come to: nothing is invented or skipped,
\* the end comes with the last segment, and what is released has been delivered.
StreamSafe ==
  /\ 0 <= released /\ released <= delivered /\ delivered <= written
  /\ ended => closed /\ delivered = written

=============================================================================
