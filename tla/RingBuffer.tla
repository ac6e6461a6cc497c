------------------------------ MODULE RingBuffer ------------------------------
(***************************************************************************)
(* bzerolib/ringbuffer: the last bytes of a shell's output, kept by the    *)
(* agent so that a daemon that attaches can show them again.  A buffer of  *)
(* size bytes, indexed from 0, is a record [buf, start, end, full].        *)
(***************************************************************************)
EXTENDS Integers, Sequences

Lesser(x, y) == IF x < y THEN x ELSE y

\* What the constructor allocates: zero bytes.
Blank == 0

New(size) == [buf |-> [i \in 0..size-1 |-> Blank],
              start |-> 0, end |-> 0, full |-> FALSE]

\* Write(p): as much as fits up to the end of the buffer, then what remains
\* from its beginning; p longer than the buffer leaves only its last bytes.
\* Faulty variant: a buffer filled to its last byte does not count as full.
FillsLate(rb, size, n) == rb.full \/ rb.end + n > size

Fills(rb, size, n) == rb.full \/ rb.end + n >= size

WriteLong(rb, size, p) ==
  [buf |-> [i \in 0..size-1 |-> p[Len(p) - size + i + 1]],
   start |-> 0, end |-> 0, full |-> Fills(rb, size, Len(p))]

WriteShort(rb, size, p) ==
  LET n == Len(p)
      room == Lesser(rb.end + n, size) - rb.end
      end == (rb.end + n) % size
  IN [buf |-> [i \in 0..size-1 |->
                 IF i >= rb.end /\ i < rb.end + room THEN p[i - rb.end + 1]
                 ELSE IF i < n - room THEN p[room + i + 1] ELSE rb.buf[i]],
      start |-> IF Fills(rb, size, n) THEN end ELSE rb.start,
      end |-> end, full |-> Fills(rb, size, n)]

Write(rb, size, p) ==
  IF Len(p) >= size THEN WriteLong(rb, size, p) ELSE WriteShort(rb, size, p)

\* Read: from start, wrapping around once, at most max bytes.
ReadLen(rb, size, max) ==
  Lesser(max, IF rb.full THEN size ELSE rb.end - rb.start)

Read(rb, size, max) ==
  LET n == ReadLen(rb, size, max)
      stop == Lesser(rb.start + n, size)
  IN [k \in 1..n |-> IF k <= stop - rb.start THEN rb.buf[rb.start + k - 1]
                     ELSE rb.buf[k - 1 - (stop - rb.start)]]

ReadAll(rb, size) == Read(rb, size, size)

-----------------------------------------------------------------------------
(* What the buffer promises: it holds the last size bytes of all that was  *)
(* written, oldest first.                                                  *)

LastOf(w, size) ==
  LET n == Lesser(Len(w), size) IN [k \in 1..n |-> w[Len(w) - n + k]]

\* Where each byte of the history w is.
RingOK(rb, size, w) ==
  /\ rb.buf \in [0..size-1 -> Int]
  /\ rb.full \in BOOLEAN
  /\ rb.end \in 0..size-1
  /\ IF rb.full
       THEN /\ rb.start = rb.end /\ Len(w) >= size
            /\ \A i \in 0..size-1 :
                 rb.buf[i] = IF i < rb.end THEN w[Len(w) - rb.end + i + 1]
                             ELSE w[Len(w) - size - rb.end + i + 1]
       ELSE /\ rb.start = 0 /\ rb.end = Len(w)
            /\ \A i \in 0..size-1 : i < rb.end => rb.buf[i] = w[i + 1]
=============================================================================
