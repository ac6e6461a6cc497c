--------------------------- MODULE RingBufferProofs ---------------------------
(***************************************************************************)
(* The ring buffer keeps its promise for every size and for every write:   *)
(* what it returns is the end of all that was written to it.               *)
(***************************************************************************)
EXTENDS RingBuffer, TLAPS, SequenceTheorems

\* end + n wraps around at most once.
LEMMA WrapOnce ==
  ASSUME NEW size \in Nat \ {0}, NEW e \in 0..size-1, NEW n \in 0..size-1
  PROVE  (e + n) % size = IF e + n < size THEN e + n ELSE e + n - size
  <1>1. CASE e + n < size
    BY <1>1, Z3T(20)
  <1>2. CASE e + n >= size
    BY <1>2, Z3T(20)
  <1>. QED  BY <1>1, <1>2

\* The byte at k of the history w with p written after it.
LEMMA Appended ==
  ASSUME NEW w \in Seq(Int), NEW p \in Seq(Int), NEW k \in 1..Len(w) + Len(p)
  PROVE  (w \o p)[k] = IF k <= Len(w) THEN w[k] ELSE p[k - Len(w)]
  BY ConcatProperties

\* The length of a concatenation.
LEMMA Lengths ==
  ASSUME NEW w \in Seq(Int), NEW p \in Seq(Int)
  PROVE  /\ Len(w) \in Nat /\ Len(p) \in Nat
         /\ Len(w \o p) = Len(w) + Len(p)
         /\ p \in [1..Len(p) -> Int]
  BY ConcatProperties, LenProperties

\* A full buffer holds the last bytes, the oldest of them at end.
LEMMA FullHolds ==
  ASSUME NEW size \in Nat \ {0}, NEW v, NEW r,
         r.buf \in [0..size-1 -> Int], r.full = TRUE, r.end \in 0..size-1,
         r.start = r.end, Len(v) >= size,
         \A i \in 0..size-1 :
            r.buf[i] = v[IF i < r.end THEN Len(v) - r.end + i + 1
                         ELSE Len(v) - size - r.end + i + 1]
  PROVE  RingOK(r, size, v)
  <1>1. \A i \in 0..size-1 :
          r.buf[i] = IF i < r.end THEN v[Len(v) - r.end + i + 1]
                     ELSE v[Len(v) - size - r.end + i + 1]
    OBVIOUS
  <1>. QED  BY <1>1 DEF RingOK

\* The optimisation for writes that fill the whole buffer.
LEMMA LongWrite ==
  ASSUME NEW size \in Nat \ {0}, NEW w \in Seq(Int), NEW p \in Seq(Int),
         NEW rb, RingOK(rb, size, w), Len(p) >= size
  PROVE  RingOK(WriteLong(rb, size, p), size, w \o p)
  <1>. DEFINE r == WriteLong(rb, size, p)
              v == w \o p
  <1>1. Fills(rb, size, Len(p)) = TRUE
    BY DEF Fills, RingOK
  <1>2. r.full = TRUE /\ r.start = 0 /\ r.end = 0
    BY <1>1 DEF WriteLong
  <1>3. r.buf = [i \in 0..size-1 |-> p[Len(p) - size + i + 1]]
    BY DEF WriteLong
  <1>4. r.buf \in [0..size-1 -> Int]
    BY <1>3
  <1>5. Len(w) \in Nat /\ Len(p) \in Nat /\ Len(v) = Len(w) + Len(p)
    BY Lengths
  <1>6. ASSUME NEW k \in 1..Len(w) + Len(p), k > Len(w)
        PROVE  v[k] = p[k - Len(w)]
    BY <1>5, <1>6, Appended
  <1>. HIDE DEF r, v
  <1>7. ASSUME NEW i \in 0..size-1
        PROVE  r.buf[i] = v[IF i < r.end THEN Len(v) - r.end + i + 1
                            ELSE Len(v) - size - r.end + i + 1]
    <2>. DEFINE j == IF i < r.end THEN Len(v) - r.end + i + 1
                     ELSE Len(v) - size - r.end + i + 1
    <2>1. /\ j \in 1..Len(w) + Len(p) /\ j > Len(w)
          /\ j - Len(w) = Len(p) - size + i + 1
      BY <1>2, <1>5
    <2>2. r.buf[i] = p[Len(p) - size + i + 1]
      BY <1>3
    <2>. HIDE DEF j
    <2>3. v[j] = p[j - Len(w)]
      BY <1>6, <2>1
    <2>4. r.buf[i] = v[j]
      BY <2>1, <2>2, <2>3
    <2>. QED  BY <2>4 DEF j
  <1>8. Len(v) >= size /\ r.end \in 0..size-1 /\ r.start = r.end
    BY <1>2, <1>5
  <1>9. RingOK(r, size, v)
    BY <1>2, <1>4, <1>7, <1>8, FullHolds
  <1>. QED  BY <1>9 DEF r, v

\* A write that does not: it wraps around at most once.
LEMMA ShortWrite ==
  ASSUME NEW size \in Nat \ {0}, NEW w \in Seq(Int), NEW p \in Seq(Int),
         NEW rb, RingOK(rb, size, w), Len(p) < size
  PROVE  RingOK(WriteShort(rb, size, p), size, w \o p)
  <1>. DEFINE r == WriteShort(rb, size, p)
              n == Len(p)
              e == rb.end
              l == Len(w)
              room == Lesser(e + n, size) - e
              v == w \o p
  <1>1. n \in 0..size-1 /\ e \in 0..size-1 /\ l \in Nat
    BY Lengths DEF RingOK
  <1>2. room = IF e + n < size THEN n ELSE size - e
    BY <1>1 DEF Lesser
  <1>3. r.end = IF e + n < size THEN e + n ELSE e + n - size
    <2>1. r.end = (e + n) % size
      BY DEF WriteShort
    <2>. HIDE DEF e, n
    <2>. QED  BY <1>1, <2>1, WrapOnce
  <1>4. r.full = Fills(rb, size, n)
    BY DEF WriteShort
  <1>5. r.start = IF Fills(rb, size, n) THEN r.end ELSE rb.start
    BY DEF WriteShort
  <1>6. r.buf = [i \in 0..size-1 |->
                   IF i >= e /\ i < e + room THEN p[i - e + 1]
                   ELSE IF i < n - room THEN p[room + i + 1] ELSE rb.buf[i]]
    BY DEF WriteShort
  <1>7. rb.buf \in [0..size-1 -> Int]
    BY DEF RingOK
  <1>8. p \in [1..n -> Int] /\ Len(v) = l + n
    BY Lengths
  <1>9. ASSUME NEW k \in 1..l + n
        PROVE  v[k] = IF k <= l THEN w[k] ELSE p[k - l]
    BY Appended
  <1>. HIDE DEF r, v, n, e, l, room
  <1>10. r.buf \in [0..size-1 -> Int]
    BY SMTT(30), <1>1, <1>2, <1>6, <1>7, <1>8
  <1>11. r.end \in 0..size-1
    BY <1>1, <1>3
  <1>13. ASSUME rb.full PROVE RingOK(r, size, v)
    <2>1. r.full = TRUE /\ r.start = r.end
      BY <1>4, <1>5, <1>13 DEF Fills
    <2>2. l >= size /\ Len(v) >= size
      BY <1>1, <1>8, <1>13 DEF RingOK, l
    <2>3. ASSUME NEW i \in 0..size-1
          PROVE  r.buf[i] = v[IF i < r.end THEN Len(v) - r.end + i + 1
                              ELSE Len(v) - size - r.end + i + 1]
      <3>. DEFINE j == IF i < r.end THEN Len(v) - r.end + i + 1
                       ELSE Len(v) - size - r.end + i + 1
                  o == IF i < e THEN l - e + i + 1 ELSE l - size - e + i + 1
      <3>1. rb.buf[i] = w[o]
        BY <1>13 DEF RingOK, e, l
      <3>2. j \in 1..l + n
        BY <1>1, <1>3, <1>8, <2>2
      <3>3. i >= e /\ i < e + room => j > l /\ j - l = i - e + 1
        BY <1>1, <1>2, <1>3, <1>8
      <3>4. ~(i >= e /\ i < e + room) /\ i < n - room
              => j > l /\ j - l = room + i + 1
        BY <1>1, <1>2, <1>3, <1>8
      <3>5. ~(i >= e /\ i < e + room) /\ ~(i < n - room) => j <= l /\ j = o
        BY <1>1, <1>2, <1>3, <1>8
      <3>. HIDE DEF j, o
      <3>6. v[j] = IF j <= l THEN w[j] ELSE p[j - l]
        BY <1>9, <3>2
      <3>7. r.buf[i] = IF i >= e /\ i < e + room THEN p[i - e + 1]
                   ELSE IF i < n - room THEN p[room + i + 1] ELSE rb.buf[i]
        BY <1>6
      <3>8. r.buf[i] = v[j]
        <4>1. CASE i >= e /\ i < e + room
          BY <1>1, <3>2, <3>3, <3>6, <3>7, <4>1
        <4>2. CASE ~(i >= e /\ i < e + room) /\ i < n - room
          BY <1>1, <3>2, <3>4, <3>6, <3>7, <4>2
        <4>3. CASE ~(i >= e /\ i < e + room) /\ ~(i < n - room)
          BY <1>1, <3>1, <3>2, <3>5, <3>6, <3>7, <4>3
        <4>. QED  BY <4>1, <4>2, <4>3
      <3>. QED  BY <3>8 DEF j
    <2>. QED  BY <1>10, <1>11, <2>1, <2>2, <2>3, FullHolds
  <1>14. ASSUME ~rb.full PROVE RingOK(r, size, v)
    <2>1. rb.start = 0 /\ e = l
      BY <1>14 DEF RingOK, e, l
    <2>2. ASSUME NEW i \in 0..size-1, i < e
          PROVE  rb.buf[i] = w[i + 1]
      BY <1>14, <2>2 DEF RingOK, e
    <2>3. CASE e + n >= size
      <3>1. r.full = TRUE /\ r.start = r.end
        BY <1>4, <1>5, <2>3 DEF Fills, e
      <3>2. ASSUME NEW i \in 0..size-1
            PROVE  r.buf[i] = v[IF i < r.end THEN Len(v) - r.end + i + 1
                                ELSE Len(v) - size - r.end + i + 1]
        <4>. DEFINE j == IF i < r.end THEN Len(v) - r.end + i + 1
                         ELSE Len(v) - size - r.end + i + 1
        <4>1. j \in 1..l + n
          BY <1>1, <1>3, <1>8, <2>1, <2>3
        <4>2. i >= e /\ i < e + room => j > l /\ j - l = i - e + 1
          BY <1>1, <1>2, <1>3, <1>8, <2>1, <2>3
        <4>3. ~(i >= e /\ i < e + room) /\ i < n - room
                => j > l /\ j - l = room + i + 1
          BY <1>1, <1>2, <1>3, <1>8, <2>1, <2>3
        <4>4. ~(i >= e /\ i < e + room) /\ ~(i < n - room)
                => j <= l /\ j = i + 1 /\ i < e
          BY <1>1, <1>2, <1>3, <1>8, <2>1, <2>3
        <4>. HIDE DEF j
        <4>5. v[j] = IF j <= l THEN w[j] ELSE p[j - l]
          BY <1>9, <4>1
        <4>6. r.buf[i] = IF i >= e /\ i < e + room THEN p[i - e + 1]
                     ELSE IF i < n - room THEN p[room + i + 1] ELSE rb.buf[i]
          BY <1>6
        <4>7. i < e => rb.buf[i] = w[i + 1]
          BY <2>2
        <4>8. r.buf[i] = v[j]
          BY <1>1, <4>1, <4>2, <4>3, <4>4, <4>5, <4>6, <4>7
        <4>. QED  BY <4>8 DEF j
      <3>3. Len(v) >= size
        BY <1>1, <1>8, <2>1, <2>3
      <3>. QED  BY <1>10, <1>11, <3>1, <3>2, <3>3, FullHolds
    <2>4. CASE e + n < size
      <3>1. r.full = FALSE /\ r.start = 0 /\ r.end = Len(v)
        <4>1. Fills(rb, size, n) = FALSE
          BY <1>1, <1>14, <2>4 DEF Fills, e
        <4>. QED  BY <1>1, <1>3, <1>4, <1>5, <1>8, <2>1, <2>4, <4>1
      <3>2. ASSUME NEW i \in 0..size-1, i < r.end
            PROVE  r.buf[i] = v[i + 1]
        <4>. DEFINE j == i + 1
        <4>1. j \in 1..l + n
          BY <1>1, <1>8, <3>1, <3>2
        <4>2. i < e => j <= l /\ ~(i < n - room)
          BY <1>1, <1>2, <2>1, <2>4
        <4>3. ~(i < e) => i >= e /\ i < e + room /\ j > l /\ j - l = i - e + 1
          BY <1>1, <1>2, <1>3, <2>1, <2>4, <3>2
        <4>4. i < e => rb.buf[i] = w[j]
          BY <2>2
        <4>. HIDE DEF j
        <4>5. v[j] = IF j <= l THEN w[j] ELSE p[j - l]
          BY <1>9, <4>1
        <4>6. r.buf[i] = IF i >= e /\ i < e + room THEN p[i - e + 1]
                     ELSE IF i < n - room THEN p[room + i + 1] ELSE rb.buf[i]
          BY <1>6
        <4>7. r.buf[i] = v[j]
          <5>1. CASE i < e
            BY <1>1, <4>1, <4>2, <4>4, <4>5, <4>6, <5>1
          <5>2. CASE ~(i < e)
            <6>1. i >= e /\ i < e + room /\ ~(j <= l) /\ j - l = i - e + 1
              BY <1>1, <4>1, <4>3, <5>2
            <6>2. r.buf[i] = p[i - e + 1]
              BY <4>6, <6>1
            <6>. QED  BY <4>5, <6>1, <6>2
          <5>. QED  BY <5>1, <5>2
        <4>. QED  BY <4>7 DEF j
      <3>. QED  BY <1>10, <1>11, <3>1, <3>2 DEF RingOK
    <2>. QED  BY <1>1, <2>3, <2>4
  <1>15. rb.full \in BOOLEAN
    BY DEF RingOK
  <1>16. RingOK(r, size, v)
    BY <1>13, <1>14, <1>15
  <1>. QED  BY <1>16 DEF r, v

-----------------------------------------------------------------------------
\* A new buffer has had nothing written to it.
THEOREM NewIsEmpty ==
  ASSUME NEW size \in Nat \ {0}
  PROVE  RingOK(New(size), size, <<>>)
  BY DEF RingOK, New, Blank

\* Write, of however many bytes into a buffer of any size, keeps every byte of
\* the history in the place where Read looks for it.
THEOREM WriteKeepsHistory ==
  ASSUME NEW size \in Nat \ {0}, NEW w \in Seq(Int), NEW p \in Seq(Int),
         NEW rb, RingOK(rb, size, w)
  PROVE  RingOK(Write(rb, size, p), size, w \o p)
  <1>1. Len(p) \in Nat
    OBVIOUS
  <1>2. CASE Len(p) >= size
    BY <1>2, LongWrite DEF Write
  <1>3. CASE Len(p) < size
    BY <1>1, <1>3, ShortWrite DEF Write
  <1>. QED  BY <1>1, <1>2, <1>3

\* ReadAll returns the last size bytes written, oldest first: what a daemon
\* that attaches to a shell is shown.
THEOREM ReadAllIsLast ==
  ASSUME NEW size \in Nat \ {0}, NEW w \in Seq(Int), NEW rb, RingOK(rb, size, w)
  PROVE  ReadAll(rb, size) = LastOf(w, size)
  <1>. DEFINE n == Lesser(Len(w), size)
              stop == Lesser(rb.start + n, size)
  <1>1. rb.full \in BOOLEAN /\ rb.end \in 0..size-1 /\ Len(w) \in Nat
    BY DEF RingOK
  <1>2. ReadLen(rb, size, size) = n
    BY <1>1 DEF ReadLen, RingOK, Lesser
  <1>3. \A k \in 1..n :
          (IF k <= stop - rb.start THEN rb.buf[rb.start + k - 1]
           ELSE rb.buf[k - 1 - (stop - rb.start)]) = w[Len(w) - n + k]
    <2>. SUFFICES ASSUME NEW k \in 1..n
                  PROVE  (IF k <= stop - rb.start THEN rb.buf[rb.start + k - 1]
                          ELSE rb.buf[k - 1 - (stop - rb.start)]) = w[Len(w) - n + k]
      OBVIOUS
    <2>1. CASE rb.full
      <3>1. n = size /\ rb.start = rb.end /\ stop = size
        BY <1>1, <2>1 DEF RingOK, Lesser
      <3>. DEFINE i == IF k <= size - rb.end THEN rb.end + k - 1
                       ELSE k - 1 - (size - rb.end)
      <3>2. i \in 0..size-1
        BY <1>1, <3>1
      <3>3. rb.buf[i] = IF i < rb.end THEN w[Len(w) - rb.end + i + 1]
                        ELSE w[Len(w) - size - rb.end + i + 1]
        BY <2>1, <3>2 DEF RingOK
      <3>4. CASE k <= size - rb.end
        <4>1. ~(i < rb.end) /\ Len(w) - size - rb.end + i + 1 = Len(w) - n + k
          BY <1>1, <3>1, <3>4
        <4>. QED  BY <3>1, <3>3, <3>4, <4>1
      <3>5. CASE ~(k <= size - rb.end)
        <4>1. i < rb.end /\ Len(w) - rb.end + i + 1 = Len(w) - n + k
          BY <1>1, <3>1, <3>5
        <4>. QED  BY <3>1, <3>3, <3>5, <4>1
      <3>. QED  BY <3>4, <3>5
    <2>2. CASE ~rb.full
      <3>1. n = Len(w) /\ rb.start = 0 /\ rb.end = Len(w) /\ stop = n
        BY <1>1, <2>2 DEF RingOK, Lesser
      <3>2. k - 1 \in 0..size-1 /\ k - 1 < rb.end
        BY <1>1, <3>1
      <3>3. rb.buf[k - 1] = w[k - 1 + 1]
        BY <2>2, <3>2 DEF RingOK
      <3>. QED  BY <1>1, <3>1, <3>3
    <2>. QED  BY <1>1, <2>1, <2>2
  <1>4. ReadAll(rb, size) =
          [k \in 1..n |-> IF k <= stop - rb.start THEN rb.buf[rb.start + k - 1]
                          ELSE rb.buf[k - 1 - (stop - rb.start)]]
    BY <1>2 DEF ReadAll, Read
  <1>5. LastOf(w, size) = [k \in 1..n |-> w[Len(w) - n + k]]
    BY DEF LastOf
  <1>. QED  BY <1>3, <1>4, <1>5
=============================================================================
