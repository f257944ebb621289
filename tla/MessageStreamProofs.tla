------------------------ MODULE MessageStreamProofs -------------------------
(***************************************************************************)
(* Messages over the stream socket, for any lengths of prefix, header and  *)
(* bodies, any buffer, any pieces and any number of frames.  The argument  *)
(* looks at the bytes that are still to be read, wherever they are: what   *)
(* is left in readBuff, then the socket, then what the kernel has not      *)
(* queued.  As long as RecvMessage did not lose the frames they are the    *)
(* rest of the frame that it is in, followed by the frames after it.  Lost *)
(* or not, they come after all that was read, in the order of the stream.  *)
(***************************************************************************)
EXTENDS MessageStream, SequenceTheorems, TLAPS

\* The bytes still to be read.
Buffered == SubSeq(readBuff, readBuffOff + 1, Len(readBuff))
Pending == Buffered \o (socket \o sending)

\* Where RecvMessage is: byte NextByte of frame Reading.
Reading == Len(received) + 1
NextByte ==
  IF part = "length" THEN 1
  ELSE IF part = "header" THEN Prefix + 1 + Len(got) ELSE Prefix + Header + 1 + Len(got)

\* q is frames of s from byte k of frame m: it begins there and ends with the
\* last frame; with a byte it has the whole frame, at the distances they have in
\* it, and after the last byte of a frame the first of the next; and it has no
\* byte twice.
Length(s, a) == Prefix + Header + s[a]
From(a, m, k) == IF a = m THEN k ELSE 1
At(q, i, a, b) == q[i][1] = a /\ q[i][2] = b
InOrder(q, s, m, k) ==
  /\ Len(q) = 0 => m = Len(s) + 1 /\ k = 1
  /\ Len(q) > 0 => At(q, 1, m, k) /\ At(q, Len(q), Len(s), Length(s, Len(s)))
  /\ \A i \in 1..Len(q) :
       q[i][1] \in m..Len(s) /\ q[i][2] \in From(q[i][1], m, k)..Length(s, q[i][1])
  /\ \A i \in 1..Len(q) : \A b \in From(q[i][1], m, k)..Length(s, q[i][1]) :
       i + b - q[i][2] \in 1..Len(q) /\ At(q, i + b - q[i][2], q[i][1], b)
  /\ \A i \in 1..(Len(q) - 1) :
       q[i][2] = Length(s, q[i][1]) => At(q, i + 1, q[i][1] + 1, 1)
  /\ \A i, j \in 1..Len(q) : q[i][1] = q[j][1] /\ q[i][2] = q[j][2] => i = j

\* What RecvMessage took the parts to be, and what it has read of them.
GotInv ==
  /\ part # "dead"
  /\ part = "length" => got = <<>>
  /\ part # "length" => /\ Reading <= Len(sent)
                        /\ headerLength = Header /\ bodyLength = sent[Reading]
  /\ part = "body" => \A i \in 1..Len(got) : At(got, i, Reading, Prefix + Header + i)

\* A part that is being read is not complete.
PartInv == part \in {"header", "body"} => Len(got) < Wanted

\* RecvMessage did not lose the frames.
LiveInv == ~lost => InOrder(Pending, sent, Reading, NextByte) /\ GotInv

\* A stream that was never crowded has one frame, in one place.
CrowdInv ==
  ~crowded =>
    /\ ~lost /\ Len(sent) <= Reading
    /\ part = "length" => Remaining = 0
    /\ part # "length" => sending = <<>>
    /\ sending # <<>> => socket = <<>> /\ Len(sending) <= Chunk

\* Of n frames: the messages R that were returned, the bytes g of the part being
\* read and the bytes p still to be read are each in the order of the stream, and
\* in this order.
Within(q, n) == \A i \in 1..Len(q) : q[i][1] <= n
Ordered(R, g, p, n) ==
  /\ Ascending(g) /\ Ascending(p) /\ Precedes(g, p) /\ Within(g, n) /\ Within(p, n)
  /\ \A i \in 1..Len(R) : /\ Ascending(R[i]) /\ Within(R[i], n)
                          /\ Precedes(R[i], g) /\ Precedes(R[i], p)
  /\ \A i, j \in 1..Len(R) : i < j => Precedes(R[i], R[j])
OrderInv == Ordered(received, got, Pending, Len(sent))

StreamInv == TypeOK /\ PartInv /\ Intact /\ LiveInv /\ CrowdInv /\ OrderInv

-----------------------------------------------------------------------------
(* Frames in order                                                         *)

\* The first bytes are read: they are those of the frame, and the rest is in
\* order from the byte after them.
LEMMA Advances ==
  ASSUME NEW q \in Seq(Cell), NEW r \in Seq(Cell), NEW s \in Seq(Bodies), NEW l \in Nat \ {0},
         NEW m \in Nat \ {0}, NEW k \in Nat \ {0}, m <= Len(s), k + l <= Length(s, m) + 1,
         InOrder(q, s, m, k), Len(q) = l + Len(r), \A i \in 1..Len(r) : r[i] = q[i + l]
  PROVE  /\ \A i \in 1..l : At(q, i, m, k + i - 1)
         /\ k + l <= Length(s, m) => InOrder(r, s, m, k + l)
         /\ k + l = Length(s, m) + 1 => InOrder(r, s, m + 1, 1)
  <1> DEFINE n == Len(s)
             L(a) == Length(s, a)
             Q == Len(q)
             R == Len(r)
  <1>0. n \in Nat /\ Q \in Nat /\ R \in Nat /\ Q = l + R /\ Q > 0
    BY LenProperties
  <1>1. ASSUME NEW a \in 1..n PROVE L(a) \in Nat
    <2>1. s[a] \in Nat /\ Prefix \in Nat /\ Header \in Nat
      BY StreamAssumption, ElementOfSeq
    <2> QED  BY <2>1 DEF Length
  <1>2. L(m) \in Nat /\ k + l <= L(m) + 1
    BY <1>0, <1>1
  <1>3. At(q, 1, m, k) /\ At(q, Q, n, L(n))
    BY <1>0 DEF InOrder
  <1>4. \A i \in 1..Q : q[i][1] \in m..n /\ q[i][2] \in From(q[i][1], m, k)..L(q[i][1])
    BY DEF InOrder
  <1>5. \A i \in 1..Q : \A b \in From(q[i][1], m, k)..L(q[i][1]) :
          i + b - q[i][2] \in 1..Q /\ At(q, i + b - q[i][2], q[i][1], b)
    BY DEF InOrder
  <1>6. \A i \in 1..(Q - 1) : q[i][2] = L(q[i][1]) => At(q, i + 1, q[i][1] + 1, 1)
    BY DEF InOrder
  <1>7. \A i, j \in 1..Q : q[i][1] = q[j][1] /\ q[i][2] = q[j][2] => i = j
    BY DEF InOrder
  <1>8. \A i \in 1..R : i + l \in 1..Q /\ r[i] = q[i + l]
    BY <1>0
  <1> HIDE DEF n, L, Q, R
  <1>9. ASSUME NEW i \in 1..Q
        PROVE  q[i][1] \in m..n /\ q[i][1] \in Nat /\ q[i][2] \in Nat /\ L(q[i][1]) \in Nat
    <2>1. q[i][1] \in m..n /\ q[i][2] \in From(q[i][1], m, k)..L(q[i][1])
      BY <1>4
    <2>2. q[i][1] \in Nat /\ L(q[i][1]) \in Nat
      <3> DEFINE a == q[i][1]
      <3>1. a \in m..n
        BY <2>1
      <3> HIDE DEF a
      <3>2. a \in 1..n
        BY <1>0, <3>1
      <3>3. L(a) \in Nat /\ a \in Nat
        BY <1>1, <3>2
      <3> QED  BY <3>3 DEF a
    <2>3. From(q[i][1], m, k) \in Nat
      BY DEF From
    <2> QED  BY <2>1, <2>2, <2>3
  \* A byte of the frame is where it has to be.
  <1>10. ASSUME NEW b \in k..L(m)
         PROVE  1 + b - k \in 1..Q /\ At(q, 1 + b - k, m, b)
    <2>1. 1 \in 1..Q /\ q[1][1] = m /\ q[1][2] = k
      BY <1>0, <1>3 DEF At
    <2>2. b \in From(q[1][1], m, k)..L(q[1][1])
      BY <2>1 DEF From
    <2> QED  BY <1>5, <2>1, <2>2
  <1>11. ASSUME NEW i \in 1..l PROVE At(q, i, m, k + i - 1)
    <2>1. k + i - 1 \in k..L(m) /\ 1 + (k + i - 1) - k = i
      BY <1>2
    <2> QED  BY <1>10, <2>1
  <1>12. ASSUME NEW i \in 1..Q, q[i][1] = m PROVE q[i][2] = k + i - 1
    <2>1. q[i][2] \in From(q[i][1], m, k)..L(q[i][1]) /\ q[i][2] \in Nat
      BY <1>4, <1>9
    <2>2. From(q[i][1], m, k) = k
      BY <1>12 DEF From
    <2>3. k \in From(q[i][1], m, k)..L(q[i][1])
      BY <1>2, <1>12, <2>1, <2>2
    <2>4. i + k - q[i][2] \in 1..Q /\ At(q, i + k - q[i][2], m, k)
      BY <1>5, <1>12, <2>3
    <2>5. 1 \in 1..Q
      BY <1>0
    <2>6. i + k - q[i][2] = 1
      BY <1>3, <1>7, <2>4, <2>5 DEF At
    <2> DEFINE b == q[i][2]
    <2>7. b \in Nat /\ i + k - b = 1 /\ i \in Nat
      BY <1>0, <2>1, <2>6
    <2> HIDE DEF b
    <2>8. b = k + i - 1
      BY <2>7
    <2> QED  BY <2>8 DEF b
  \* The bytes that are not read keep their order.
  <1>13. ASSUME NEW i \in 1..(R - 1), r[i][2] = L(r[i][1]) PROVE At(r, i + 1, r[i][1] + 1, 1)
    <2>1. /\ i + l \in 1..(Q - 1) /\ i \in 1..R /\ i + 1 \in 1..R /\ (i + 1) + l = (i + l) + 1
      BY <1>0
    <2>2. r[i] = q[i + l] /\ r[i + 1] = q[(i + 1) + l]
      BY <1>8, <2>1
    <2>3. At(q, (i + l) + 1, q[i + l][1] + 1, 1)
      BY <1>6, <1>13, <2>1, <2>2
    <2> QED  BY <2>1, <2>2, <2>3 DEF At
  <1>14. ASSUME NEW i \in 1..R, NEW j \in 1..R, r[i][1] = r[j][1], r[i][2] = r[j][2] PROVE i = j
    <2>1. i + l \in 1..Q /\ j + l \in 1..Q /\ r[i] = q[i + l] /\ r[j] = q[j + l]
      BY <1>8
    <2>2. i + l = j + l
      BY <1>7, <1>14, <2>1
    <2> QED  BY <1>0, <2>2
  <1>15. ASSUME R > 0 PROVE At(r, R, n, L(n))
    <2>1. R \in 1..R /\ R + l = Q
      BY <1>0, <1>15
    <2>2. r[R] = q[Q]
      BY <1>8, <2>1
    <2> QED  BY <1>3, <2>2 DEF At
  \* A byte that is not read has the bytes of its frame that are not read.
  <1>16. ASSUME NEW i \in 1..R, NEW b \in 1..L(r[i][1]), r[i][1] = m => b >= k + l
         PROVE  i + b - r[i][2] \in 1..R /\ At(r, i + b - r[i][2], r[i][1], b)
    <2> DEFINE j == i + l
               x == q[j][2]
               e == j + b - x
    <2>1. j \in 1..Q /\ r[i] = q[j] /\ j \in Nat /\ i \in Nat
      <3>1. i + l \in 1..Q /\ r[i] = q[i + l]
        BY <1>8
      <3>2. i \in Nat /\ i + l \in Nat
        BY <1>0
      <3> QED  BY <3>1, <3>2, Zenon
    <2>2. q[j][1] \in Nat /\ q[j][2] \in Nat /\ L(q[j][1]) \in Nat
      BY <1>9, <2>1
    <2>3. b \in From(q[j][1], m, k)..L(q[j][1]) /\ b \in Nat
      BY <1>16, <2>1, <2>2 DEF From
    <2>4. e \in 1..Q /\ At(q, e, q[j][1], b)
      BY <1>5, <2>1, <2>3
    <2>5. e > l
      <3>1. CASE q[j][1] = m
        <4>1. b >= k + l /\ q[j][2] = k + j - 1
          BY <1>12, <1>16, <2>1, <3>1
        <4>2. x \in Nat /\ b \in Nat /\ b >= k + l /\ x = k + j - 1 /\ j \in Nat
          BY <2>1, <2>2, <2>3, <4>1
        <4> HIDE DEF x, j
        <4> QED  BY <4>2
      <3>2. CASE q[j][1] # m
        <4> SUFFICES ASSUME ~(e > l) PROVE FALSE
          OBVIOUS
        <4>1. e \in 1..l
          BY <1>0, <2>4
        <4>2. At(q, e, m, k + e - 1)
          BY <1>11, <4>1
        <4> HIDE DEF e
        <4> QED  BY <2>4, <3>2, <4>2 DEF At
      <3> QED  BY <3>1, <3>2
    <2>6. e - l \in 1..R /\ e \in Nat
      <3>1. e \in 1..Q /\ e > l
        BY <2>4, <2>5, Zenon
      <3> HIDE DEF e
      <3> QED  BY <1>0, <3>1
    <2>7. r[e - l] = q[e]
      <3> HIDE DEF e
      <3>1. (e - l) + l = e
        BY <2>6
      <3>2. r[e - l] = q[(e - l) + l]
        BY <1>8, <2>6
      <3> QED  BY <3>1, <3>2
    <2>8. e - l = i + b - x
      <3>1. x \in Nat /\ b \in Nat /\ i \in Nat
        BY <2>1, <2>2, <2>3
      <3> HIDE DEF x
      <3> QED  BY <3>1
    <2>9. r[i][2] = x
      BY <2>1
    <2> HIDE DEF e, j, x
    <2> QED  BY <2>1, <2>4, <2>6, <2>7, <2>8, <2>9 DEF At
  <1>17. ASSUME k + l <= L(m) PROVE InOrder(r, s, m, k + l)
    <2>1. k + l \in k..L(m) /\ 1 + (k + l) - k = 1 + l
      BY <1>2, <1>17
    <2>2. l + 1 \in 1..Q /\ At(q, l + 1, m, k + l)
      BY <1>10, <2>1
    <2>3. R > 0 /\ 1 \in 1..R
      BY <1>0, <2>2
    <2>4. At(r, 1, m, k + l)
      <3>1. r[1] = q[1 + l]
        BY <1>8, <2>3
      <3> QED  BY <2>2, <3>1 DEF At
    <2>5. ASSUME NEW i \in 1..R
          PROVE  r[i][1] \in m..n /\ r[i][2] \in From(r[i][1], m, k + l)..L(r[i][1])
      <3>1. i + l \in 1..Q /\ r[i] = q[i + l]
        BY <1>8
      <3>2. q[i + l][1] \in m..n /\ q[i + l][2] \in From(q[i + l][1], m, k)..L(q[i + l][1])
        BY <1>4, <3>1
      <3>3. q[i + l][1] \in Nat /\ q[i + l][2] \in Nat /\ L(q[i + l][1]) \in Nat
        BY <1>9, <3>1
      <3>4. q[i + l][1] = m => q[i + l][2] = k + (i + l) - 1
        BY <1>12, <3>1
      <3> QED  BY <3>1, <3>2, <3>3, <3>4 DEF From
    <2>6. ASSUME NEW i \in 1..R, NEW b \in From(r[i][1], m, k + l)..L(r[i][1])
          PROVE  i + b - r[i][2] \in 1..R /\ At(r, i + b - r[i][2], r[i][1], b)
      <3>1. r[i] = q[i + l] /\ i + l \in 1..Q
        BY <1>8
      <3>2. L(r[i][1]) \in Nat
        BY <1>9, <3>1
      <3>3. b \in 1..L(r[i][1]) /\ (r[i][1] = m => b >= k + l)
        BY <3>2 DEF From
      <3> QED  BY <1>16, <3>3
    <2> QED  BY <1>13, <1>14, <1>15, <2>3, <2>4, <2>5, <2>6 DEF InOrder, n, L, R
  <1>18. ASSUME k + l = L(m) + 1 PROVE InOrder(r, s, m + 1, 1)
    <2>1. l \in 1..l /\ k + l - 1 = L(m)
      <3> DEFINE x == L(m)
      <3>1. x \in Nat /\ k + l = x + 1
        BY <1>2, <1>18
      <3> HIDE DEF x
      <3>2. k + l - 1 = x
        BY <3>1
      <3> QED  BY <3>2 DEF x
    <2>2. At(q, l, m, L(m)) /\ l \in 1..Q
      BY <1>0, <1>11, <2>1
    <2>3. ASSUME R = 0 PROVE m + 1 = n + 1
      <3>1. l = Q
        BY <1>0, <2>3
      <3> QED  BY <1>3, <2>2, <3>1 DEF At
    <2>4. ASSUME R > 0 PROVE At(r, 1, m + 1, 1)
      <3>1. l \in 1..(Q - 1) /\ 1 \in 1..R
        BY <1>0, <2>4
      <3>2. At(q, l + 1, m + 1, 1)
        BY <1>6, <2>2, <3>1 DEF At
      <3>3. r[1] = q[1 + l]
        BY <1>8, <3>1
      <3> QED  BY <3>2, <3>3 DEF At
    <2>5. ASSUME NEW i \in 1..R
          PROVE  r[i][1] \in m + 1..n /\ r[i][2] \in From(r[i][1], m + 1, 1)..L(r[i][1])
      <3>1. i + l \in 1..Q /\ r[i] = q[i + l]
        BY <1>8
      <3>2. q[i + l][1] \in m..n /\ q[i + l][2] \in From(q[i + l][1], m, k)..L(q[i + l][1])
        BY <1>4, <3>1
      <3>3. q[i + l][1] \in Nat /\ q[i + l][2] \in Nat /\ L(q[i + l][1]) \in Nat
        BY <1>9, <3>1
      <3>4. q[i + l][1] # m
        <4> SUFFICES ASSUME q[i + l][1] = m PROVE FALSE
          OBVIOUS
        <4>1. q[i + l][2] = k + (i + l) - 1
          BY <1>12, <3>1
        <4>2. q[i + l][2] <= L(m)
          BY <3>2, <3>3
        <4> DEFINE x == q[i + l][2]
                   y == L(m)
        <4>3. x = k + (i + l) - 1 /\ x <= y /\ y \in Nat /\ k + l = y + 1 /\ i \in Nat \ {0}
          BY <1>0, <1>2, <1>18, <4>1, <4>2
        <4> HIDE DEF x, y
        <4> QED  BY <4>3
      <3> DEFINE a == q[i + l][1]
      <3>5. a \in m..n /\ a # m /\ a \in Nat
        BY <3>2, <3>3, <3>4
      <3>6. q[i + l][2] \in 1..L(a) /\ From(a, m + 1, 1) = 1
        BY <3>2, <3>3, <3>4 DEF From
      <3>7. r[i][1] = a /\ r[i][2] = q[i + l][2]
        BY <3>1
      <3> HIDE DEF a
      <3>8. a \in m + 1..n
        BY <1>0, <3>5
      <3> QED  BY <3>6, <3>7, <3>8
    <2>6. ASSUME NEW i \in 1..R, NEW b \in From(r[i][1], m + 1, 1)..L(r[i][1])
          PROVE  i + b - r[i][2] \in 1..R /\ At(r, i + b - r[i][2], r[i][1], b)
      <3>1. From(r[i][1], m + 1, 1) = 1 /\ r[i][1] # m
        BY <2>5 DEF From
      <3> QED  BY <1>16, <3>1
    <2> QED  BY <1>0, <1>13, <1>14, <1>15, <2>3, <2>4, <2>5, <2>6 DEF InOrder, n, L, R
  <1> QED  BY <1>11, <1>17, <1>18 DEF L

\* Bytes first to last of frame m.
LEMMA CellsAre ==
  ASSUME NEW m \in 1..MaxFrames, NEW first \in Nat \ {0}, NEW last \in Nat, last >= first - 1
  PROVE  /\ Cells(m, first, last) \in Seq(Cell) /\ Len(Cells(m, first, last)) = last - first + 1
         /\ \A i \in 1..(last - first + 1) : At(Cells(m, first, last), i, m, first + i - 1)
         /\ DOMAIN Cells(m, first, last) = 1..(last - first + 1)
  <1> DEFINE z == last - first + 1
             c == Cells(m, first, last)
  <1>1. z \in Nat
    OBVIOUS
  <1>2. c = [i \in 1..z |-> <<m, first + i - 1>>]
    BY DEF Cells
  <1> HIDE DEF z, c
  <1>3. \A i \in 1..z : <<m, first + i - 1>> \in Cell
    BY <1>1 DEF Cell
  <1>4. c \in Seq(Cell) /\ Len(c) = z /\ DOMAIN c = 1..z
    <2>1. c \in [1..z -> Cell]
      BY <1>2, <1>3
    <2> QED  BY <1>1, <2>1
  <1>5. \A i \in 1..z : At(c, i, m, first + i - 1)
    BY <1>2 DEF At
  <1> QED  BY <1>4, <1>5 DEF z, c

\* The bytes of a frame.
LEMMA FrameIs ==
  ASSUME NEW m \in 1..MaxFrames, NEW body \in Bodies
  PROVE  /\ Frame(m, body) \in Seq(Cell) /\ Len(Frame(m, body)) = Prefix + Header + body
         /\ \A i \in 1..(Prefix + Header + body) : At(Frame(m, body), i, m, i)
  <1> DEFINE z == Prefix + Header + body
             c == Cells(m, 1, z)
  <1>1. z \in Nat /\ z > 0 /\ c = Frame(m, body)
    BY StreamAssumption DEF Frame
  <1> HIDE DEF z
  <1>2. z >= 1 - 1 /\ z - 1 + 1 = z /\ (\A i \in 1..z : 1 + i - 1 = i) /\ 1 \in Nat \ {0}
    BY <1>1
  <1>3. /\ c \in Seq(Cell) /\ Len(c) = z - 1 + 1
        /\ \A i \in 1..(z - 1 + 1) : At(c, i, m, 1 + i - 1)
    BY <1>1, <1>2, CellsAre
  <1> HIDE DEF c
  <1> QED  BY <1>1, <1>2, <1>3 DEF z

\* A frame is sent: it comes after the frames that are under way.
LEMMA FrameJoins ==
  ASSUME NEW q \in Seq(Cell), NEW s \in Seq(Bodies), NEW body \in Bodies, NEW m \in Nat \ {0},
         NEW k \in Nat \ {0}, m <= Len(s) + 1, Len(s) < MaxFrames, InOrder(q, s, m, k),
         m = Len(s) + 1 => k = 1
  PROVE  InOrder(q \o Frame(Len(s) + 1, body), Append(s, body), m, k)
  <1> DEFINE n == Len(s)
             u == Append(s, body)
             f == Frame(n + 1, body)
             z == Prefix + Header + body
             p == q \o f
             Q == Len(q)
  <1>0. n \in Nat /\ Q \in Nat /\ z \in Nat /\ z > 0 /\ n + 1 \in 1..MaxFrames
    BY LenProperties, StreamAssumption
  <1>1. f \in Seq(Cell) /\ Len(f) = z /\ \A i \in 1..z : At(f, i, n + 1, i)
    <2> HIDE DEF n
    <2> QED  BY <1>0, FrameIs
  <1>2. u \in Seq(Bodies) /\ Len(u) = n + 1 /\ u[n + 1] = body /\ \A a \in 1..n : u[a] = s[a]
    BY AppendProperties
  <1>3. Length(u, n + 1) = z /\ \A a \in 1..n : Length(u, a) = Length(s, a)
    BY <1>2 DEF Length
  <1> HIDE DEF f, u, z
  <1>4. /\ p \in Seq(Cell) /\ Len(p) = Q + z /\ \A i \in 1..Q : i \in 1..(Q + z) /\ p[i] = q[i]
        /\ \A i \in 1..z : Q + i \in 1..(Q + z) /\ p[Q + i] = f[i]
    <2>1. /\ p \in Seq(Cell) /\ Len(p) = Q + z
          /\ \A i \in 1..(Q + z) : p[i] = IF i <= Q THEN q[i] ELSE f[i - Q]
      <3>1. /\ q \o f \in Seq(Cell) /\ Len(q \o f) = Len(q) + Len(f)
            /\ \A i \in 1..(Len(q) + Len(f)) : (q \o f)[i] = IF i <= Len(q) THEN q[i] ELSE f[i - Len(q)]
        BY <1>1, ConcatProperties
      <3>2. Len(f) = z /\ Len(q) = Q
        BY <1>1
      <3> HIDE DEF Q
      <3> QED  BY <3>1, <3>2
    <2> HIDE DEF p, Q
    <2>2. \A i \in 1..z : Q + i \in 1..(Q + z) /\ ~(Q + i <= Q) /\ (Q + i) - Q = i
      BY <1>0
    <2>3. \A i \in 1..Q : i \in 1..(Q + z) /\ i <= Q
      BY <1>0
    <2> QED  BY <2>1, <2>2, <2>3
  <1>5. Q > 0 => At(q, 1, m, k) /\ At(q, Q, n, Length(s, n)) /\ m <= n /\ n > 0
    <2>1. Q > 0 => 1 \in 1..Q /\ At(q, 1, m, k) /\ At(q, Q, n, Length(s, n)) /\ q[1][1] \in m..n
      BY <1>0 DEF InOrder
    <2> QED  BY <1>0, <2>1 DEF At
  <1>6. Q = 0 => m = n + 1 /\ k = 1
    BY DEF InOrder
  <1>7. \A i \in 1..Q : q[i][1] \in m..n /\ q[i][2] \in From(q[i][1], m, k)..Length(s, q[i][1])
    BY DEF InOrder
  <1>8. \A i \in 1..Q : \A b \in From(q[i][1], m, k)..Length(s, q[i][1]) :
          i + b - q[i][2] \in 1..Q /\ At(q, i + b - q[i][2], q[i][1], b)
    BY DEF InOrder
  <1>9. \A i \in 1..(Q - 1) : q[i][2] = Length(s, q[i][1]) => At(q, i + 1, q[i][1] + 1, 1)
    BY DEF InOrder
  <1>10. \A i, j \in 1..Q : q[i][1] = q[j][1] /\ q[i][2] = q[j][2] => i = j
    BY DEF InOrder
  <1> HIDE DEF n, p, Q
  <1>11. \A i \in 1..Q : q[i][1] \in 1..n /\ Length(u, q[i][1]) = Length(s, q[i][1])
    <2> SUFFICES ASSUME NEW i \in 1..Q
                 PROVE  q[i][1] \in 1..n /\ Length(u, q[i][1]) = Length(s, q[i][1])
      OBVIOUS
    <2> DEFINE a == q[i][1]
    <2>1. a \in m..n
      BY <1>7
    <2> HIDE DEF a
    <2>2. a \in 1..n
      BY <1>0, <2>1
    <2>3. Length(u, a) = Length(s, a)
      BY <1>3, <2>2
    <2> QED  BY <2>2, <2>3, Zenon DEF a
  <1>12. From(n + 1, m, k) = 1
    BY DEF From, n
  \* A byte of the longer stream is an old one, or one of the new frame.
  <1>13. ASSUME NEW i \in 1..(Q + z)
         PROVE  \/ i \in 1..Q /\ p[i] = q[i] /\ p[i][1] \in 1..n
                \/ i - Q \in 1..z /\ p[i][1] = n + 1 /\ p[i][2] = i - Q
    <2>1. CASE i <= Q
      BY <1>0, <1>4, <1>11, <2>1
    <2>2. CASE i > Q
      <3>1. i - Q \in 1..z /\ Q + (i - Q) = i
        BY <1>0, <2>2
      <3>2. p[i] = f[i - Q] /\ At(f, i - Q, n + 1, i - Q)
        BY <1>1, <1>4, <3>1
      <3> QED  BY <3>1, <3>2 DEF At
    <2> QED  BY <1>0, <2>1, <2>2
  <1>14. At(p, 1, m, k) /\ At(p, Q + z, n + 1, z)
    <2>1. At(p, Q + z, n + 1, z)
      <3>1. z \in 1..z
        BY <1>0
      <3>2. p[Q + z] = f[z] /\ At(f, z, n + 1, z)
        BY <1>1, <1>4, <3>1
      <3> QED  BY <3>2 DEF At
    <2>2. CASE Q = 0
      <3>1. 1 \in 1..z /\ Q + 1 = 1
        BY <1>0, <2>2
      <3>2. p[1] = f[1] /\ At(f, 1, n + 1, 1)
        BY <1>1, <1>4, <3>1
      <3> QED  BY <1>6, <2>1, <2>2, <3>2 DEF At
    <2>3. CASE Q > 0
      <3>1. 1 \in 1..Q
        BY <1>0, <2>3
      <3> QED  BY <1>4, <1>5, <2>1, <2>3, <3>1 DEF At
    <2> QED  BY <1>0, <2>2, <2>3
  <1>15. ASSUME NEW i \in 1..(Q + z)
         PROVE  p[i][1] \in m..(n + 1) /\ p[i][2] \in From(p[i][1], m, k)..Length(u, p[i][1])
    <2>1. CASE i \in 1..Q /\ p[i] = q[i]
      <3>1. q[i][1] \in m..n /\ q[i][2] \in From(q[i][1], m, k)..Length(u, q[i][1])
        BY <1>7, <1>11, <2>1
      <3>2. m..n \subseteq m..(n + 1)
        BY <1>0
      <3> QED  BY <2>1, <3>1, <3>2
    <2>2. CASE i - Q \in 1..z /\ p[i][1] = n + 1 /\ p[i][2] = i - Q
      <3>1. n + 1 \in m..(n + 1)
        BY <1>0 DEF n
      <3> QED  BY <1>3, <1>12, <2>2, <3>1
    <2> QED  BY <1>13, <2>1, <2>2
  <1>16. ASSUME NEW i \in 1..(Q + z), NEW b \in From(p[i][1], m, k)..Length(u, p[i][1])
         PROVE  i + b - p[i][2] \in 1..(Q + z) /\ At(p, i + b - p[i][2], p[i][1], b)
    <2>1. CASE i \in 1..Q /\ p[i] = q[i]
      <3> DEFINE e == i + b - q[i][2]
      <3>1. b \in From(q[i][1], m, k)..Length(s, q[i][1])
        BY <1>11, <2>1
      <3>2. e \in 1..Q /\ At(q, e, q[i][1], b)
        BY <1>8, <2>1, <3>1
      <3> HIDE DEF e
      <3>3. e \in 1..(Q + z) /\ p[e] = q[e]
        BY <1>4, <3>2
      <3>4. At(p, e, p[i][1], b)
        BY <2>1, <3>2, <3>3 DEF At
      <3> QED  BY <2>1, <3>3, <3>4 DEF e
    <2>2. CASE i - Q \in 1..z /\ p[i][1] = n + 1 /\ p[i][2] = i - Q
      <3>1. b \in 1..z
        BY <1>3, <1>12, <2>2
      <3>2. i + b - p[i][2] = Q + b
        BY <1>0, <2>2, <3>1
      <3>3. Q + b \in 1..(Q + z) /\ p[Q + b] = f[b] /\ At(f, b, n + 1, b)
        BY <1>1, <1>4, <3>1
      <3> QED  BY <2>2, <3>2, <3>3 DEF At
    <2> QED  BY <1>13, <2>1, <2>2
  <1>17. ASSUME NEW i \in 1..(Q + z - 1), p[i][2] = Length(u, p[i][1])
         PROVE  At(p, i + 1, p[i][1] + 1, 1)
    <2>0. i \in 1..(Q + z)
      BY <1>0
    <2>1. CASE i \in 1..(Q - 1)
      <3>1. i \in 1..Q /\ i + 1 \in 1..Q
        BY <1>0, <2>1
      <3>2. p[i] = q[i] /\ p[i + 1] = q[i + 1]
        BY <1>4, <3>1
      <3>3. q[i][2] = Length(s, q[i][1])
        BY <1>11, <1>17, <3>1, <3>2
      <3>4. At(q, i + 1, q[i][1] + 1, 1)
        BY <1>9, <2>1, <3>3
      <3> QED  BY <3>2, <3>4 DEF At
    <2>2. CASE i = Q
      <3>1. Q > 0 /\ Q \in 1..Q /\ 1 \in 1..z
        BY <1>0, <2>2
      <3>2. p[Q] = q[Q] /\ q[Q][1] = n
        BY <1>4, <1>5, <3>1 DEF At
      <3>3. p[Q + 1] = f[1] /\ At(f, 1, n + 1, 1)
        BY <1>1, <1>4, <3>1
      <3> QED  BY <2>2, <3>2, <3>3 DEF At
    <2>3. CASE i > Q
      <3>1. i - Q \in 1..z /\ p[i][1] = n + 1 /\ p[i][2] = i - Q
        BY <1>0, <1>13, <2>0, <2>3
      <3>2. i - Q = z
        BY <1>3, <1>17, <3>1
      <3> QED  BY <1>0, <3>2
    <2> QED  BY <1>0, <2>1, <2>2, <2>3
  <1>18. ASSUME NEW i \in 1..(Q + z), NEW j \in 1..(Q + z), p[i][1] = p[j][1], p[i][2] = p[j][2]
         PROVE  i = j
    <2>1. CASE i \in 1..Q /\ p[i] = q[i] /\ p[i][1] \in 1..n
      <3>1. p[j][1] # n + 1
        BY <1>0, <1>18, <2>1
      <3>2. j \in 1..Q /\ p[j] = q[j]
        BY <1>13, <3>1
      <3> QED  BY <1>10, <1>18, <2>1, <3>2
    <2>2. CASE i - Q \in 1..z /\ p[i][1] = n + 1 /\ p[i][2] = i - Q
      <3>1. ~(p[j][1] \in 1..n)
        BY <1>0, <1>18, <2>2
      <3>2. p[j][2] = j - Q
        BY <1>13, <3>1
      <3>3. i - Q = j - Q
        BY <1>18, <2>2, <3>2
      <3> QED  BY <1>0, <3>3
    <2> QED  BY <1>13, <2>1, <2>2
  <1>19. Len(p) > 0 /\ Len(p) = Q + z /\ Len(u) = n + 1 /\ Length(u, Len(u)) = z
    BY <1>0, <1>2, <1>3, <1>4
  <1>20. InOrder(p, u, m, k)
    <2> DEFINE h == Len(p)
    <2>1. h > 0 /\ h = Q + z /\ h # 0 /\ Len(u) = n + 1
      BY <1>0, <1>19
    <2>2. At(p, 1, m, k) /\ At(p, h, Len(u), Length(u, Len(u)))
      BY <1>14, <1>19
    <2> HIDE DEF h
    <2>3. \A i \in 1..h : p[i][1] \in m..Len(u) /\ p[i][2] \in From(p[i][1], m, k)..Length(u, p[i][1])
      BY <1>15, <2>1
    <2>4. \A i \in 1..h : \A b \in From(p[i][1], m, k)..Length(u, p[i][1]) :
            i + b - p[i][2] \in 1..h /\ At(p, i + b - p[i][2], p[i][1], b)
      BY <1>16, <2>1
    <2>5. \A i \in 1..(h - 1) : p[i][2] = Length(u, p[i][1]) => At(p, i + 1, p[i][1] + 1, 1)
      <3>1. h - 1 = Q + z - 1
        BY <1>0, <2>1
      <3> QED  BY <1>17, <3>1
    <2>6. \A i, j \in 1..h : p[i][1] = p[j][1] /\ p[i][2] = p[j][2] => i = j
      BY <1>18, <2>1
    <2> QED  BY <2>1, <2>2, <2>3, <2>4, <2>5, <2>6 DEF InOrder, h
  <1> QED  BY <1>20 DEF p, u, f, n

-----------------------------------------------------------------------------
(* Reading                                                                 *)

\* Concatenation, as it is needed below.
LEMMA Assoc ==
  ASSUME NEW a \in Seq(Cell), NEW b \in Seq(Cell), NEW c \in Seq(Cell)
  PROVE  (a \o b) \o c = a \o (b \o c)
  BY ConcatAssociative

\* A sequence is cut in two behind o + n.
LEMMA Cut ==
  ASSUME NEW q \in Seq(Cell), NEW o \in Nat, NEW n \in Nat, o + n <= Len(q)
  PROVE  /\ SubSeq(q, o + 1, o + n) \in Seq(Cell) /\ Len(SubSeq(q, o + 1, o + n)) = n
         /\ SubSeq(q, o + n + 1, Len(q)) \in Seq(Cell)
         /\ Len(SubSeq(q, o + n + 1, Len(q))) = Len(q) - (o + n)
         /\ SubSeq(q, o + 1, o + n) \o SubSeq(q, o + n + 1, Len(q)) = SubSeq(q, o + 1, Len(q))
  <1> DEFINE l == Len(q)
  <1>1. l \in Nat /\ (\A i \in 1..l : q[i] \in Cell) /\ o + n <= l
    BY LenProperties, ElementOfSeq
  <1>2. SubSeq(q, o + 1, o + n) \o SubSeq(q, o + n + 1, l) = SubSeq(q, o + 1, l)
    <2>1. o + 1 \in 1..Len(q) + 1 /\ o + n \in (o + 1) - 1..Len(q) /\ Len(q) \in o + n..Len(q)
      BY <1>1
    <2> QED  BY <2>1, ConcatAdjacentSubSeq
  <1> HIDE DEF l
  <1>3. /\ SubSeq(q, o + 1, o + n) \in Seq(Cell)
        /\ Len(SubSeq(q, o + 1, o + n)) = IF o + 1 <= o + n THEN (o + n) - (o + 1) + 1 ELSE 0
    <2>1. \A i \in o + 1..o + n : q[i] \in Cell
      BY <1>1
    <2> QED  BY <2>1, SubSeqProperties
  <1>4. /\ SubSeq(q, o + n + 1, l) \in Seq(Cell)
        /\ Len(SubSeq(q, o + n + 1, l)) = IF o + n + 1 <= l THEN l - (o + n + 1) + 1 ELSE 0
    <2>1. \A i \in o + n + 1..l : q[i] \in Cell
      BY <1>1
    <2> QED  BY <1>1, <2>1, SubSeqProperties
  <1>5. (IF o + 1 <= o + n THEN (o + n) - (o + 1) + 1 ELSE 0) = n
    OBVIOUS
  <1>6. (IF o + n + 1 <= l THEN l - (o + n + 1) + 1 ELSE 0) = l - (o + n)
    BY <1>1
  <1> DEFINE x == SubSeq(q, o + 1, o + n)
             y == SubSeq(q, o + n + 1, l)
  <1>7. x \in Seq(Cell) /\ y \in Seq(Cell) /\ x \o y = SubSeq(q, o + 1, l)
    BY <1>2, <1>3, <1>4
  <1>8. Len(x) = n
    <2> HIDE DEF x
    <2> QED  BY <1>3, <1>5 DEF x
  <1>9. Len(y) = l - (o + n)
    <2> HIDE DEF y
    <2> QED  BY <1>4, <1>6 DEF y
  <1> QED  BY <1>7, <1>8, <1>9, Zenon DEF l

\* The same, from the start.
LEMMA CutFirst ==
  ASSUME NEW q \in Seq(Cell), NEW n \in Nat, n <= Len(q)
  PROVE  /\ SubSeq(q, 1, n) \in Seq(Cell) /\ Len(SubSeq(q, 1, n)) = n
         /\ SubSeq(q, n + 1, Len(q)) \in Seq(Cell) /\ Len(SubSeq(q, n + 1, Len(q))) = Len(q) - n
         /\ SubSeq(q, 1, n) \o SubSeq(q, n + 1, Len(q)) = q
  <1>1. 0 + 1 = 1 /\ 0 + n = n /\ 0 + n + 1 = n + 1 /\ 0 + n <= Len(q) /\ Len(q) \in Nat
    BY LenProperties
  <1>2. SubSeq(q, 1, Len(q)) = q
    BY SubSeqFull
  <1>3. /\ SubSeq(q, 0 + 1, 0 + n) \in Seq(Cell) /\ Len(SubSeq(q, 0 + 1, 0 + n)) = n
        /\ SubSeq(q, 0 + n + 1, Len(q)) \in Seq(Cell)
        /\ Len(SubSeq(q, 0 + n + 1, Len(q))) = Len(q) - (0 + n)
        /\ SubSeq(q, 0 + 1, 0 + n) \o SubSeq(q, 0 + n + 1, Len(q)) = SubSeq(q, 0 + 1, Len(q))
    BY <1>1, Cut
  <1> QED  BY <1>1, <1>2, <1>3

\* What the types say of the sequences.
LEMMA Sequences ==
  ASSUME TypeOK
  PROVE  /\ sending \in Seq(Cell) /\ socket \in Seq(Cell) /\ readBuff \in Seq(Cell) /\ got \in Seq(Cell)
         /\ Len(sending) \in Nat /\ Len(socket) \in Nat /\ Len(readBuff) \in Nat /\ Len(got) \in Nat
         /\ sent \in Seq(Bodies) /\ Len(sent) \in Nat /\ received \in Seq(Seq(Cell)) /\ Len(received) \in Nat
         /\ readBuffOff \in Nat /\ readBuffOff <= Len(readBuff)
         /\ Remaining = Len(readBuff) - readBuffOff /\ Remaining \in Nat
         /\ Buffered \in Seq(Cell) /\ Len(Buffered) = Remaining
         /\ Pending \in Seq(Cell) /\ Len(Pending) = Remaining + Len(socket) + Len(sending)
  <1>1. /\ sending \in Seq(Cell) /\ socket \in Seq(Cell) /\ readBuff \in Seq(Cell) /\ got \in Seq(Cell)
        /\ sent \in Seq(Bodies) /\ received \in Seq(Seq(Cell))
    BY DEF TypeOK
  <1>2. /\ Len(sending) \in Nat /\ Len(socket) \in Nat /\ Len(readBuff) \in Nat /\ Len(got) \in Nat
        /\ Len(sent) \in Nat /\ Len(received) \in Nat
    BY <1>1, LenProperties
  <1>3. /\ readBuffOff \in Nat /\ readBuffOff <= Len(readBuff)
        /\ Remaining = Len(readBuff) - readBuffOff /\ Remaining \in Nat
    BY <1>2 DEF TypeOK, Remaining
  <1>4. Buffered \in Seq(Cell) /\ Len(Buffered) = Remaining
    BY <1>1, <1>3, CutFirst DEF Buffered
  <1>5. socket \o sending \in Seq(Cell) /\ Len(socket \o sending) = Len(socket) + Len(sending)
    BY <1>1, ConcatProperties
  <1>6. Pending \in Seq(Cell) /\ Len(Pending) = Remaining + (Len(socket) + Len(sending))
    BY <1>4, <1>5, ConcatProperties DEF Pending
  <1> QED  BY <1>1, <1>2, <1>3, <1>4, <1>6

\* Read takes the first bytes of those still to be read, and loses none: those
\* that it fetches ahead are in readBuff, before those of the socket.
LEMMA ReadConsumes ==
  ASSUME TypeOK, NEW size \in Nat \ {0}, Readable, Consume(size), sending' = sending
  PROVE  /\ Read(size) \in Seq(Cell) /\ Len(Read(size)) \in 1..size
         /\ Pending = Read(size) \o Pending'
         /\ readBuff' \in Seq(Cell) /\ socket' \in Seq(Cell)
         /\ readBuffOff' \in 0..Len(readBuff') /\ Len(readBuff') <= maxBuffSize
         /\ Remaining = 0 /\ Len(socket) >= size => Len(Read(size)) = size
  <1>0. maxBuffSize \in Nat /\ maxBuffSize > 0
    BY StreamAssumption
  <1>1. /\ sending \in Seq(Cell) /\ socket \in Seq(Cell) /\ readBuff \in Seq(Cell)
        /\ Len(sending) \in Nat /\ Len(socket) \in Nat /\ Len(readBuff) \in Nat
        /\ readBuffOff \in Nat /\ readBuffOff <= Len(readBuff) /\ Len(readBuff) <= maxBuffSize
        /\ Remaining = Len(readBuff) - readBuffOff /\ Remaining \in Nat
    BY Sequences DEF TypeOK
  <1>2. CASE Remaining > 0
    <2> DEFINE n == Least(size, Remaining)
               o == readBuffOff
               front == SubSeq(readBuff, o + 1, o + n)
               back == SubSeq(readBuff, o + n + 1, Len(readBuff))
    <2>1. n \in 1..size /\ n <= Remaining /\ n \in Nat /\ o + n <= Len(readBuff) /\ o \in Nat
      BY <1>1, <1>2 DEF Least
    <2>2. Read(size) = front
      BY <1>2 DEF Read, ReadBuffered
    <2>3. readBuffOff' = o + n /\ readBuff' = readBuff /\ socket' = socket
      BY <1>2 DEF Consume
    <2> HIDE DEF n
    <2>4. /\ front \in Seq(Cell) /\ Len(front) = n /\ back \in Seq(Cell)
          /\ front \o back = SubSeq(readBuff, o + 1, Len(readBuff))
      <3>1. readBuff \in Seq(Cell) /\ o \in Nat /\ n \in Nat /\ o + n <= Len(readBuff)
        BY <1>1, <2>1
      <3> HIDE DEF o
      <3> QED  BY <3>1, Cut
    <2>5. Buffered = front \o back /\ Buffered' = back
      BY <2>3, <2>4 DEF Buffered
    <2> DEFINE rest == socket \o sending
    <2>6. rest \in Seq(Cell) /\ Pending = Buffered \o rest /\ Pending' = Buffered' \o rest
      BY <1>1, <2>3, ConcatProperties DEF Pending
    <2> HIDE DEF front, back, rest
    <2>7. Pending = front \o (back \o rest)
      <3>1. front \in Seq(Cell) /\ back \in Seq(Cell) /\ rest \in Seq(Cell)
        BY <2>4, <2>6
      <3>2. (front \o back) \o rest = front \o (back \o rest)
        BY <3>1, Assoc, Zenon
      <3>3. Pending = (front \o back) \o rest
        BY <2>5, <2>6, Zenon
      <3> QED  BY <3>2, <3>3, Zenon
    <2>8. Pending = front \o Pending'
      BY <2>5, <2>6, <2>7
    <2>9. readBuffOff' \in 0..Len(readBuff') /\ Len(readBuff') <= maxBuffSize
      BY <1>1, <2>1, <2>3
    <2> QED  BY <1>1, <1>2, <2>1, <2>2, <2>3, <2>4, <2>8, <2>9
  <1>3. CASE ~(Remaining > 0)
    <2> DEFINE want == IF size < maxBuffSize THEN maxBuffSize ELSE size
               f == Least(want, Len(socket))
               n == Least(size, f)
               F == SubSeq(socket, 1, f)
               left == SubSeq(socket, f + 1, Len(socket))
    <2>1. Len(socket) > 0
      <3>1. socket # <<>>
        BY <1>3 DEF Readable
      <3> QED  BY <1>1, <3>1, EmptySeq
    <2>2. want \in Nat /\ want > 0 /\ want >= size
      BY <1>0
    <2>3. f \in Nat /\ f > 0 /\ f <= want /\ f <= Len(socket) /\ (Len(socket) >= size => f >= size)
      <3> HIDE DEF want
      <3> QED  BY <1>1, <2>1, <2>2 DEF Least
    <2>4. n \in 1..size /\ n <= f /\ n \in Nat /\ (f >= size => n = size) /\ (f < size => n = f)
      <3> HIDE DEF f
      <3> QED  BY <2>3 DEF Least
    <2>5. f <= maxBuffSize \/ n = f
      BY <1>0, <2>3, <2>4
    <2>6. Fetched(size) = F
      BY DEF Fetched
    <2> HIDE DEF f, n, want
    <2>7. F \in Seq(Cell) /\ Len(F) = f /\ left \in Seq(Cell) /\ F \o left = socket
      BY <1>1, <2>3, CutFirst
    <2> HIDE DEF F
    <2>8. Read(size) = SubSeq(F, 1, n) /\ socket' = left
      BY <1>3, <2>6, <2>7 DEF Read, Consume, n
    <2> DEFINE front == SubSeq(F, 1, n)
               back == SubSeq(F, n + 1, Len(F))
    <2>9. front \in Seq(Cell) /\ Len(front) = n /\ back \in Seq(Cell) /\ front \o back = F
      BY <2>4, <2>7, CutFirst
    <2>10. /\ Buffered' = back /\ readBuff' \in Seq(Cell)
           /\ readBuffOff' \in 0..Len(readBuff') /\ Len(readBuff') <= maxBuffSize
      <3>1. CASE size < maxBuffSize /\ f >= size
        <4>1. readBuff' = F /\ readBuffOff' = size /\ n = size
          BY <1>3, <2>4, <2>6, <2>7, <3>1 DEF Consume
        <4>2. f <= maxBuffSize
          BY <2>3, <3>1 DEF want
        <4> QED  BY <2>3, <2>7, <3>1, <4>1, <4>2 DEF Buffered
      <3>2. CASE ~(size < maxBuffSize /\ f >= size)
        <4>1. readBuff' = <<>> /\ readBuffOff' = 0
          BY <1>3, <2>6, <2>7, <3>2 DEF Consume
        <4>2. n = f
          <5>1. f < size \/ size >= maxBuffSize
            BY <1>0, <2>3, <3>2
          <5>2. size >= maxBuffSize => want = size
            BY <1>0 DEF want
          <5> QED  BY <2>3, <2>4, <5>1, <5>2
        <4>3. back = <<>>
          BY <2>3, <2>7, <4>2, SubSeqEmpty
        <4>4. Buffered' = <<>>
          <5>1. Len(<<>>) = 0 /\ SubSeq(<<>>, 0 + 1, 0) = <<>>
            BY SubSeqEmpty
          <5> QED  BY <4>1, <5>1 DEF Buffered
        <4>5. Len(readBuff') = 0 /\ readBuff' \in Seq(Cell) /\ readBuffOff' = 0
          BY <4>1, EmptySeq
        <4>6. readBuffOff' \in 0..Len(readBuff') /\ Len(readBuff') <= maxBuffSize
          BY <1>0, <4>5
        <4> HIDE DEF back
        <4> QED  BY <4>3, <4>4, <4>5, <4>6
      <3> QED  BY <3>1, <3>2
    <2>11. Buffered = <<>>
      BY <1>1, <1>3, SubSeqEmpty DEF Buffered
    <2>12. Pending = socket \o sending /\ Pending' = back \o (left \o sending)
      <3>1. socket \o sending \in Seq(Cell)
        BY <1>1, ConcatProperties
      <3>2. Pending = socket \o sending
        BY <2>11, <3>1, ConcatEmptySeq DEF Pending
      <3> QED  BY <2>8, <2>10, <3>2 DEF Pending
    <2> HIDE DEF front, back, left
    <2>13. socket \o sending = front \o (back \o (left \o sending))
      <3>1. left \o sending \in Seq(Cell)
        BY <1>1, <2>7, ConcatProperties
      <3>2. (F \o left) \o sending = F \o (left \o sending)
        <4>1. F \in Seq(Cell) /\ left \in Seq(Cell) /\ sending \in Seq(Cell)
          BY <1>1, <2>7
        <4> QED  BY <4>1, Assoc, Zenon
      <3>3. (front \o back) \o (left \o sending) = front \o (back \o (left \o sending))
        <4> DEFINE w == left \o sending
        <4>1. front \in Seq(Cell) /\ back \in Seq(Cell) /\ w \in Seq(Cell)
          BY <2>9, <3>1
        <4> HIDE DEF w
        <4>2. (front \o back) \o w = front \o (back \o w)
          BY <4>1, Assoc, Zenon
        <4> QED  BY <4>2, Zenon DEF w
      <3> QED  BY <2>7, <2>9, <3>2, <3>3, Zenon
    <2>14. Pending = front \o Pending'
      BY <2>12, <2>13
    <2>15. Len(socket) >= size => Len(front) = size
      BY <2>3, <2>4, <2>9
    <2> QED  BY <2>4, <2>7, <2>8, <2>9, <2>10, <2>14, <2>15 DEF front
  <1> QED  BY <1>2, <1>3

\* How much there is to read.
PendingFacts ==
  /\ Remaining \in Nat /\ Len(socket) \in Nat /\ Len(sending) \in Nat
  /\ Pending \in Seq(Cell) /\ Len(Pending) = Remaining + Len(socket) + Len(sending)

LEMMA PendingIs == TypeOK => PendingFacts
  BY Sequences DEF PendingFacts

LEMMA PendingNext == TypeOK' => PendingFacts'
  BY PendingIs, PTL

-----------------------------------------------------------------------------
(* The order of the stream                                                 *)

\* Where the bytes of two sequences are when they are joined.
LEMMA Joined ==
  ASSUME NEW a \in Seq(Cell), NEW b \in Seq(Cell)
  PROVE  /\ a \o b \in Seq(Cell) /\ Len(a) \in Nat /\ Len(b) \in Nat /\ Len(a \o b) = Len(a) + Len(b)
         /\ \A i \in 1..Len(a) : i \in 1..Len(a \o b) /\ (a \o b)[i] = a[i]
         /\ \A i \in 1..Len(b) : Len(a) + i \in 1..Len(a \o b) /\ (a \o b)[Len(a) + i] = b[i]
         /\ \A i \in 1..Len(a \o b) :
              \/ i \in 1..Len(a) /\ (a \o b)[i] = a[i]
              \/ i > Len(a) /\ i - Len(a) \in 1..Len(b) /\ (a \o b)[i] = b[i - Len(a)]
  <1> DEFINE x == Len(a)
             y == Len(b)
             c == a \o b
  <1>1. /\ c \in Seq(Cell) /\ x \in Nat /\ y \in Nat /\ Len(c) = x + y
        /\ \A i \in 1..(x + y) : c[i] = IF i <= x THEN a[i] ELSE b[i - x]
    BY LenProperties, ConcatProperties
  <1> HIDE DEF x, y, c
  <1>2. ASSUME NEW i \in 1..x PROVE i \in 1..(x + y) /\ c[i] = a[i]
    BY <1>1
  <1>3. ASSUME NEW i \in 1..y PROVE x + i \in 1..(x + y) /\ c[x + i] = b[i]
    <2>1. x + i \in 1..(x + y) /\ ~(x + i <= x) /\ (x + i) - x = i
      BY <1>1
    <2> QED  BY <1>1, <2>1
  <1>4. ASSUME NEW i \in 1..(x + y)
        PROVE  \/ i \in 1..x /\ c[i] = a[i]
               \/ i > x /\ i - x \in 1..y /\ c[i] = b[i - x]
    BY <1>1
  <1>5. /\ \A i \in 1..x : i \in 1..Len(c) /\ c[i] = a[i]
        /\ \A i \in 1..y : x + i \in 1..Len(c) /\ c[x + i] = b[i]
        /\ \A i \in 1..Len(c) : \/ i \in 1..x /\ c[i] = a[i]
                                \/ i > x /\ i - x \in 1..y /\ c[i] = b[i - x]
    BY <1>1, <1>2, <1>3, <1>4
  <1> QED  BY <1>1, <1>5 DEF x, y, c

\* Bytes that are in order before and after each other are in order together.
LEMMA OrderJoins ==
  ASSUME NEW a \in Seq(Cell), NEW b \in Seq(Cell)
  PROVE  /\ Ascending(a) /\ Ascending(b) /\ Precedes(a, b) => Ascending(a \o b)
         /\ \A c \in Seq(Cell) : /\ Precedes(a, c) /\ Precedes(b, c) => Precedes(a \o b, c)
                                 /\ Precedes(c, a) /\ Precedes(c, b) => Precedes(c, a \o b)
         /\ \A n \in Nat : Within(a, n) /\ Within(b, n) => Within(a \o b, n)
  <1> DEFINE q == a \o b
  <1>1. /\ Len(a) \in Nat /\ Len(b) \in Nat /\ Len(q) \in Nat
        /\ \A i \in 1..Len(q) : \/ i \in 1..Len(a) /\ q[i] = a[i]
                                \/ i > Len(a) /\ i - Len(a) \in 1..Len(b) /\ q[i] = b[i - Len(a)]
    BY Joined, LenProperties
  <1> HIDE DEF q
  <1>2. ASSUME Ascending(a), Ascending(b), Precedes(a, b) PROVE Ascending(q)
    <2> SUFFICES ASSUME NEW i \in 1..Len(q), NEW j \in 1..Len(q), i < j PROVE Before(q[i], q[j])
      BY DEF Ascending
    <2>1. CASE i \in 1..Len(a) /\ q[i] = a[i]
      <3>1. CASE j \in 1..Len(a) /\ q[j] = a[j]
        BY <1>2, <2>1, <3>1 DEF Ascending
      <3>2. CASE j - Len(a) \in 1..Len(b) /\ q[j] = b[j - Len(a)]
        BY <1>2, <2>1, <3>2 DEF Precedes
      <3> QED  BY <1>1, <3>1, <3>2
    <2>2. CASE i > Len(a) /\ i - Len(a) \in 1..Len(b) /\ q[i] = b[i - Len(a)]
      <3>1. ~(j \in 1..Len(a))
        BY <1>1, <2>2
      <3>2. j - Len(a) \in 1..Len(b) /\ q[j] = b[j - Len(a)]
        BY <1>1, <3>1
      <3>3. i - Len(a) < j - Len(a)
        BY <1>1
      <3> QED  BY <1>2, <2>2, <3>2, <3>3 DEF Ascending
    <2> QED  BY <1>1, <2>1, <2>2
  <1>3. ASSUME NEW c \in Seq(Cell)
        PROVE  /\ Precedes(a, c) /\ Precedes(b, c) => Precedes(q, c)
               /\ Precedes(c, a) /\ Precedes(c, b) => Precedes(c, q)
    <2>1. ASSUME Precedes(a, c), Precedes(b, c) PROVE Precedes(q, c)
      BY <1>1, <2>1, Zenon DEF Precedes
    <2>2. ASSUME Precedes(c, a), Precedes(c, b) PROVE Precedes(c, q)
      <3> SUFFICES ASSUME NEW i \in 1..Len(c), NEW j \in 1..Len(q) PROVE Before(c[i], q[j])
        BY DEF Precedes
      <3>1. CASE j \in 1..Len(a) /\ q[j] = a[j]
        BY <2>2, <3>1 DEF Precedes
      <3>2. CASE j - Len(a) \in 1..Len(b) /\ q[j] = b[j - Len(a)]
        BY <2>2, <3>2 DEF Precedes
      <3> QED  BY <1>1, <3>1, <3>2
    <2> QED  BY <2>1, <2>2
  <1>4. ASSUME NEW n \in Nat, Within(a, n), Within(b, n) PROVE Within(q, n)
    BY <1>1, <1>4, Zenon DEF Within
  <1> QED  BY <1>2, <1>3, <1>4 DEF q

\* And the other way round.
LEMMA OrderSplits ==
  ASSUME NEW a \in Seq(Cell), NEW b \in Seq(Cell)
  PROVE  /\ Ascending(a \o b) => Ascending(a) /\ Ascending(b) /\ Precedes(a, b)
         /\ \A c \in Seq(Cell) : Precedes(c, a \o b) => Precedes(c, a) /\ Precedes(c, b)
         /\ \A n \in Nat : Within(a \o b, n) => Within(a, n) /\ Within(b, n)
  <1> DEFINE q == a \o b
  <1>1. /\ Len(a) \in Nat /\ Len(b) \in Nat /\ Len(q) \in Nat
        /\ \A i \in 1..Len(a) : i \in 1..Len(q) /\ q[i] = a[i]
        /\ \A i \in 1..Len(b) : Len(a) + i \in 1..Len(q) /\ q[Len(a) + i] = b[i]
    BY Joined, LenProperties
  <1> HIDE DEF q
  <1>2. ASSUME Ascending(q) PROVE Ascending(a) /\ Ascending(b) /\ Precedes(a, b)
    <2>1. Ascending(a)
      BY <1>1, <1>2 DEF Ascending
    <2>2. ASSUME NEW i \in 1..Len(b), NEW j \in 1..Len(b), i < j PROVE Before(b[i], b[j])
      <3>1. Len(a) + i < Len(a) + j
        BY <1>1, <2>2
      <3> QED  BY <1>1, <1>2, <3>1 DEF Ascending
    <2>3. ASSUME NEW i \in 1..Len(a), NEW j \in 1..Len(b) PROVE Before(a[i], b[j])
      <3>1. i < Len(a) + j
        BY <1>1
      <3> QED  BY <1>1, <1>2, <3>1 DEF Ascending
    <2> QED  BY <2>1, <2>2, <2>3 DEF Ascending, Precedes
  <1>3. ASSUME NEW c \in Seq(Cell), Precedes(c, q) PROVE Precedes(c, a) /\ Precedes(c, b)
    <2>1. ASSUME NEW i \in 1..Len(c), NEW j \in 1..Len(a) PROVE Before(c[i], a[j])
      BY <1>1, <1>3 DEF Precedes
    <2>2. ASSUME NEW i \in 1..Len(c), NEW j \in 1..Len(b) PROVE Before(c[i], b[j])
      BY <1>1, <1>3 DEF Precedes
    <2> QED  BY <2>1, <2>2 DEF Precedes
  <1>4. ASSUME NEW n \in Nat, Within(q, n) PROVE Within(a, n) /\ Within(b, n)
    <2>1. ASSUME NEW i \in 1..Len(a) PROVE a[i][1] <= n
      BY <1>1, <1>4 DEF Within
    <2>2. ASSUME NEW i \in 1..Len(b) PROVE b[i][1] <= n
      BY <1>1, <1>4 DEF Within
    <2> QED  BY <2>1, <2>2 DEF Within
  <1> QED  BY <1>2, <1>3, <1>4 DEF q

\* Nothing is before and after everything.
LEMMA NothingIsOrdered ==
  ASSUME NEW q, NEW n
  PROVE  Ascending(<<>>) /\ Precedes(<<>>, q) /\ Precedes(q, <<>>) /\ Within(<<>>, n)
  BY DEF Ascending, Precedes, Within

\* The next bytes are read.
LEMMA OrderTakes ==
  ASSUME NEW R \in Seq(Seq(Cell)), NEW g \in Seq(Cell), NEW x \in Seq(Cell), NEW p \in Seq(Cell),
         NEW n \in Nat, Ordered(R, g, x \o p, n)
  PROVE  Ordered(R, g \o x, p, n)
  <1>1. /\ Ascending(g) /\ Ascending(x \o p) /\ Precedes(g, x \o p) /\ Within(g, n) /\ Within(x \o p, n)
        /\ \A i \in 1..Len(R) : /\ Ascending(R[i]) /\ Within(R[i], n)
                                /\ Precedes(R[i], g) /\ Precedes(R[i], x \o p)
        /\ \A i, j \in 1..Len(R) : i < j => Precedes(R[i], R[j])
    BY DEF Ordered
  <1>2. /\ Ascending(x) /\ Ascending(p) /\ Precedes(x, p) /\ Within(x, n) /\ Within(p, n)
        /\ Precedes(g, x) /\ Precedes(g, p)
    BY <1>1, OrderSplits
  <1>3. Ascending(g \o x) /\ Precedes(g \o x, p) /\ Within(g \o x, n)
    BY <1>1, <1>2, OrderJoins
  <1>4. ASSUME NEW i \in 1..Len(R) PROVE Precedes(R[i], g \o x) /\ Precedes(R[i], p)
    <2>1. R[i] \in Seq(Cell)
      BY ElementOfSeq
    <2>2. Precedes(R[i], g) /\ Precedes(R[i], x) /\ Precedes(R[i], p)
      BY <1>1, <2>1, OrderSplits
    <2> QED  BY <2>1, <2>2, OrderJoins
  <1> DEFINE h == g \o x
  <1> HIDE DEF h
  <1>5. Ordered(R, h, p, n)
    BY <1>1, <1>2, <1>3, <1>4 DEF Ordered, h
  <1> QED  BY <1>5 DEF h

\* What was read of a part is dropped.
LEMMA OrderDrops ==
  ASSUME NEW R \in Seq(Seq(Cell)), NEW g \in Seq(Cell), NEW p \in Seq(Cell), NEW n \in Nat,
         Ordered(R, g, p, n)
  PROVE  Ordered(R, <<>>, p, n)
  BY NothingIsOrdered DEF Ordered

\* A message is returned.
LEMMA OrderReturns ==
  ASSUME NEW R \in Seq(Seq(Cell)), NEW g \in Seq(Cell), NEW p \in Seq(Cell), NEW n \in Nat,
         Ordered(R, g, p, n)
  PROVE  Ordered(Append(R, g), <<>>, p, n)
  <1> DEFINE S == Append(R, g)
  <1>1. /\ Len(R) \in Nat /\ Len(S) = Len(R) + 1 /\ S[Len(R) + 1] = g
        /\ \A i \in 1..Len(R) : S[i] = R[i]
    BY AppendProperties, LenProperties
  <1> HIDE DEF S
  <1>2. /\ Ascending(g) /\ Ascending(p) /\ Precedes(g, p) /\ Within(g, n) /\ Within(p, n)
        /\ \A i \in 1..Len(R) : /\ Ascending(R[i]) /\ Within(R[i], n)
                                /\ Precedes(R[i], g) /\ Precedes(R[i], p)
        /\ \A i, j \in 1..Len(R) : i < j => Precedes(R[i], R[j])
    BY DEF Ordered
  <1>3. \A i \in 1..Len(S) : (i \in 1..Len(R) /\ S[i] = R[i]) \/ (i = Len(R) + 1 /\ S[i] = g)
    BY <1>1
  <1>4. ASSUME NEW i \in 1..Len(S)
        PROVE  Ascending(S[i]) /\ Within(S[i], n) /\ Precedes(S[i], p)
    BY <1>2, <1>3, Zenon
  <1>5. ASSUME NEW i \in 1..Len(S), NEW j \in 1..Len(S), i < j PROVE Precedes(S[i], S[j])
    <2>1. i \in 1..Len(R) /\ S[i] = R[i]
      BY <1>1, <1>3, <1>5
    <2>2. CASE j \in 1..Len(R) /\ S[j] = R[j]
      BY <1>2, <1>5, <2>1, <2>2
    <2>3. CASE j = Len(R) + 1 /\ S[j] = g
      BY <1>2, <2>1, <2>3
    <2> QED  BY <1>3, <2>2, <2>3
  <1>6. Ordered(S, <<>>, p, n)
    BY <1>2, <1>4, <1>5, NothingIsOrdered DEF Ordered
  <1> QED  BY <1>6 DEF S

\* A frame is sent.
LEMMA OrderSends ==
  ASSUME NEW R \in Seq(Seq(Cell)), NEW g \in Seq(Cell), NEW p \in Seq(Cell), NEW n \in Nat,
         NEW body \in Bodies, n + 1 \in 1..MaxFrames, Ordered(R, g, p, n)
  PROVE  Ordered(R, g, p \o Frame(n + 1, body), n + 1)
  <1> DEFINE f == Frame(n + 1, body)
  <1>1. f \in Seq(Cell) /\ Len(f) \in Nat /\ \A i \in 1..Len(f) : f[i][1] = n + 1 /\ f[i][2] = i
    <2>1. /\ f \in Seq(Cell) /\ Len(f) = Prefix + Header + body
          /\ \A i \in 1..(Prefix + Header + body) : At(f, i, n + 1, i)
      BY FrameIs
    <2> HIDE DEF f
    <2> QED  BY <2>1, LenProperties DEF At
  <1> HIDE DEF f
  <1>2. /\ Ascending(g) /\ Ascending(p) /\ Precedes(g, p) /\ Within(g, n) /\ Within(p, n)
        /\ \A i \in 1..Len(R) : /\ Ascending(R[i]) /\ Within(R[i], n)
                                /\ Precedes(R[i], g) /\ Precedes(R[i], p)
        /\ \A i, j \in 1..Len(R) : i < j => Precedes(R[i], R[j])
    BY DEF Ordered
  <1>3. Ascending(f) /\ Within(f, n + 1)
    <2>1. ASSUME NEW i \in 1..Len(f), NEW j \in 1..Len(f), i < j PROVE Before(f[i], f[j])
      BY <1>1, <2>1 DEF Before
    <2>2. ASSUME NEW i \in 1..Len(f) PROVE f[i][1] <= n + 1
      BY <1>1
    <2> QED  BY <2>1, <2>2 DEF Ascending, Within
  \* The bytes of the frames before it come before it.
  <1>4. ASSUME NEW q \in Seq(Cell), Within(q, n) PROVE Precedes(q, f) /\ Within(q, n + 1)
    <2>1. ASSUME NEW i \in 1..Len(q) PROVE q[i][1] <= n /\ q[i][1] \in Nat
      <3>1. q[i] \in Cell
        BY ElementOfSeq
      <3>2. q[i][1] \in Nat
        BY <3>1, StreamAssumption DEF Cell
      <3> QED  BY <1>4, <3>2 DEF Within
    <2>2. ASSUME NEW i \in 1..Len(q), NEW j \in 1..Len(f) PROVE Before(q[i], f[j])
      <3>1. q[i][1] < f[j][1]
        BY <1>1, <2>1
      <3> QED  BY <3>1 DEF Before
    <2>3. ASSUME NEW i \in 1..Len(q) PROVE q[i][1] <= n + 1
      BY <2>1
    <2> QED  BY <2>2, <2>3 DEF Precedes, Within
  <1>5. ASSUME NEW i \in 1..Len(R) PROVE R[i] \in Seq(Cell)
    BY ElementOfSeq
  <1> DEFINE q == p \o f
  <1>6. Ascending(q) /\ Within(q, n + 1) /\ Precedes(g, q)
    BY <1>1, <1>2, <1>3, <1>4, OrderJoins
  <1>7. ASSUME NEW i \in 1..Len(R) PROVE Within(R[i], n + 1) /\ Precedes(R[i], q)
    <2>1. R[i] \in Seq(Cell) /\ Within(R[i], n) /\ Precedes(R[i], p)
      BY <1>2, <1>5
    <2>2. Precedes(R[i], f) /\ Within(R[i], n + 1)
      BY <1>4, <2>1
    <2> QED  BY <1>1, <2>1, <2>2, OrderJoins
  <1>8. Within(g, n + 1)
    BY <1>2, <1>4
  <1> HIDE DEF q
  <1>9. Ordered(R, g, q, n + 1)
    BY <1>2, <1>6, <1>7, <1>8 DEF Ordered
  <1> QED  BY <1>9 DEF q, f

-----------------------------------------------------------------------------
(* The invariant                                                           *)

\* The frame that is being read was sent, unless there is nothing to read.
LEMMA Position ==
  ASSUME TypeOK, Intact, LiveInv, ~lost
  PROVE  /\ Reading \in Nat \ {0} /\ NextByte \in Nat \ {0} /\ Reading <= Len(sent) + 1
         /\ Len(sent) \in Nat /\ Reading = Len(received) + 1
         /\ Reading = Len(sent) + 1 => part = "length" /\ NextByte = 1
         /\ part = "length" => NextByte = 1 /\ got = <<>>
         /\ part # "length" => NextByte > 1
         /\ Len(Pending) > 0 => Reading <= Len(sent) /\ Len(Pending) >= Length(sent, Reading) - NextByte + 1
         /\ Len(Pending) = 0 => Reading = Len(sent) + 1 /\ NextByte = 1
         /\ Reading <= Len(sent) => sent[Reading] \in Nat \ {0} /\ Length(sent, Reading) \in Nat
                                     /\ Length(sent, Reading) = Prefix + Header + sent[Reading]
  <1>0. Prefix \in Nat \ {0} /\ Header \in Nat \ {0} /\ Bodies \subseteq Nat \ {0}
    BY StreamAssumption
  <1>1. Len(sent) \in Nat /\ Len(received) \in Nat /\ Len(got) \in Nat /\ sent \in Seq(Bodies)
    BY Sequences
  <1>2. Reading \in Nat \ {0} /\ Reading <= Len(sent) + 1 /\ Reading = Len(received) + 1
    BY <1>1 DEF Reading, Intact
  <1>3. NextByte \in Nat \ {0}
    BY <1>0, <1>1 DEF NextByte
  <1>4. /\ part = "length" => NextByte = 1 /\ got = <<>>
        /\ part # "length" => NextByte > 1
    BY <1>0, <1>1 DEF NextByte, LiveInv, GotInv
  <1>5. part # "length" => Reading <= Len(sent)
    BY DEF LiveInv, GotInv
  <1>6. Reading = Len(sent) + 1 => part = "length" /\ NextByte = 1
    BY <1>1, <1>4, <1>5
  <1>7. Reading <= Len(sent) => sent[Reading] \in Nat \ {0} /\ Length(sent, Reading) \in Nat
                                 /\ Length(sent, Reading) = Prefix + Header + sent[Reading]
    <2> SUFFICES ASSUME Reading <= Len(sent)
                 PROVE  sent[Reading] \in Nat \ {0} /\ Length(sent, Reading) \in Nat
                        /\ Length(sent, Reading) = Prefix + Header + sent[Reading]
      OBVIOUS
    <2>1. Reading \in 1..Len(sent)
      BY <1>1, <1>2
    <2>2. sent[Reading] \in Bodies
      BY <1>1, <2>1, ElementOfSeq
    <2> DEFINE b == sent[Reading]
    <2>3. b \in Nat \ {0} /\ Length(sent, Reading) = Prefix + Header + b
      BY <1>0, <2>2 DEF Length
    <2> HIDE DEF b
    <2>4. Length(sent, Reading) \in Nat
      BY <1>0, <2>3
    <2> QED  BY <2>3, <2>4 DEF b
  <1>8. Len(Pending) = 0 => Reading = Len(sent) + 1 /\ NextByte = 1
    BY DEF LiveInv, InOrder
  <1>9. ASSUME Len(Pending) > 0
        PROVE  Reading <= Len(sent) /\ Len(Pending) >= Length(sent, Reading) - NextByte + 1
    <2> DEFINE q == Pending
               k == NextByte
               m == Reading
               z == Length(sent, m)
               h == Len(q)
    <2>1. h \in Nat /\ 1 \in 1..h
      BY <1>9, Sequences
    <2>2. q[1][1] = m /\ q[1][2] = k
      BY <1>9 DEF LiveInv, InOrder, At
    <2>3. q[1][1] \in m..Len(sent)
      BY <2>1 DEF LiveInv, InOrder
    <2>4. m <= Len(sent)
      <3> HIDE DEF q, m
      <3> QED  BY <1>1, <1>2, <2>2, <2>3 DEF m
    <2>5. \A b \in From(q[1][1], m, k)..z : 1 + b - q[1][2] \in 1..h
      BY <2>1, <2>2 DEF LiveInv, InOrder
    <2>6. z \in Nat
      BY <1>7, <2>4
    <2> HIDE DEF q, z, h, k, m
    <2>7. From(m, m, k) = k
      BY DEF From
    <2>8. k <= z => 1 + z - k \in 1..h
      BY <1>3, <2>2, <2>5, <2>6, <2>7 DEF k
    <2>9. h >= z - k + 1
      BY <1>3, <2>1, <2>6, <2>8 DEF k
    <2> QED  BY <2>4, <2>9 DEF q, z, h, k, m
  <1> QED  BY <1>1, <1>2, <1>3, <1>4, <1>6, <1>7, <1>8, <1>9

\* A read that takes the next bytes of the frame.
LEMMA ReadAdvances ==
  ASSUME TypeOK, TypeOK', Intact, LiveInv, ~lost, NEW size \in Nat \ {0}, Readable, Consume(size),
         sending' = sending, NextByte + size <= Length(sent, Reading) + 1
  PROVE  LET l == Len(Read(size))
         IN /\ l \in 1..size /\ Read(size) \in Seq(Cell) /\ Reading <= Len(sent)
            /\ \A i \in 1..l : At(Read(size), i, Reading, NextByte + i - 1)
            /\ NextByte + l <= Length(sent, Reading) => InOrder(Pending', sent, Reading, NextByte + l)
            /\ NextByte + l = Length(sent, Reading) + 1 => InOrder(Pending', sent, Reading + 1, 1)
  <1> DEFINE x == Read(size)
             l == Len(x)
             m == Reading
             k == NextByte
             q == Pending
             r == Pending'
  <1>1. x \in Seq(Cell) /\ l \in 1..size /\ q = x \o r
    BY ReadConsumes
  <1>2. /\ m \in Nat \ {0} /\ k \in Nat \ {0} /\ Len(sent) \in Nat
        /\ Len(q) > 0 => m <= Len(sent)
        /\ m <= Len(sent) => Length(sent, m) \in Nat
    BY Position
  <1>3. q \in Seq(Cell) /\ r \in Seq(Cell)
    BY PendingIs, PendingNext DEF PendingFacts
  <1>4. sent \in Seq(Bodies) /\ InOrder(q, sent, m, k) /\ k + size <= Length(sent, m) + 1
    BY Sequences DEF LiveInv
  <1> HIDE DEF x, m, k, q, r
  <1>5. l \in Nat \ {0}
    BY <1>1
  <1>6. Len(r) \in Nat
    BY <1>3, LenProperties
  <1>7. /\ Len(q) = l + Len(r)
        /\ \A i \in 1..(l + Len(r)) : q[i] = IF i <= l THEN x[i] ELSE r[i - l]
    <2>1. /\ Len(x \o r) = Len(x) + Len(r)
          /\ \A i \in 1..(Len(x) + Len(r)) : (x \o r)[i] = IF i <= Len(x) THEN x[i] ELSE r[i - Len(x)]
      BY <1>1, <1>3, ConcatProperties
    <2> QED  BY <1>1, <2>1
  <1> HIDE DEF l
  <1>8. Len(q) > 0 /\ m <= Len(sent) /\ Length(sent, m) \in Nat
    BY <1>2, <1>5, <1>6, <1>7
  <1>9. k + l <= Length(sent, m) + 1
    BY <1>1, <1>2, <1>4, <1>8
  <1>10. \A i \in 1..Len(r) : i + l \in 1..(l + Len(r)) /\ ~(i + l <= l) /\ (i + l) - l = i
    BY <1>5, <1>6
  <1>11. \A i \in 1..Len(r) : r[i] = q[i + l]
    BY <1>7, <1>10
  <1>12. \A i \in 1..l : i \in 1..(l + Len(r)) /\ i <= l
    BY <1>5, <1>6
  <1>13. \A i \in 1..l : q[i] = x[i]
    BY <1>7, <1>12
  <1>14. /\ \A i \in 1..l : At(q, i, m, k + i - 1)
         /\ k + l <= Length(sent, m) => InOrder(r, sent, m, k + l)
         /\ k + l = Length(sent, m) + 1 => InOrder(r, sent, m + 1, 1)
    BY <1>2, <1>3, <1>4, <1>5, <1>7, <1>8, <1>9, <1>11, Advances
  <1>15. \A i \in 1..l : At(x, i, m, k + i - 1)
    BY <1>13, <1>14 DEF At
  <1> QED  BY <1>1, <1>8, <1>14, <1>15 DEF x, l, m, k, q, r

\* A frame is sent.
LEMMA SendStep ==
  ASSUME TypeOK, PartInv, Intact, LiveInv, CrowdInv, OrderInv, NEW body \in Bodies, SendMessage(body)
  PROVE  TypeOK' /\ PartInv' /\ Intact' /\ LiveInv' /\ CrowdInv' /\ OrderInv'
  <1> DEFINE n == Len(sent)
             f == Frame(n + 1, body)
  <1>0. /\ sending = <<>> /\ n < MaxFrames /\ sent' = Append(sent, body) /\ sending' = f
        /\ UNCHANGED <<socket, readBuff, readBuffOff, part, headerLength, bodyLength, got, received, lost>>
    BY DEF SendMessage, buffVars, recvVars
  <1>1. /\ sent \in Seq(Bodies) /\ n \in Nat /\ Len(received) \in Nat /\ (~lost => Len(received) <= n)
        /\ socket \in Seq(Cell) /\ Buffered \in Seq(Cell) /\ readBuff \in Seq(Cell) /\ got \in Seq(Cell)
    BY Sequences DEF Intact
  <1>2. /\ sent' \in Seq(Bodies) /\ Len(sent') = n + 1 /\ \A i \in 1..n : sent'[i] = sent[i]
    BY <1>0, <1>1, AppendProperties
  <1>3. MaxFrames \in Nat /\ n + 1 \in 1..MaxFrames
    BY <1>0, <1>1, StreamAssumption
  <1>4. f \in Seq(Cell) /\ Len(f) = Prefix + Header + body
    <2> HIDE DEF n
    <2> QED  BY <1>3, FrameIs
  <1> HIDE DEF f
  <1>5. TypeOK'
    <2>1. crowded' \in BOOLEAN
      BY DEF SendMessage
    <2>2. {sending', socket', readBuff', got'} \subseteq Seq(Cell)
      BY <1>0, <1>1, <1>4
    <2>3. Len(sent') <= MaxFrames
      BY <1>2, <1>3
    <2> QED  BY <1>0, <1>2, <2>1, <2>2, <2>3 DEF TypeOK
  <1>55. Pending \in Seq(Cell) /\ Pending' = Pending \o f
    <2>1. Pending = Buffered \o socket
      BY <1>0, <1>1, ConcatEmptySeq DEF Pending
    <2>2. Buffered' = Buffered
      BY <1>0 DEF Buffered
    <2>3. Pending' = Buffered \o (socket \o f)
      BY <1>0, <2>2 DEF Pending
    <2>4. (Buffered \o socket) \o f = Buffered \o (socket \o f)
      <3> DEFINE b == Buffered
      <3>1. b \in Seq(Cell) /\ socket \in Seq(Cell) /\ f \in Seq(Cell)
        BY <1>1, <1>4
      <3> HIDE DEF b
      <3>2. (b \o socket) \o f = b \o (socket \o f)
        BY <3>1, Assoc, Zenon
      <3> QED  BY <3>2, Zenon DEF b
    <2>5. Pending \in Seq(Cell)
      BY Sequences
    <2> QED  BY <2>1, <2>3, <2>4, <2>5
  <1>6. Intact'
    <2> SUFFICES ASSUME ~lost PROVE Intact'
      BY <1>0 DEF Intact
    <2>1. DOMAIN received = 1..Len(received)
      BY Sequences, LenProperties
    <2>2. Len(received') <= Len(sent')
      BY <1>0, <1>1, <1>2
    <2>3. ASSUME NEW i \in DOMAIN received' PROVE received'[i] = Body(i, sent'[i])
      <3>1. i \in DOMAIN received /\ i \in 1..n
        BY <1>0, <1>1, <2>1
      <3>2. received[i] = Body(i, sent[i])
        BY <3>1 DEF Intact
      <3> QED  BY <1>0, <1>2, <3>1, <3>2
    <2> QED  BY <2>2, <2>3 DEF Intact
  <1>7. LiveInv'
    <2> SUFFICES ASSUME ~lost PROVE InOrder(Pending, sent, Reading, NextByte)' /\ GotInv'
      BY <1>0 DEF LiveInv
    <2>1. Reading' = Reading /\ NextByte' = NextByte
      BY <1>0 DEF Reading, NextByte
    <2>2. /\ Reading \in Nat \ {0} /\ NextByte \in Nat \ {0} /\ Reading <= n + 1
          /\ Reading = n + 1 => NextByte = 1
          /\ part # "length" => Reading <= n
      BY Position DEF LiveInv, GotInv
    <2>4. InOrder(Pending, sent, Reading, NextByte)
      BY DEF LiveInv
    <2>5. InOrder(Pending \o f, Append(sent, body), Reading, NextByte)
      BY <1>0, <1>1, <1>55, <2>2, <2>4, FrameJoins DEF f
    <2>6. InOrder(Pending', sent', Reading', NextByte')
      BY <1>0, <1>55, <2>1, <2>5
    <2>7. GotInv'
      <3>1. GotInv
        BY DEF LiveInv
      <3>2. part # "length" => sent'[Reading] = sent[Reading]
        BY <1>1, <1>2, <2>2
      <3>3. part # "length" => Reading <= Len(sent')
        BY <1>1, <1>2, <2>2
      <3> QED  BY <1>0, <2>1, <3>1, <3>2, <3>3 DEF GotInv, At
    <2>8. InOrder(Pending, sent, Reading, NextByte)'
      BY <2>6 DEF InOrder, At, From, Length
    <2> QED  BY <2>7, <2>8
  <1>8. CrowdInv'
    <2> SUFFICES ASSUME ~crowded' PROVE CrowdInv'
      BY DEF CrowdInv
    <2>1. ~crowded /\ ~(Len(received) < n) /\ ~(Prefix + Header + body > Chunk)
      BY DEF SendMessage
    <2>2. Len(received) = n /\ Reading = n + 1 /\ ~lost
      BY <1>1, <2>1 DEF Reading, CrowdInv
    <2>3. part = "length" /\ NextByte = 1
      BY <2>2, Position
    <2>4. Len(Pending) = 0
      <3>1. ~(Len(Pending) > 0)
        BY <1>1, <2>2, Position
      <3>2. Len(Pending) \in Nat
        BY PendingIs, LenProperties DEF PendingFacts
      <3> QED  BY <3>1, <3>2
    <2>5. Remaining = 0 /\ Len(socket) = 0
      BY <2>4, PendingIs DEF PendingFacts
    <2>6. socket = <<>>
      BY <1>1, <2>5, EmptySeq
    <2>7. Remaining' = 0
      BY <1>0, <2>5 DEF Remaining
    <2>8. Len(sent') <= Reading'
      BY <1>0, <1>1, <1>2, <2>2 DEF Reading
    <2>9. Len(sending') <= Chunk
      <3>1. Prefix + Header + body \in Nat /\ Chunk \in Nat
        BY StreamAssumption
      <3> QED  BY <1>0, <1>4, <2>1, <3>1
    <2> QED  BY <1>0, <2>2, <2>3, <2>6, <2>7, <2>8, <2>9 DEF CrowdInv
  <1>9. PartInv'
    BY <1>0 DEF PartInv, Wanted
  <1>10. OrderInv'
    <2>1. Ordered(received, got, Pending \o f, n + 1)
      <3> HIDE DEF n
      <3> QED  BY <1>1, <1>3, <1>55, Sequences, OrderSends DEF OrderInv, f, n
    <2> QED  BY <1>0, <1>2, <1>55, <2>1 DEF OrderInv
  <1> QED  BY <1>5, <1>6, <1>7, <1>8, <1>9, <1>10

\* The kernel queues a piece of it.
LEMMA ArriveStep ==
  ASSUME TypeOK, PartInv, Intact, LiveInv, CrowdInv, OrderInv, Arrive
  PROVE  TypeOK' /\ PartInv' /\ Intact' /\ LiveInv' /\ CrowdInv' /\ OrderInv'
  <1> DEFINE n == IF Len(sending) > Chunk THEN Chunk ELSE Len(sending)
             x == SubSeq(sending, 1, n)
             y == SubSeq(sending, n + 1, Len(sending))
  <1>0. /\ sending # <<>> /\ socket' = socket \o x /\ sending' = y
        /\ UNCHANGED <<sent, readBuff, readBuffOff, part, headerLength, bodyLength, got, received,
                       lost, crowded>>
    BY DEF Arrive, recvVars
  <1>1. /\ sending \in Seq(Cell) /\ Len(sending) \in Nat /\ socket \in Seq(Cell) /\ Buffered \in Seq(Cell)
        /\ readBuff \in Seq(Cell) /\ got \in Seq(Cell)
    BY Sequences
  <1>2. n \in Nat /\ n <= Len(sending) /\ (Len(sending) <= Chunk => n = Len(sending))
    BY <1>1, StreamAssumption
  <1> HIDE DEF n
  <1>3. x \in Seq(Cell) /\ y \in Seq(Cell) /\ Len(y) = Len(sending) - n /\ x \o y = sending
    BY <1>1, <1>2, CutFirst
  <1> HIDE DEF x, y
  <1>4. socket' \in Seq(Cell)
    BY <1>0, <1>1, <1>3, ConcatProperties
  <1>5. TypeOK'
    <2>1. {sending', socket', readBuff', got'} \subseteq Seq(Cell)
      BY <1>0, <1>1, <1>3, <1>4
    <2> QED  BY <1>0, <2>1 DEF TypeOK
  <1>6. Pending' = Pending
    <2>1. Buffered' = Buffered
      BY <1>0 DEF Buffered
    <2>2. (socket \o x) \o y = socket \o (x \o y)
      <3>1. socket \in Seq(Cell) /\ x \in Seq(Cell) /\ y \in Seq(Cell)
        BY <1>1, <1>3
      <3> QED  BY <3>1, Assoc, Zenon
    <2>3. socket' \o sending' = socket \o sending
      BY <1>0, <1>3, <2>2, Zenon
    <2> QED  BY <2>1, <2>3, Zenon DEF Pending
  <1>7. Reading' = Reading /\ NextByte' = NextByte
    BY <1>0 DEF Reading, NextByte
  <1>8. Intact'
    BY <1>0 DEF Intact
  <1>9. LiveInv'
    <2>1. GotInv => GotInv'
      BY <1>0, <1>7 DEF GotInv, At
    <2>2. InOrder(Pending, sent, Reading, NextByte) => InOrder(Pending, sent, Reading, NextByte)'
      BY <1>0, <1>6, <1>7 DEF InOrder, At, From, Length
    <2> QED  BY <1>0, <2>1, <2>2 DEF LiveInv
  <1>10. CrowdInv'
    <2> SUFFICES ASSUME ~crowded' PROVE CrowdInv'
      BY DEF CrowdInv
    <2>1. /\ ~lost /\ Len(sent) <= Reading /\ (part = "length" => Remaining = 0)
          /\ part = "length" /\ Len(sending) <= Chunk
      BY <1>0 DEF CrowdInv
    <2>2. sending' = <<>>
      <3>1. Len(y) = 0
        BY <1>1, <1>2, <1>3, <2>1
      <3> QED  BY <1>0, <1>3, <3>1, EmptySeq
    <2>3. Remaining' = 0
      BY <1>0, <2>1 DEF Remaining
    <2> QED  BY <1>0, <1>7, <2>1, <2>2, <2>3 DEF CrowdInv
  <1>11. PartInv' /\ OrderInv'
    BY <1>0, <1>6 DEF PartInv, Wanted, OrderInv
  <1> QED  BY <1>5, <1>8, <1>9, <1>10, <1>11

\* Bytes that are bytes first to last of frame m.
LEMMA CellsOnly ==
  ASSUME NEW m \in 1..MaxFrames, NEW first \in Nat \ {0}, NEW last \in Nat, last >= first - 1,
         NEW c \in Seq(Cell), Len(c) = last - first + 1,
         \A i \in 1..(last - first + 1) : At(c, i, m, first + i - 1)
  PROVE  c = Cells(m, first, last)
  <1> DEFINE d == Cells(m, first, last)
             z == last - first + 1
  <1>1. d \in Seq(Cell) /\ Len(d) = z /\ \A i \in 1..z : At(d, i, m, first + i - 1)
    BY CellsAre
  <1>2. Len(c) = z /\ \A i \in 1..z : At(c, i, m, first + i - 1)
    OBVIOUS
  <1> HIDE DEF d, z
  <1>3. ASSUME NEW i \in 1..z PROVE c[i] = d[i]
    <2>1. c[i] \in Cell /\ d[i] \in Cell
      BY <1>1, <1>2, ElementOfSeq
    <2>2. c[i][1] = d[i][1] /\ c[i][2] = d[i][2]
      BY <1>1, <1>2 DEF At
    <2> DEFINE u == c[i]
               v == d[i]
    <2>3. u \in Cell /\ v \in Cell /\ u[1] = v[1] /\ u[2] = v[2]
      BY <2>1, <2>2
    <2> HIDE DEF u, v
    <2>4. u = <<u[1], u[2]>> /\ v = <<v[1], v[2]>>
      BY <2>3 DEF Cell
    <2>5. u = v
      BY <2>3, <2>4, Zenon
    <2> QED  BY <2>5, Zenon DEF u, v
  <1>4. c = d
    BY <1>1, <1>2, <1>3, SeqEqual
  <1> QED  BY <1>4 DEF d

\* A body that is complete is the one that was sent.
LEMMA BodyIs ==
  ASSUME NEW m \in 1..MaxFrames, NEW body \in Bodies, NEW c \in Seq(Cell), Len(c) = body,
         \A i \in 1..body : At(c, i, m, Prefix + Header + i)
  PROVE  c = Body(m, body)
  <1> DEFINE first == Prefix + Header + 1
             last == Prefix + Header + body
  <1>1. Prefix \in Nat /\ Header \in Nat /\ body \in Nat
    BY StreamAssumption
  <1>2. /\ first \in Nat \ {0} /\ last \in Nat /\ last >= first - 1 /\ last - first + 1 = body
        /\ \A i \in 1..body : first + i - 1 = Prefix + Header + i
    BY <1>1
  <1>3. Body(m, body) = Cells(m, first, last)
    BY DEF Body
  <1> HIDE DEF first, last
  <1>4. Len(c) = last - first + 1 /\ \A i \in 1..(last - first + 1) : At(c, i, m, first + i - 1)
    BY <1>2
  <1>5. c = Cells(m, first, last)
    BY <1>2, <1>4, CellsOnly
  <1> QED  BY <1>3, <1>5

\* The lengths that RecvMessage takes from a prefix are lengths, and those of its
\* frame when it is the prefix of one.
LEMMA LengthsAre ==
  ASSUME TypeOK, NEW cells, NEW lengths \in Lengths(cells)
  PROVE  /\ lengths[1] \in Nat /\ lengths[2] \in Nat
         /\ \A m \in 1..Len(sent) :
              cells = Cells(m, 1, Prefix) => lengths[1] = Header /\ lengths[2] = sent[m]
  <1> DEFINE frames == {m \in DOMAIN sent : cells = Cells(m, 1, Prefix)}
  <1>0. /\ Prefix \in Nat \ {0} /\ Header \in Nat /\ Bodies \subseteq Nat /\ Garbled \subseteq Nat
        /\ MaxFrames \in Nat
    BY StreamAssumption
  <1>1. /\ sent \in Seq(Bodies) /\ Len(sent) \in Nat /\ DOMAIN sent = 1..Len(sent)
        /\ Len(sent) <= MaxFrames /\ \A m \in 1..Len(sent) : sent[m] \in Nat /\ m \in 1..MaxFrames
    <2>1. sent \in Seq(Bodies) /\ Len(sent) \in Nat /\ Len(sent) <= MaxFrames
      BY Sequences DEF TypeOK
    <2>2. DOMAIN sent = 1..Len(sent) /\ \A m \in 1..Len(sent) : sent[m] \in Bodies
      BY <2>1, LenProperties, ElementOfSeq
    <2>3. \A m \in 1..Len(sent) : m \in 1..MaxFrames
      BY <1>0, <2>1
    <2> QED  BY <1>0, <2>1, <2>2, <2>3
  <1>2. lengths \in IF frames # {} THEN {<<Header, sent[m]>> : m \in frames} ELSE Garbled \X Garbled
    BY DEF Lengths
  <1>3. CASE frames = {}
    <2>1. lengths \in Garbled \X Garbled
      BY <1>2, <1>3
    <2>2. lengths[1] \in Nat /\ lengths[2] \in Nat
      BY <1>0, <2>1
    <2> QED  BY <1>1, <1>3, <2>2
  <1>4. CASE frames # {}
    <2>1. PICK a \in frames : lengths = <<Header, sent[a]>>
      BY <1>2, <1>4
    <2>2. a \in 1..Len(sent) /\ cells = Cells(a, 1, Prefix)
      BY <1>1, <2>1
    <2>3. lengths[1] = Header /\ lengths[2] = sent[a]
      BY <2>1
    <2>4. ASSUME NEW m \in 1..Len(sent), cells = Cells(m, 1, Prefix) PROVE m = a
      <3>1. 1 \in 1..(Prefix - 1 + 1) /\ Prefix >= 1 - 1 /\ 1 \in Nat \ {0}
        BY <1>0
      <3>2. At(cells, 1, m, 1 + 1 - 1)
        BY <1>0, <1>1, <2>4, <3>1, CellsAre
      <3>3. At(cells, 1, a, 1 + 1 - 1)
        BY <1>0, <1>1, <2>2, <3>1, CellsAre
      <3> QED  BY <3>2, <3>3 DEF At
    <2> QED  BY <1>0, <1>1, <2>2, <2>3, <2>4
  <1> QED  BY <1>3, <1>4

\* Where a frame begins there is a whole one to read, if there is anything.
FrameAhead ==
  /\ Reading \in 1..Len(sent) /\ NextByte = 1 /\ Len(sent) \in Nat
  /\ sent[Reading] \in Nat \ {0} /\ Length(sent, Reading) \in Nat
  /\ Prefix + 1 <= Length(sent, Reading) /\ Len(Pending) >= Prefix

LEMMA FrameIsAhead ==
  ASSUME TypeOK, Intact, LiveInv, ~lost, part = "length", Readable
  PROVE  FrameAhead
  <1>0. Prefix \in Nat \ {0} /\ Header \in Nat \ {0}
    BY StreamAssumption
  <1>1. /\ Reading \in Nat \ {0} /\ NextByte = 1 /\ Len(sent) \in Nat
        /\ Len(Pending) > 0 => Reading <= Len(sent) /\ Len(Pending) >= Length(sent, Reading) - NextByte + 1
        /\ Reading <= Len(sent) => sent[Reading] \in Nat \ {0} /\ Length(sent, Reading) \in Nat
                                    /\ Length(sent, Reading) = Prefix + Header + sent[Reading]
    BY Position
  <1>2. Len(Pending) > 0 /\ Len(Pending) \in Nat
    <2>1. PendingFacts
      BY PendingIs
    <2>2. Remaining > 0 \/ Len(socket) > 0
      <3>1. socket # <<>> => Len(socket) > 0
        BY Sequences, EmptySeq
      <3> QED  BY <3>1 DEF Readable
    <2> QED  BY <2>1, <2>2 DEF PendingFacts
  <1> DEFINE z == Length(sent, Reading)
             b == sent[Reading]
             q == Len(Pending)
  <1>3. z \in Nat /\ b \in Nat \ {0} /\ z = Prefix + Header + b /\ q >= z - 1 + 1 /\ Reading <= Len(sent)
    BY <1>1, <1>2
  <1>4. q \in Nat
    BY <1>2
  <1> HIDE DEF z, b, q
  <1>5. Prefix + 1 <= z /\ q >= Prefix
    BY <1>0, <1>3, <1>4
  <1>6. Reading \in 1..Len(sent)
    BY <1>1, <1>3
  <1> QED  BY <1>1, <1>3, <1>5, <1>6 DEF z, b, q, FrameAhead

\* The length prefix is read.
LEMMA ReadLengthStep ==
  ASSUME TypeOK, PartInv, Intact, LiveInv, CrowdInv, OrderInv, ReadLength
  PROVE  TypeOK' /\ PartInv' /\ Intact' /\ LiveInv' /\ CrowdInv' /\ OrderInv'
  <1> DEFINE x == Read(Prefix)
             l == Len(x)
  <1>0. Prefix \in Nat \ {0} /\ Header \in Nat \ {0}
    BY StreamAssumption
  <1>1. /\ part = "length" /\ Readable /\ got' = <<>> /\ Consume(Prefix)
        /\ lost' = (lost \/ l < Prefix)
        /\ sent' = sent /\ sending' = sending /\ crowded' = crowded
    BY DEF ReadLength, senderVars
  <1>2. /\ l \in 1..Prefix /\ x \in Seq(Cell) /\ readBuff' \in Seq(Cell) /\ socket' \in Seq(Cell)
        /\ readBuffOff' \in 0..Len(readBuff') /\ Len(readBuff') <= maxBuffSize
        /\ Remaining = 0 /\ Len(socket) >= Prefix => l = Prefix
        /\ Pending = x \o Pending'
    BY <1>0, <1>1, ReadConsumes
  <1>21. PICK lengths \in Lengths(x) :
          /\ headerLength' = lengths[1] /\ bodyLength' = lengths[2]
          /\ \/ lengths[1] > 0 /\ part' = "header" /\ received' = received
             \/ /\ lengths[1] = 0
                /\ \/ lengths[2] > 0 /\ part' = "body" /\ received' = received
                   \/ /\ lengths[2] = 0
                      /\ \/ part' = "length" /\ received' = Append(received, <<>>)
                         \/ part' = "dead" /\ received' = received
    BY DEF ReadLength, GoesToBody, Returns
  <1> HIDE DEF l, x
  <1>22. /\ lengths[1] \in Nat /\ lengths[2] \in Nat
         /\ \A m \in 1..Len(sent) :
              x = Cells(m, 1, Prefix) => lengths[1] = Header /\ lengths[2] = sent[m]
    BY <1>21, LengthsAre
  <1>23. /\ part' \in {"length", "header", "body", "dead"}
         /\ received' = received \/ received' = Append(received, <<>>)
    BY <1>21
  <1>24. received \in Seq(Seq(Cell)) /\ <<>> \in Seq(Cell) /\ Append(received, <<>>) \in Seq(Seq(Cell))
    BY Sequences, EmptySeq, AppendProperties
  <1>3. TypeOK'
    <2>2. sending' \in Seq(Cell) /\ got' \in Seq(Cell)
      BY <1>1, Sequences, EmptySeq
    <2>3. {sending', socket', readBuff', got'} \subseteq Seq(Cell)
      BY <1>2, <2>2
    <2>4. headerLength' \in Nat /\ bodyLength' \in Nat
      BY <1>21, <1>22
    <2>5. lost' \in BOOLEAN
      BY <1>1
    <2>6. received' \in Seq(Seq(Cell))
      BY <1>23, <1>24
    <2> QED  BY <1>1, <1>2, <1>23, <2>3, <2>4, <2>5, <2>6 DEF TypeOK
  <1>31. PartInv'
    <2>1. Len(got') = 0
      BY <1>1
    <2>2. part' = "header" => 0 < headerLength'
      BY <1>21
    <2>3. part' = "body" => 0 < bodyLength'
      BY <1>21
    <2> QED  BY <2>1, <2>2, <2>3 DEF PartInv, Wanted
  <1>32. OrderInv'
    <2>1. Pending' \in Seq(Cell) /\ got \in Seq(Cell) /\ Len(sent) \in Nat
      BY <1>3, PendingNext, Sequences DEF PendingFacts
    <2>2. Ordered(received, got, x \o Pending', Len(sent))
      BY <1>2 DEF OrderInv
    <2> DEFINE p == Pending'
    <2> HIDE DEF p
    <2>3. Ordered(received, <<>>, p, Len(sent))
      BY <1>2, <1>24, <2>1, <2>2, OrderTakes, OrderDrops, ConcatProperties DEF p
    <2>4. Ordered(Append(received, <<>>), <<>>, p, Len(sent))
      BY <1>24, <2>1, <2>3, OrderReturns DEF p
    <2> QED  BY <1>1, <1>23, <2>3, <2>4 DEF OrderInv, p
  <1>33. CASE lost
    <2>1. lost' /\ crowded'
      BY <1>1, <1>33 DEF CrowdInv, TypeOK
    <2> QED  BY <1>3, <1>31, <1>32, <2>1 DEF Intact, LiveInv, CrowdInv
  <1>34. CASE ~lost /\ l < Prefix
    <2>1. lost'
      BY <1>1, <1>34
    <2>2. crowded
      <3> SUFFICES ASSUME ~crowded PROVE FALSE
        BY DEF TypeOK
      <3>1. Remaining = 0
        BY <1>1 DEF CrowdInv
      <3>2. Len(socket) \in Nat /\ Len(sending) \in Nat /\ Len(Pending) = Remaining + Len(socket) + Len(sending)
        BY PendingIs DEF PendingFacts
      <3>3. socket # <<>>
        BY <1>1, <3>1 DEF Readable
      <3>4. sending = <<>>
        BY <3>3 DEF CrowdInv
      <3>5. Len(sending) = 0
        BY <3>4
      <3>6. ~lost
        BY <1>34
      <3>7. FrameAhead
        BY <1>1, <3>6, FrameIsAhead
      <3>8. Len(socket) >= Prefix
        BY <1>0, <3>1, <3>2, <3>5, <3>7 DEF FrameAhead
      <3> QED  BY <1>0, <1>2, <1>34, <3>1, <3>8
    <2> QED  BY <1>1, <1>3, <1>31, <1>32, <2>1, <2>2 DEF Intact, LiveInv, CrowdInv
  <1>35. CASE ~lost /\ ~(l < Prefix)
    <2>0. ~lost /\ ~lost' /\ l = Prefix
      <3>1. ~lost'
        BY <1>1, <1>35, Zenon
      <3>2. l = Prefix
        BY <1>0, <1>2, <1>35
      <3> QED  BY <1>35, <3>1, <3>2
    <2>1. FrameAhead
      BY <1>1, <2>0, FrameIsAhead
    <2>2. /\ Reading \in 1..Len(sent) /\ NextByte = 1 /\ sent[Reading] \in Nat \ {0}
          /\ NextByte + Prefix <= Length(sent, Reading) + 1 /\ NextByte + l <= Length(sent, Reading)
          /\ NextByte + l = Prefix + 1 /\ Len(sent) \in Nat
      <3> DEFINE z == Length(sent, Reading)
      <3>1. /\ Reading \in 1..Len(sent) /\ NextByte = 1 /\ sent[Reading] \in Nat \ {0}
            /\ Len(sent) \in Nat /\ z \in Nat /\ Prefix + 1 <= z
        BY <2>1 DEF FrameAhead
      <3> HIDE DEF z
      <3>2. 1 + Prefix <= z + 1 /\ 1 + Prefix <= z /\ 1 + Prefix = Prefix + 1
        BY <1>0, <3>1
      <3> QED  BY <2>0, <3>1, <3>2 DEF z
    <2>3. /\ \A i \in 1..l : At(x, i, Reading, NextByte + i - 1)
          /\ InOrder(Pending', sent, Reading, NextByte + l)
      BY <1>0, <1>1, <1>3, <2>0, <2>2, ReadAdvances DEF l, x
    \* It is the prefix of the frame.
    <2>4. x = Cells(Reading, 1, Prefix)
      <3> DEFINE m == Reading
      <3>1. m \in 1..MaxFrames
        <4>1. Len(sent) <= MaxFrames /\ MaxFrames \in Nat
          BY StreamAssumption DEF TypeOK
        <4> HIDE DEF m
        <4> QED  BY <2>2, <4>1 DEF m
      <3>2. Len(x) = Prefix - 1 + 1 /\ Prefix >= 1 - 1 /\ 1 \in Nat \ {0} /\ Prefix - 1 + 1 = Prefix
        BY <1>0, <2>0 DEF l
      <3>3. \A i \in 1..(Prefix - 1 + 1) : At(x, i, m, 1 + i - 1)
        BY <2>0, <2>2, <2>3, <3>2
      <3> HIDE DEF m
      <3>4. x = Cells(m, 1, Prefix)
        BY <1>0, <1>2, <3>1, <3>2, <3>3, CellsOnly
      <3> QED  BY <3>4 DEF m
    <2>5. lengths[1] = Header /\ lengths[2] = sent[Reading]
      BY <1>22, <2>2, <2>4
    <2>6. /\ part' = "header" /\ received' = received
          /\ headerLength' = Header /\ bodyLength' = sent[Reading]
      BY <1>0, <1>21, <2>5
    <2>7. Reading' = Reading /\ NextByte' = Prefix + 1
      <3>1. Len(got') = 0
        BY <1>1
      <3> QED  BY <1>0, <2>6, <3>1 DEF Reading, NextByte
    <2>8. InOrder(Pending', sent', Reading', NextByte')
      BY <1>1, <2>2, <2>3, <2>7
    <2>9. InOrder(Pending, sent, Reading, NextByte)'
      BY <2>8 DEF InOrder, At, From, Length
    <2>10. GotInv'
      <3>1. Reading <= Len(sent)
        BY <2>2
      <3> QED  BY <1>1, <2>6, <2>7, <3>1 DEF GotInv
    <2>11. CrowdInv'
      <3> SUFFICES ASSUME ~crowded PROVE CrowdInv'
        BY <1>1 DEF CrowdInv
      <3>1. Remaining = 0 /\ Len(sent) <= Reading
        BY <1>1 DEF CrowdInv
      <3>2. socket # <<>>
        BY <1>1, <3>1 DEF Readable
      <3>3. sending = <<>>
        BY <3>2 DEF CrowdInv
      <3> QED  BY <1>1, <2>0, <2>6, <2>7, <3>1, <3>3 DEF CrowdInv
    <2>12. Intact'
      BY <1>1, <2>0, <2>6 DEF Intact
    <2> QED  BY <1>3, <1>31, <1>32, <2>9, <2>10, <2>11, <2>12 DEF LiveInv
  <1> QED  BY <1>33, <1>34, <1>35

\* A piece of the header or the body is read.
LEMMA ReadBufStep ==
  ASSUME TypeOK, PartInv, Intact, LiveInv, CrowdInv, OrderInv, ReadBuf
  PROVE  TypeOK' /\ PartInv' /\ Intact' /\ LiveInv' /\ CrowdInv' /\ OrderInv'
  <1> DEFINE size == Least(Wanted - Len(got), MaxRecv)
             x == Read(size)
             l == Len(x)
             cells == got \o x
             g == Len(got)
             w == Wanted
             m == Reading
             z == Length(sent, m)
             b == sent[m]
             base == IF part = "header" THEN Prefix ELSE Prefix + Header
  <1>0. Prefix \in Nat \ {0} /\ Header \in Nat \ {0} /\ MaxRecv \in Nat \ {0} /\ MaxFrames \in Nat
    BY StreamAssumption
  <1>1. /\ part \in {"header", "body"} /\ Readable /\ Consume(size)
        /\ sent' = sent /\ sending' = sending /\ crowded' = crowded /\ lost' = lost
        /\ headerLength' = headerLength /\ bodyLength' = bodyLength
        /\ \/ ~PartRead(cells) /\ got' = cells /\ part' = part /\ received' = received
           \/ /\ PartRead(cells) /\ got' = <<>> /\ part = "header"
              /\ \/ bodyLength > 0 /\ part' = "body" /\ received' = received
                 \/ bodyLength = 0 /\ part' = "length" /\ received' = Append(received, <<>>)
                 \/ bodyLength = 0 /\ lost /\ part' = "dead" /\ received' = received
           \/ /\ PartRead(cells) /\ got' = <<>> /\ part = "body"
              /\ \/ part' = "length" /\ received' = Append(received, cells)
                 \/ lost /\ part' = "dead" /\ received' = received
    BY DEF ReadBuf, senderVars, GoesToBody, Returns
  <1>4. g \in Nat /\ got \in Seq(Cell) /\ Len(received) \in Nat /\ received \in Seq(Seq(Cell))
    BY Sequences
  <1>5. w \in Nat /\ g < w
    BY <1>1 DEF PartInv, Wanted, TypeOK
  <1>6. size \in Nat \ {0} /\ size <= w - g
    <2> HIDE DEF w, g
    <2> QED  BY <1>0, <1>4, <1>5 DEF Least, w, g
  <1>8. /\ x \in Seq(Cell) /\ l \in 1..size /\ Pending = x \o Pending' /\ readBuff' \in Seq(Cell) /\ socket' \in Seq(Cell)
        /\ readBuffOff' \in 0..Len(readBuff') /\ Len(readBuff') <= maxBuffSize
    <2> HIDE DEF size
    <2> QED  BY <1>1, <1>6, ReadConsumes
  <1>9. /\ cells \in Seq(Cell) /\ Len(cells) = g + l
        /\ \A i \in 1..(g + l) : cells[i] = IF i <= g THEN got[i] ELSE x[i - g]
    <2> HIDE DEF x
    <2> QED  BY <1>4, <1>8, ConcatProperties
  <1>10. l \in Nat \ {0} /\ g + l <= w
    <2> HIDE DEF l, g, w, size
    <2> QED  BY <1>4, <1>5, <1>6, <1>8
  <1>11. PartRead(cells) <=> g + l = w
    BY <1>9 DEF PartRead
  <1>12. TypeOK'
    <2>1. part' \in {"length", "header", "body", "dead"}
      BY <1>1
    <2>2. got' \in Seq(Cell)
      <3> HIDE DEF cells
      <3> QED  BY <1>1, <1>9, EmptySeq
    <2>3. received' \in Seq(Seq(Cell))
      <3> HIDE DEF cells
      <3>1. Append(received, cells) \in Seq(Seq(Cell)) /\ Append(received, <<>>) \in Seq(Seq(Cell))
        BY <1>4, <1>9, EmptySeq, AppendProperties
      <3> QED  BY <1>1, <1>4, <3>1
    <2>4. {sending', socket', readBuff', got'} \subseteq Seq(Cell)
      <3>1. sending' \in Seq(Cell)
        BY <1>1, Sequences
      <3> QED  BY <1>8, <2>2, <3>1
    <2> QED  BY <1>1, <1>8, <2>1, <2>3, <2>4 DEF TypeOK
  <1>121. PartInv'
    <2>1. CASE ~PartRead(cells)
      <3>1. got' = cells /\ part' = part /\ Wanted' = w /\ Len(got') = g + l
        <4> HIDE DEF cells
        <4> QED  BY <1>1, <1>9, <2>1 DEF Wanted
      <3>2. g + l < w
        <4> HIDE DEF g, l, w, cells
        <4> QED  BY <1>4, <1>5, <1>10, <1>11, <2>1
      <3> QED  BY <3>1, <3>2 DEF PartInv
    <2>2. CASE PartRead(cells)
      <3>1. Len(got') = 0 /\ part' # "header" /\ (part' = "body" => bodyLength' > 0)
        BY <1>1, <2>2
      <3> QED  BY <3>1 DEF PartInv, Wanted
    <2> QED  BY <2>1, <2>2
  <1>122. OrderInv'
    <2> DEFINE p == Pending'
    <2>1. p \in Seq(Cell) /\ Len(sent) \in Nat
      BY <1>12, PendingNext, Sequences DEF PendingFacts
    <2>2. Ordered(received, got, x \o p, Len(sent))
      BY <1>8 DEF OrderInv
    <2> HIDE DEF p, x
    <2>3. Ordered(received, cells, p, Len(sent)) /\ cells \in Seq(Cell)
      BY <1>4, <1>8, <1>9, <2>1, <2>2, OrderTakes
    <2> HIDE DEF cells
    <2>4. Ordered(received, <<>>, p, Len(sent))
      BY <1>4, <2>1, <2>3, OrderDrops
    <2>5. Ordered(Append(received, cells), <<>>, p, Len(sent))
      BY <1>4, <2>1, <2>3, OrderReturns
    <2>6. Ordered(Append(received, <<>>), <<>>, p, Len(sent))
      BY <1>4, <2>1, <2>4, EmptySeq, OrderReturns
    <2> QED  BY <1>1, <2>3, <2>4, <2>5, <2>6 DEF OrderInv, p
  \* What RecvMessage returns once it lost the frames.
  <1>123. CASE lost
    <2>1. lost' /\ crowded'
      BY <1>1, <1>123 DEF CrowdInv, TypeOK
    <2> QED  BY <1>12, <1>121, <1>122, <2>1 DEF Intact, LiveInv, CrowdInv
  <1> SUFFICES ASSUME ~lost PROVE Intact' /\ LiveInv' /\ CrowdInv'
    BY <1>12, <1>121, <1>122, <1>123
  <1>2. ~lost /\ ~lost' /\ part # "length"
    BY <1>1
  <1>3. /\ m \in Nat \ {0} /\ Len(sent) \in Nat /\ m <= Len(sent) /\ m = Len(received) + 1
        /\ b \in Nat \ {0} /\ z \in Nat /\ z = Prefix + Header + b /\ NextByte \in Nat \ {0}
        /\ headerLength = Header /\ bodyLength = b
    <2>1. m <= Len(sent) /\ headerLength = Header /\ bodyLength = b
      BY <1>2 DEF LiveInv, GotInv
    <2> QED  BY <1>2, <2>1, Position
  <1>51. w = IF part = "header" THEN Header ELSE b
    BY <1>3 DEF Wanted
  <1>52. /\ ~PartRead(cells) => got' = cells /\ part' = part /\ received' = received
         /\ PartRead(cells) /\ part = "header" => got' = <<>> /\ part' = "body" /\ received' = received
         /\ PartRead(cells) /\ part = "body" =>
              got' = <<>> /\ part' = "length" /\ received' = Append(received, cells)
    <2> HIDE DEF cells, b
    <2> QED  BY <1>1, <1>2, <1>3
  <1>7. /\ NextByte = base + 1 + g /\ base \in Nat /\ base + w <= z
        /\ part = "header" => base + w < z
        /\ part = "body" => base + w = z
    <2>1. NextByte = base + 1 + g
      BY <1>1 DEF NextByte
    <2> HIDE DEF w, g, b, z
    <2> QED  BY <1>0, <1>1, <1>3, <1>5, <1>51, <2>1
  <1>13. /\ \A i \in 1..l : At(x, i, m, NextByte + i - 1)
         /\ NextByte + l <= z => InOrder(Pending', sent, m, NextByte + l)
         /\ NextByte + l = z + 1 => InOrder(Pending', sent, m + 1, 1)
    <2>1. NextByte + size <= z + 1
      <3>1. /\ NextByte = base + 1 + g /\ base \in Nat /\ base + w <= z /\ size <= w - g
            /\ z \in Nat /\ g \in Nat /\ w \in Nat /\ size \in Nat
        <4> HIDE DEF base, w, g, z, size
        <4> QED  BY <1>3, <1>4, <1>5, <1>6, <1>7, Zenon
      <3> DEFINE k == NextByte
      <3> HIDE DEF base, w, g, z, size, k
      <3>2. k = base + 1 + g
        BY <3>1 DEF k
      <3>3. k + size <= z + 1
        BY <3>1, <3>2
      <3> QED  BY <3>3 DEF k
    <2> HIDE DEF size
    <2> QED  BY <1>1, <1>2, <1>6, <1>12, <2>1, ReadAdvances
  \* What has been read of the body is the body so far.
  <1>14. part = "body" => \A i \in 1..(g + l) : At(cells, i, m, Prefix + Header + i)
    <2> SUFFICES ASSUME part = "body", NEW i \in 1..(g + l) PROVE At(cells, i, m, Prefix + Header + i)
      OBVIOUS
    <2>1. CASE i <= g
      <3>1. i \in 1..g
        <4> HIDE DEF g, l
        <4> QED  BY <1>4, <1>10, <2>1
      <3>2. At(got, i, m, Prefix + Header + i)
        BY <1>2, <3>1 DEF LiveInv, GotInv
      <3>3. cells[i] = got[i]
        BY <1>9, <2>1
      <3> HIDE DEF cells, m
      <3> QED  BY <3>2, <3>3 DEF At
    <2>2. CASE ~(i <= g)
      <3>1. i - g \in 1..l /\ NextByte + (i - g) - 1 = Prefix + Header + i
        <4>1. base = Prefix + Header
          OBVIOUS
        <4> HIDE DEF g, l, base
        <4> QED  BY <1>0, <1>4, <1>7, <1>10, <2>2, <4>1
      <3>2. At(x, i - g, m, Prefix + Header + i)
        BY <1>13, <3>1
      <3>3. cells[i] = x[i - g]
        BY <1>9, <2>2
      <3> HIDE DEF cells, m, x, g
      <3> QED  BY <3>2, <3>3 DEF At
    <2> QED  BY <2>1, <2>2
  <1> HIDE DEF size, x, l, cells, g, w, z, b, base
  <1>15. CASE ~PartRead(cells)
    <2>1. got' = cells /\ part' = part /\ received' = received /\ g + l < w
      <3>1. got' = cells /\ part' = part /\ received' = received
        BY <1>15, <1>52, Zenon
      <3>2. g + l # w
        BY <1>11, <1>15
      <3>3. g + l < w
        <4>1. g \in Nat /\ l \in Nat /\ w \in Nat /\ g + l <= w
          BY <1>4, <1>5, <1>10
        <4> QED  BY <3>2, <4>1
      <3> QED  BY <3>1, <3>3, Zenon
    <2>2. Len(got') = g + l
      BY <1>9, <2>1
    <2>3. Reading' = m /\ NextByte' = NextByte + l
      <3>1. Reading' = m
        BY <2>1 DEF Reading
      <3>2. NextByte' = base + 1 + (g + l)
        BY <1>1, <2>1, <2>2 DEF NextByte, base
      <3> QED  BY <1>4, <1>7, <1>10, <3>1, <3>2
    <2>4. NextByte + l <= z
      BY <1>3, <1>4, <1>5, <1>7, <1>10, <2>1
    <2>5. InOrder(Pending', sent', Reading', NextByte')
      BY <1>1, <1>13, <2>3, <2>4
    <2>6. InOrder(Pending, sent, Reading, NextByte)'
      BY <2>5 DEF InOrder, At, From, Length
    <2>7. GotInv'
      <3>2. part # "dead" /\ headerLength' = Header /\ bodyLength' = sent[m]
        BY <1>1, <1>3 DEF b
      <3>3. part = "body" => \A i \in 1..Len(got') : At(cells, i, m, Prefix + Header + i)
        BY <1>14, <2>2
      <3>4. m <= Len(sent)
        BY <1>3
      <3> HIDE DEF m
      <3> QED  BY <1>1, <1>2, <2>1, <2>3, <3>2, <3>3, <3>4 DEF GotInv, At
    <2>8. Intact'
      BY <1>1, <1>2, <2>1 DEF Intact
    <2>9. CrowdInv'
      BY <1>1, <1>2, <2>1, <2>3 DEF CrowdInv
    <2> QED  BY <2>6, <2>7, <2>8, <2>9 DEF LiveInv
  <1>16. CASE PartRead(cells) /\ part = "header"
    <2>1. got' = <<>> /\ part' = "body" /\ received' = received /\ g + l = w
      BY <1>11, <1>16, <1>52
    <2>2. Len(got') = 0
      BY <2>1
    <2>3. w = Header /\ base = Prefix
      BY <1>16, <1>51 DEF base
    <2>4. Reading' = m /\ NextByte' = NextByte + l
      <3>1. Reading' = m
        BY <2>1 DEF Reading
      <3>2. NextByte' = Prefix + Header + 1 + 0
        BY <2>1, <2>2 DEF NextByte
      <3> QED  BY <1>0, <1>4, <1>7, <1>10, <2>1, <2>3, <3>1, <3>2
    <2>5. NextByte + l <= z
      BY <1>0, <1>3, <1>4, <1>7, <1>10, <1>16, <2>1, <2>3
    <2>6. InOrder(Pending', sent', Reading', NextByte')
      BY <1>1, <1>13, <2>4, <2>5
    <2>7. InOrder(Pending, sent, Reading, NextByte)'
      BY <2>6 DEF InOrder, At, From, Length
    <2>8. GotInv'
      <3>1. headerLength' = Header /\ bodyLength' = sent[m]
        BY <1>1, <1>3 DEF b
      <3>2. m <= Len(sent)
        BY <1>3
      <3> HIDE DEF m
      <3> QED  BY <1>1, <2>1, <2>2, <2>4, <3>1, <3>2 DEF GotInv
    <2>9. Intact'
      BY <1>1, <1>2, <2>1 DEF Intact
    <2>10. CrowdInv'
      BY <1>1, <1>2, <2>1, <2>4 DEF CrowdInv
    <2> QED  BY <2>7, <2>8, <2>9, <2>10 DEF LiveInv
  <1>17. CASE PartRead(cells) /\ part = "body"
    <2>1. got' = <<>> /\ part' = "length" /\ received' = Append(received, cells) /\ g + l = w
      BY <1>11, <1>17, <1>52
    <2>2. w = b /\ base = Prefix + Header
      BY <1>17, <1>51 DEF base
    <2>3. /\ Len(received') = Len(received) + 1 /\ received'[Len(received) + 1] = cells
          /\ \A i \in 1..Len(received) : received'[i] = received[i]
          /\ DOMAIN received' = 1..(Len(received) + 1) /\ DOMAIN received = 1..Len(received)
      BY <1>4, <1>9, <2>1, AppendProperties, LenProperties
    <2>4. Reading' = m + 1 /\ NextByte' = 1
      BY <1>3, <2>1, <2>3 DEF Reading, NextByte
    <2>5. NextByte + l = z + 1
      BY <1>0, <1>3, <1>4, <1>7, <1>10, <1>17, <2>1, <2>2
    <2>6. InOrder(Pending', sent', Reading', NextByte')
      BY <1>1, <1>13, <2>4, <2>5
    <2>7. InOrder(Pending, sent, Reading, NextByte)'
      BY <2>6 DEF InOrder, At, From, Length
    <2>8. GotInv'
      BY <2>1 DEF GotInv
    <2>9. Intact'
      <3>1. cells = Body(m, b)
        <4>1. m \in 1..MaxFrames
          <5>1. Len(sent) <= MaxFrames
            BY DEF TypeOK
          <5> HIDE DEF m
          <5> QED  BY <1>0, <1>3, <5>1
        <4>2. b \in Bodies
          <5>1. m \in 1..Len(sent)
            BY <1>3
          <5> QED  BY <5>1, Sequences, ElementOfSeq DEF b
        <4>3. Len(cells) = b /\ \A i \in 1..b : At(cells, i, m, Prefix + Header + i)
          BY <1>9, <1>14, <1>17, <2>1, <2>2
        <4> HIDE DEF m
        <4> QED  BY <1>9, <4>1, <4>2, <4>3, BodyIs
      <3>2. Len(received') <= Len(sent')
        BY <1>1, <1>3, <2>3
      <3>3. ASSUME NEW i \in DOMAIN received' PROVE received'[i] = Body(i, sent'[i])
        <4>1. CASE i = Len(received) + 1
          BY <1>1, <1>3, <2>3, <3>1, <4>1 DEF b
        <4>2. CASE i # Len(received) + 1
          <5>1. i \in 1..Len(received)
            BY <1>4, <2>3, <4>2
          <5>2. received[i] = Body(i, sent[i])
            BY <1>2, <2>3, <5>1 DEF Intact
          <5> QED  BY <1>1, <2>3, <5>1, <5>2
        <4> QED  BY <4>1, <4>2
      <3> QED  BY <1>2, <3>2, <3>3 DEF Intact
    <2>10. CrowdInv'
      <3> SUFFICES ASSUME ~crowded PROVE CrowdInv'
        BY <1>1 DEF CrowdInv
      <3>1. Len(sent) <= m /\ sending = <<>>
        BY <1>2 DEF CrowdInv
      <3>2. PendingFacts'
        BY <1>12, PendingNext
      <3>3. Len(Pending') \in Nat /\ Len(Pending') = Remaining' + Len(socket') + Len(sending')
            /\ Remaining' \in Nat /\ Len(socket') \in Nat /\ Len(sending') \in Nat
        BY <3>2, LenProperties DEF PendingFacts
      <3>4. ~(Len(Pending') > 0)
        <4> SUFFICES ASSUME Len(Pending') > 0 PROVE FALSE
          OBVIOUS
        <4> DEFINE q == Pending'
        <4>1. InOrder(q, sent, m + 1, 1)
          BY <1>13, <2>5
        <4>2. 1 \in 1..Len(q)
          BY <3>3
        <4> HIDE DEF q, m
        <4>3. q[1][1] \in (m + 1)..Len(sent)
          BY <4>1, <4>2 DEF InOrder
        <4> DEFINE a == q[1][1]
        <4>4. a \in (m + 1)..Len(sent)
          BY <4>3
        <4> HIDE DEF a
        <4> QED  BY <1>3, <3>1, <4>4
      <3>5. Remaining' = 0
        BY <3>3, <3>4
      <3>6. Len(sent) <= m + 1
        <4> HIDE DEF m
        <4> QED  BY <1>3, <3>1
      <3> QED  BY <1>1, <2>1, <2>4, <3>1, <3>5, <3>6 DEF CrowdInv
    <2> QED  BY <2>7, <2>8, <2>9, <2>10 DEF LiveInv
  <1> QED  BY <1>1, <1>15, <1>16, <1>17

\* RecvMessage gives up within a frame.
LEMMA TimesOutStep ==
  ASSUME TypeOK, PartInv, Intact, LiveInv, CrowdInv, OrderInv, TimesOut
  PROVE  TypeOK' /\ PartInv' /\ Intact' /\ LiveInv' /\ CrowdInv' /\ OrderInv'
  <1>0. /\ ~Readable /\ part \in {"header", "body"} /\ part' = "length" /\ got' = <<>> /\ lost' = TRUE
        /\ UNCHANGED <<sent, sending, socket, readBuff, readBuffOff, headerLength, bodyLength,
                       received, crowded>>
    BY DEF TimesOut, senderVars, buffVars
  <1>1. TypeOK'
    <2>1. got' \in Seq(Cell)
      BY <1>0, EmptySeq
    <2> QED  BY <1>0, <2>1 DEF TypeOK
  <1>2. PartInv'
    BY <1>0 DEF PartInv
  <1>3. crowded
    <2> SUFFICES ASSUME ~crowded PROVE FALSE
      BY DEF TypeOK
    <2>1. sending = <<>> /\ socket = <<>> /\ ~(Remaining > 0) /\ ~lost
      BY <1>0 DEF CrowdInv, Readable
    <2>2. Len(sending) = 0 /\ Len(socket) = 0
      BY <2>1
    <2>3. Len(Pending) = 0
      BY <2>1, <2>2, PendingIs DEF PendingFacts
    <2>4. part # "length"
      BY <1>0
    <2>5. NextByte = 1 /\ NextByte > 1
      BY <2>1, <2>3, <2>4, Position
    <2> QED  BY <2>5
  <1>4. OrderInv'
    <2>1. Pending' = Pending
      BY <1>0 DEF Pending, Buffered
    <2>2. /\ Pending \in Seq(Cell) /\ got \in Seq(Cell) /\ received \in Seq(Seq(Cell))
          /\ Len(sent) \in Nat
      BY Sequences
    <2>3. Ordered(received, <<>>, Pending, Len(sent))
      BY <2>2, OrderDrops DEF OrderInv
    <2> QED  BY <1>0, <2>1, <2>3 DEF OrderInv
  <1> QED  BY <1>0, <1>1, <1>2, <1>3, <1>4 DEF Intact, LiveInv, CrowdInv

LEMMA InitStream == Init => StreamInv
  <1> SUFFICES ASSUME Init PROVE StreamInv
    OBVIOUS
  <1>0. /\ sent = <<>> /\ sending = <<>> /\ socket = <<>> /\ readBuff = <<>> /\ readBuffOff = 0
        /\ part = "length" /\ headerLength = 0 /\ bodyLength = 0 /\ got = <<>> /\ received = <<>>
        /\ lost = FALSE /\ crowded = FALSE
    BY DEF Init
  <1>1. /\ Len(sent) = 0 /\ Len(sending) = 0 /\ Len(socket) = 0 /\ Len(readBuff) = 0
        /\ Len(got) = 0 /\ Len(received) = 0
    BY <1>0
  <1>2. TypeOK
    <2>1. sent \in Seq(Bodies) /\ received \in Seq(Seq(Cell)) /\ {sending, socket, readBuff, got} \subseteq Seq(Cell)
      BY <1>0, EmptySeq
    <2>2. Len(sent) <= MaxFrames /\ readBuffOff \in 0..Len(readBuff) /\ Len(readBuff) <= maxBuffSize
      BY <1>0, <1>1, StreamAssumption
    <2> QED  BY <1>0, <2>1, <2>2 DEF TypeOK
  <1>3. Intact
    <2>1. DOMAIN received = {}
      BY <1>0
    <2> QED  BY <1>1, <2>1 DEF Intact
  <1>4. Len(Pending) = 0 /\ Remaining = 0
    BY <1>0, <1>1, <1>2, PendingIs DEF PendingFacts, Remaining
  <1>5. Reading = 1 /\ NextByte = 1
    BY <1>0, <1>1 DEF Reading, NextByte
  <1>6. InOrder(Pending, sent, Reading, NextByte)
    <2> DEFINE q == Pending
    <2>1. Len(q) = 0
      BY <1>4
    <2> HIDE DEF q
    <2>2. InOrder(q, sent, Reading, NextByte)
      BY <1>1, <1>5, <2>1 DEF InOrder
    <2> QED  BY <2>2 DEF q
  <1>7. GotInv
    BY <1>0 DEF GotInv
  <1>8. CrowdInv
    BY <1>0, <1>1, <1>4, <1>5 DEF CrowdInv
  <1>9. PartInv
    BY <1>0 DEF PartInv
  <1>10. OrderInv
    BY <1>1, <1>4 DEF OrderInv, Ordered, Ascending, Precedes, Within
  <1> QED  BY <1>2, <1>3, <1>6, <1>7, <1>8, <1>9, <1>10 DEF StreamInv, LiveInv

LEMMA StepStream == StreamInv /\ [Next]_vars => StreamInv'
  <1> SUFFICES ASSUME StreamInv, [Next]_vars PROVE StreamInv'
    OBVIOUS
  <1>0. TypeOK /\ PartInv /\ Intact /\ LiveInv /\ CrowdInv /\ OrderInv
    BY DEF StreamInv
  <1>1. ASSUME TypeOK' /\ PartInv' /\ Intact' /\ LiveInv' /\ CrowdInv' /\ OrderInv' PROVE StreamInv'
    BY <1>1 DEF StreamInv
  <1>2. CASE ReadLength
    BY <1>0, <1>1, <1>2, ReadLengthStep
  <1>3. CASE ReadBuf
    BY <1>0, <1>1, <1>3, ReadBufStep
  <1>4. CASE TimesOut
    BY <1>0, <1>1, <1>4, TimesOutStep
  <1>5. CASE Arrive
    BY <1>0, <1>1, <1>5, ArriveStep
  <1>6. CASE \E body \in Bodies : SendMessage(body)
    BY <1>0, <1>1, <1>6, SendStep
  <1>7. CASE UNCHANGED vars
    <2>1. UNCHANGED <<sent, sending, socket, readBuff, readBuffOff, part, headerLength, bodyLength,
                      got, received, lost, crowded>>
      BY <1>7 DEF vars
    <2>2. TypeOK' /\ Intact'
      BY <1>0, <2>1 DEF TypeOK, Intact
    <2>3. Pending' = Pending /\ Reading' = Reading /\ NextByte' = NextByte /\ Remaining' = Remaining
      BY <2>1 DEF Pending, Buffered, Reading, NextByte, Remaining
    <2>4. LiveInv'
      <3>1. GotInv => GotInv'
        BY <2>1, <2>3 DEF GotInv, At
      <3>2. InOrder(Pending, sent, Reading, NextByte) => InOrder(Pending, sent, Reading, NextByte)'
        BY <2>1, <2>3 DEF InOrder, At, From, Length
      <3> QED  BY <1>0, <2>1, <3>1, <3>2 DEF LiveInv
    <2>5. CrowdInv'
      BY <1>0, <2>1, <2>3 DEF CrowdInv
    <2>6. PartInv' /\ OrderInv'
      BY <1>0, <2>1, <2>3 DEF PartInv, Wanted, OrderInv
    <2> QED  BY <1>1, <2>2, <2>4, <2>5, <2>6
  <1> QED  BY <1>2, <1>3, <1>4, <1>5, <1>6, <1>7 DEF Next, RecvMessage

-----------------------------------------------------------------------------
(* The theorems                                                            *)

\* The invariant of the stream: until RecvMessage loses the frames, what it
\* returned is what was sent and what SocketStream::Read has still to give is the
\* rest of the frame that it reads and the frames after it; and always, what was
\* read and what is still to be read are in the order of the stream.
THEOREM StreamInvariance == Spec => []StreamInv
  BY InitStream, StepStream, PTL DEF Spec

\* SocketStream never holds more than its buffer, nor an offset past its contents,
\* also when RecvMessage asks for the parts of what is no frame.
THEOREM StreamTypeCorrect == Spec => []TypeOK
  <1>1. StreamInv => TypeOK
    BY DEF StreamInv
  <1> QED  BY <1>1, StreamInvariance, PTL

\* As long as RecvMessage took no short read for a prefix and did not give up
\* within a frame, whatever it returned is the next message that SendMessage
\* wrote, byte for byte, for any buffer, any pieces in which the kernel hands the
\* bytes over and any number of frames.
THEOREM MessagesIntact == Spec => []Intact
  <1>1. StreamInv => Intact
    BY DEF StreamInv
  <1> QED  BY <1>1, StreamInvariance, PTL

\* Whatever RecvMessage returns, also what it takes for messages after it lost the
\* frames and whatever lengths it takes from bytes that are no prefix: no byte is
\* returned twice, and none before one that was sent earlier.
THEOREM StreamIsReadOnce == Spec => []NothingRepeated
  <1>1. StreamInv => NothingRepeated
    BY DEF StreamInv, OrderInv, Ordered, NothingRepeated
  <1> QED  BY <1>1, StreamInvariance, PTL

\* RecvMessage loses the frames, by a prefix cut short or a timeout within a frame,
\* only after a frame was sent before the last was read or came in pieces.
THEOREM LostNeedsACrowd == Spec => []LostNeedsCrowd
  <1>1. StreamInv => LostNeedsCrowd
    <2> SUFFICES ASSUME StreamInv, lost PROVE crowded
      BY DEF LostNeedsCrowd
    <2>1. crowded \in BOOLEAN /\ ~(~crowded)
      BY DEF StreamInv, CrowdInv, TypeOK
    <2> QED  BY <2>1
  <1> QED  BY <1>1, StreamInvariance, PTL
=============================================================================
