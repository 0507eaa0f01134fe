-------------------------- MODULE UploadStream_proofs --------------------------
(***************************************************************************)
(* Theorems about UploadStream.                                            *)
(***************************************************************************)
EXTENDS UploadStream, TLAPS, WellFoundedInduction

(* The buffer is as long as the longest of the three.                      *)
LEMMA LengthType ==
  /\ Length \in Nat \ {0} /\ PartLimit \in Nat \ {0} /\ SimpleLimit \in Nat \ {0}
  /\ FileLimit \in Nat \ {0} /\ MaxChunk \in Nat \ {0}
  /\ PartLimit <= Length /\ SimpleLimit <= Length
<1>1. BufferLimit \in Nat \ {0} /\ SimpleLimit \in Nat \ {0} /\ PartLimit \in Nat \ {0}
      /\ FileLimit \in Nat \ {0} /\ MaxChunk \in Nat \ {0}
  BY UploadAssumption
<1>2. \E x \in {BufferLimit, SimpleLimit, PartLimit} : \A y \in {BufferLimit, SimpleLimit, PartLimit} : x >= y
  BY <1>1
<1>. QED
  BY <1>1, <1>2 DEF Length, Max

(* The least of two numbers.                                               *)
LEMMA MinTwo ==
  ASSUME NEW a \in Nat, NEW b \in Nat
  PROVE  Min({a, b}) = IF a <= b THEN a ELSE b
<1>1. \E x \in {a, b} : \A y \in {a, b} : x =< y
  OBVIOUS
<1>. QED
  BY <1>1 DEF Min

(* The least of three numbers.                                             *)
LEMMA MinThree ==
  ASSUME NEW a \in Nat, NEW b \in Nat, NEW c \in Nat
  PROVE  /\ Min({a, b, c}) \in {a, b, c}
         /\ Min({a, b, c}) <= a /\ Min({a, b, c}) <= b /\ Min({a, b, c}) <= c
<1>1. \E x \in {a, b, c} : \A y \in {a, b, c} : x =< y
  OBVIOUS
<1>. QED
  BY <1>1 DEF Min

(* An index of the second round of the buffer.                             *)
LEMMA Round ==
  ASSUME NEW i \in 0 .. 2 * Length - 1
  PROVE  i % Length = IF i < Length THEN i ELSE i - Length
<1>1. Length \in Nat \ {0}
  BY LengthType
<1>. DEFINE L == Length
<1>2. L \in Nat \ {0} /\ i \in 0 .. 2 * L - 1
  BY <1>1
<1>. HIDE DEF L
<1>3. i % L = IF i < L THEN i ELSE i - L
  BY <1>2
<1>. QED
  BY <1>3 DEF L

(* An index that goes round the ring goes round at most once.              *)
LEMMA RoundOf ==
  ASSUME NEW i \in Nat, NEW k \in Nat, i + k < 2 * Length
  PROVE  (i + k) % Length = IF i + k < Length THEN i + k ELSE i + k - Length
<1>. DEFINE x == i + k
<1>1. x \in 0 .. 2 * Length - 1
  BY LengthType
<1>. HIDE DEF x
<1>2. x % Length = IF x < Length THEN x ELSE x - Length
  BY <1>1, Round
<1>. QED
  BY <1>1, <1>2, LengthType DEF x

(* Full partitions, and what is left.                                      *)
LEMMA Division ==
  ASSUME NEW x \in Nat, NEW d \in Nat \ {0}
  PROVE  x \div d \in Nat /\ (x \div d) * d <= x /\ x < (x \div d) * d + d
OBVIOUS

(* The products of parts and their length that the arithmetic below needs. *)
LEMMA Times ==
  ASSUME NEW p \in Nat, NEW q \in Nat, NEW d \in Nat \ {0}
  PROVE  /\ p * d \in Nat /\ (p + 1) * d = p * d + d /\ (p + q) * d = p * d + q * d
         /\ (p - 1) * d = p * d - d
         /\ p <= q => p * d <= q * d
OBVIOUS

(* #partitionedUpload() takes no more than there is, and than fits.        *)
LEMMA TakenFits ==
  ASSUME head \in 0 .. Length - 1, tail \in head .. head + Length, NEW n \in Nat
  PROVE  Taken(n) \in 0 .. n /\ tail + Taken(n) <= head + Length
<1>. DEFINE toEnd == IF tail - head < Length /\ tail < Length THEN Min({Length - tail, n}) ELSE 0
            behind == tail + toEnd
            third == Min({Length - behind + head, 2 * Length - behind, n - toEnd})
            toHead == IF n > toEnd /\ behind - head < Length THEN third ELSE 0
<1>1. Length \in Nat \ {0}
  BY LengthType
<1>2. toEnd \in 0 .. n /\ (toEnd # 0 => toEnd <= Length - tail)
  <2>1. CASE tail - head < Length /\ tail < Length
    <3>1. Length - tail \in Nat
      BY <1>1, <2>1
    <3>2. Min({Length - tail, n}) = IF Length - tail <= n THEN Length - tail ELSE n
      BY <3>1, MinTwo
    <3>. QED
      BY <2>1, <3>1, <3>2
  <2>. QED
    BY <2>1
<1>3. behind \in Nat /\ behind <= head + Length /\ behind <= 2 * Length
  BY <1>1, <1>2
<1>4. toHead \in 0 .. n - toEnd /\ behind + toHead <= head + Length
  <2>1. CASE n > toEnd /\ behind - head < Length
    <3>1. Length - behind + head \in Nat /\ 2 * Length - behind \in Nat /\ n - toEnd \in Nat
      BY <1>1, <1>2, <1>3, <2>1
    <3>2. /\ third \in {Length - behind + head, 2 * Length - behind, n - toEnd}
          /\ third <= Length - behind + head /\ third <= n - toEnd
      BY <3>1, MinThree
    <3>. HIDE DEF third, behind, toEnd
    <3>3. third \in Nat
      BY <3>1, <3>2
    <3>. QED
      BY <1>1, <1>2, <1>3, <2>1, <3>1, <3>2, <3>3
  <2>2. CASE ~(n > toEnd /\ behind - head < Length)
    BY <1>2, <1>3, <2>2
  <2>. QED
    BY <2>1, <2>2
<1>5. Taken(n) = toEnd + toHead
  BY DEF Taken
<1>. HIDE DEF toEnd, toHead
<1>. QED
  BY <1>1, <1>2, <1>4, <1>5

(* chunk.copy() writes what it is given, where it is told to, and nothing  *)
(* else.                                                                   *)
LEMMA CopiedIs ==
  ASSUME NEW i \in 0 .. 2 * Length - 1, NEW n \in 0 .. Length, i + n <= 2 * Length, NEW b \in Nat
  PROVE  /\ DOMAIN Copied(i, b, n) = 0 .. Length - 1
         /\ \A k \in 0 .. n - 1 : Copied(i, b, n)[(i + k) % Length] = b + k
         /\ \A j \in 0 .. Length - 1 : (\A k \in 0 .. n - 1 : j # (i + k) % Length)
                                        => Copied(i, b, n)[j] = buffer[j]
<1>1. Length \in Nat \ {0}
  BY LengthType
<1>2. \A k \in 0 .. n - 1 : (i + k) % Length = IF i + k < Length THEN i + k ELSE i + k - Length
  <2>. TAKE k \in 0 .. n - 1
  <2>1. i \in Nat /\ k \in Nat /\ i + k < 2 * Length
    BY <1>1
  <2>. QED
    BY <2>1, RoundOf
<1>3. \A k, m \in 0 .. n - 1 : (i + k) % Length = (i + m) % Length => k = m
  BY <1>1, <1>2
<1>4. ASSUME NEW k \in 0 .. n - 1 PROVE Copied(i, b, n)[(i + k) % Length] = b + k
  <2>. DEFINE j == (i + k) % Length
  <2>1. j \in 0 .. Length - 1
    BY <1>1, <1>2
  <2>2. \E m \in 0 .. n - 1 : j = (i + m) % Length
    OBVIOUS
  <2>3. (CHOOSE m \in 0 .. n - 1 : j = (i + m) % Length) = k
    BY <1>3, <2>2
  <2>. QED
    BY <2>1, <2>2, <2>3 DEF Copied
<1>. QED
  BY <1>4 DEF Copied

(* What is copied behind the tail continues what is buffered.              *)
LEMMA CopyKeeps ==
  ASSUME TypeOK, NEW many \in Nat, tail + many <= head + Length,
         Read + (tail - head) + many <= FileLimit,
         \A k \in 0 .. tail - head - 1 : buffer[(head + k) % Length] = Read + k + 1,
         NEW first, first = Read + (tail - head) + 1
  PROVE  /\ Copied(tail, first, many) \in [0 .. Length - 1 -> Byte]
         /\ \A k \in 0 .. tail + many - head - 1 :
              Copied(tail, first, many)[(head + k) % Length] = Read + k + 1
<1>. DEFINE new == Copied(tail, first, many)
<1>1. /\ Length \in Nat \ {0} /\ PartLimit \in Nat \ {0} /\ FileLimit \in Nat \ {0}
  BY LengthType
<1>2. head \in 0 .. Length - 1 /\ tail \in head .. head + Length /\ stored \in Seq(Seq(Byte))
      /\ buffer \in [0 .. Length - 1 -> Byte]
  BY DEF TypeOK
<1>3. many \in Nat /\ tail + many <= head + Length /\ Read + (tail - head) + many <= FileLimit
  OBVIOUS
<1>4. Read \in Nat
  BY <1>1, <1>2, Times DEF Read
<1>5. first \in Nat /\ first = Read + (tail - head) + 1
  BY <1>2, <1>4
<1>. HIDE DEF new
<1>9. /\ DOMAIN new = 0 .. Length - 1
      /\ \A k \in 0 .. many - 1 : new[(tail + k) % Length] = first + k
      /\ \A j \in 0 .. Length - 1 : (\A k \in 0 .. many - 1 : j # (tail + k) % Length)
                                     => new[j] = buffer[j]
  <2>1. tail \in 0 .. 2 * Length - 1 /\ many \in 0 .. Length /\ tail + many <= 2 * Length
    BY <1>1, <1>2, <1>3
  <2>. QED
    BY <1>5, <2>1, CopiedIs DEF new
<1>10. \A k \in 0 .. Length - 1 : (head + k) % Length = IF head + k < Length THEN head + k ELSE head + k - Length
  <2>. TAKE k \in 0 .. Length - 1
  <2>1. head \in Nat /\ k \in Nat /\ head + k < 2 * Length
    BY <1>1, <1>2
  <2>. QED
    BY <2>1, RoundOf
<1>11. ASSUME NEW k \in 0 .. tail + many - head - 1
       PROVE  new[(head + k) % Length] = Read + k + 1
  <2>1. k \in 0 .. Length - 1
    BY <1>1, <1>2, <1>3
  <2>2. CASE k >= tail - head
    <3>1. k - (tail - head) \in 0 .. many - 1 /\ head + k = tail + (k - (tail - head))
      BY <1>2, <1>3, <2>2
    <3>2. new[(tail + (k - (tail - head))) % Length] = first + (k - (tail - head))
      BY <1>9, <3>1
    <3>. QED
      BY <1>2, <1>4, <1>5, <3>1, <3>2
  <2>3. CASE k < tail - head
    <3>1. (head + k) % Length \in 0 .. Length - 1
      BY <1>1, <1>2, <1>10, <2>1
    <3>2. ASSUME NEW m \in 0 .. many - 1 PROVE (head + k) % Length # (tail + m) % Length
      <4>1. tail \in Nat /\ m \in Nat /\ tail + m < head + Length /\ tail + m < 2 * Length
        BY <1>1, <1>2, <1>3
      <4>. DEFINE x == (tail + m) % Length
                  y == (head + k) % Length
      <4>2. x = IF tail + m < Length THEN tail + m ELSE tail + m - Length
        BY <4>1, RoundOf
      <4>3. y = IF head + k < Length THEN head + k ELSE head + k - Length
        BY <1>10, <2>1
      <4>. HIDE DEF x, y
      <4>4. y # x
        BY <1>1, <1>2, <2>1, <2>3, <4>1, <4>2, <4>3
      <4>. QED
        BY <4>4 DEF x, y
    <3>3. new[(head + k) % Length] = buffer[(head + k) % Length]
      BY <1>9, <3>1, <3>2
    <3>4. k \in 0 .. tail - head - 1
      BY <1>2, <2>3
    <3>. QED
      BY <3>3, <3>4
  <2>. QED
    BY <1>2, <2>1, <2>2, <2>3
<1>12. new \in [0 .. Length - 1 -> Byte]
  <2>1. ASSUME NEW j \in 0 .. Length - 1 PROVE new[j] \in Byte
    <3>1. CASE \E k \in 0 .. many - 1 : j = (tail + k) % Length
      <4>1. PICK k \in 0 .. many - 1 : j = (tail + k) % Length
        BY <3>1
      <4>2. new[j] = first + k
        BY <1>9, <4>1
      <4>3. first + k \in 0 .. FileLimit
        BY <1>1, <1>2, <1>3, <1>4, <1>5
      <4>. QED
        BY <1>1, <4>2, <4>3 DEF Byte
    <3>2. CASE \A k \in 0 .. many - 1 : j # (tail + k) % Length
      BY <1>2, <1>9, <3>2
    <3>. QED
      BY <3>1, <3>2
  <2>2. new = [j \in 0 .. Length - 1 |-> new[j]]
    BY DEF new, Copied
  <2>. QED
    BY <2>1, <2>2
<1>. QED
  BY <1>11, <1>12 DEF new

(* What is buffered follows what was, and full partitions are cut off it.  *)
LEMMA BuffersKeeps ==
  ASSUME TypeOK, queue = <<>>, upload = head,
         NEW n \in 0 .. MaxChunk, NEW newSize \in 0 .. FileLimit,
         newSize = Read + (tail - head) + n,
         \A k \in 0 .. tail - head - 1 : buffer[(head + k) % Length] = Read + k + 1,
         Buffers(n, newSize), stored' = stored
  PROVE  /\ buffer' \in [0 .. Length - 1 -> Byte] /\ head' = head
         /\ tail' \in head .. head + Length /\ upload' \in head .. tail'
         /\ rest' \in 0 .. MaxChunk /\ queue' \in Seq(Part)
         /\ newSize = Read' + (tail' - head') + rest'
         /\ \A k \in 0 .. tail' - head' - 1 : buffer'[(head' + k) % Length] = Read' + k + 1
         /\ upload' = head' + Len(queue') * PartLimit
         /\ tail' - upload' < PartLimit
         /\ QueueInv'
<1>. DEFINE taken == Taken(n)
            full == (tail + taken - upload) \div PartLimit
            first == newSize - n + 1
<1>1. /\ Length \in Nat \ {0} /\ PartLimit \in Nat \ {0} /\ PartLimit <= Length
      /\ FileLimit \in Nat \ {0} /\ MaxChunk \in Nat \ {0}
  BY LengthType
<1>2. head \in 0 .. Length - 1 /\ tail \in head .. head + Length /\ stored \in Seq(Seq(Byte))
      /\ buffer \in [0 .. Length - 1 -> Byte]
  BY DEF TypeOK
<1>3. taken \in 0 .. n /\ tail + taken <= head + Length
  BY <1>2, TakenFits
<1>4. Read \in Nat /\ Read' = Read
  BY <1>1, <1>2, Times DEF Read
<1>5. first \in Nat /\ first = Read + (tail - head) + 1
  BY <1>2, <1>4
<1>6. /\ buffer' = Copied(tail, first, taken) /\ tail' = tail + taken /\ rest' = n - taken
      /\ upload' = upload + full * PartLimit /\ head' = head
      /\ queue' = queue \o [p \in 1 .. full |->
           LET from == upload + (p - 1) * PartLimit
           IN [from |-> from, length |-> PartLimit, sum |-> Slice(from, PartLimit)]]
  BY DEF Buffers
<1>. HIDE DEF taken, first
<1>7. full \in Nat /\ full * PartLimit <= tail + taken - head /\ tail + taken - head < full * PartLimit + PartLimit
  <2>1. tail + taken - upload \in Nat
    BY <1>2, <1>3
  <2>. QED
    BY <1>1, <2>1, Division
<1>. HIDE DEF full
<1>8. full * PartLimit \in Nat
  BY <1>1, <1>7
<1>9. /\ buffer' \in [0 .. Length - 1 -> Byte]
      /\ \A k \in 0 .. tail + taken - head - 1 : buffer'[(head + k) % Length] = Read + k + 1
  <2>1. taken \in Nat /\ Read + (tail - head) + taken <= FileLimit
    BY <1>1, <1>2, <1>3, <1>4
  <2>. QED
    BY <1>3, <1>5, <1>6, <2>1, CopyKeeps
<1>11. ASSUME NEW k \in 0 .. tail + taken - head - 1
       PROVE  buffer'[(head + k) % Length] = Read + k + 1
  BY <1>9
<1>12. buffer' \in [0 .. Length - 1 -> Byte]
  BY <1>9
<1>13. /\ queue' = [p \in 1 .. full |-> [from |-> head + (p - 1) * PartLimit, length |-> PartLimit,
                                        sum |-> Slice(head + (p - 1) * PartLimit, PartLimit)]]
       /\ Len(queue') = full
  <2>. DEFINE cut == [p \in 1 .. full |-> [from |-> head + (p - 1) * PartLimit, length |-> PartLimit,
                                        sum |-> Slice(head + (p - 1) * PartLimit, PartLimit)]]
  <2>1. queue' = <<>> \o cut
    BY <1>6
  <2>2. cut = [p \in 1 .. full |-> cut[p]]
    OBVIOUS
  <2>. HIDE DEF cut
  <2>3. <<>> \o cut = cut /\ Len(cut) = full
    <3>. DEFINE S == {cut[p] : p \in 1 .. full}
    <3>1. cut \in Seq(S) /\ Len(cut) = full
      BY <1>7, <2>2
    <3>. HIDE DEF S
    <3>. QED
      BY <3>1
  <2>. QED
    BY <2>1, <2>2, <2>3 DEF cut
<1>14. ASSUME NEW p \in 1 .. full
       PROVE  /\ (p - 1) * PartLimit \in Nat
              /\ (p - 1) * PartLimit + PartLimit <= tail + taken - head
              /\ Slice(head + (p - 1) * PartLimit, PartLimit)
                   = [k \in 1 .. PartLimit |-> Read + (p - 1) * PartLimit + k]
  <2>1. (p - 1) * PartLimit \in Nat /\ (p - 1) * PartLimit + PartLimit = p * PartLimit
        /\ p * PartLimit <= full * PartLimit
    <3>1. p - 1 \in Nat /\ p \in Nat /\ p <= full
      BY <1>7
    <3>2. (p - 1) * PartLimit \in Nat /\ p * PartLimit <= full * PartLimit
      BY <1>1, <1>7, <3>1, Times
    <3>3. (p - 1) * PartLimit = p * PartLimit - PartLimit /\ p * PartLimit \in Nat
      BY <1>1, <3>1, Times
    <3>. QED
      BY <1>1, <3>2, <3>3
  <2>. DEFINE off == (p - 1) * PartLimit
  <2>2. off \in Nat /\ off + PartLimit <= tail + taken - head
    <3>. DEFINE end == p * PartLimit
                all == full * PartLimit
    <3>1. off \in Nat /\ off + PartLimit = end /\ end <= all /\ all <= tail + taken - head /\ all \in Nat
      BY <1>7, <1>8, <2>1
    <3>. HIDE DEF off, end, all
    <3>. QED
      BY <1>1, <1>2, <1>3, <3>1
  <2>. HIDE DEF off
  <2>3. ASSUME NEW k \in 1 .. PartLimit
        PROVE  buffer'[(head + off + k - 1) % Length] = Read + off + k
    <3>1. off + k - 1 \in 0 .. tail + taken - head - 1
      BY <1>1, <1>2, <1>3, <2>2
    <3>2. buffer'[(head + (off + k - 1)) % Length] = Read + (off + k - 1) + 1
      BY <1>11, <3>1
    <3>3. head + (off + k - 1) = head + off + k - 1 /\ Read + (off + k - 1) + 1 = Read + off + k
      BY <1>2, <1>4, <2>2
    <3>. QED
      BY <3>2, <3>3
  <2>4. Slice(head + off, PartLimit) = [k \in 1 .. PartLimit |-> Read + off + k]
    BY <2>3 DEF Slice
  <2>. QED
    BY <2>2, <2>4 DEF off
<1>15. queue' \in Seq(Part)
  <2>1. ASSUME NEW p \in 1 .. full
        PROVE  [from |-> head + (p - 1) * PartLimit, length |-> PartLimit,
                sum |-> Slice(head + (p - 1) * PartLimit, PartLimit)] \in Part
    <3>1. head + (p - 1) * PartLimit \in 0 .. 2 * Length
      <4>. DEFINE off == (p - 1) * PartLimit
      <4>1. off \in Nat /\ off + PartLimit <= tail + taken - head
        BY <1>14
      <4>. HIDE DEF off
      <4>2. head + off \in 0 .. 2 * Length
        BY <1>1, <1>2, <1>3, <4>1
      <4>. QED
        BY <4>2 DEF off
    <3>2. [k \in 1 .. PartLimit |-> Read + (p - 1) * PartLimit + k] \in Seq(Byte)
      <4>. DEFINE off == (p - 1) * PartLimit
      <4>1. off \in Nat /\ off + PartLimit <= tail + taken - head
        BY <1>14
      <4>. HIDE DEF off
      <4>2. \A k \in 1 .. PartLimit : Read + off + k \in Byte
        BY <1>1, <1>2, <1>3, <1>4, <4>1 DEF Byte
      <4>3. [k \in 1 .. PartLimit |-> Read + off + k] \in Seq(Byte)
        BY <1>1, <4>2
      <4>. QED
        BY <4>3 DEF off
    <3>. QED
      BY <1>1, <1>14, <3>1, <3>2 DEF Part
  <2>. QED
    BY <1>7, <1>13, <2>1
<1>16. QueueInv'
  <2>1. \A p \in 1 .. Len(queue') :
          /\ queue'[p].length = PartLimit
          /\ queue'[p].sum = [k \in 1 .. PartLimit |-> Read' + (p - 1) * PartLimit + k]
          /\ queue'[p].from = head' + (p - 1) * PartLimit
    <3>. SUFFICES ASSUME NEW p \in 1 .. full
                  PROVE  /\ queue'[p].length = PartLimit
                         /\ queue'[p].sum = [k \in 1 .. PartLimit |-> Read' + (p - 1) * PartLimit + k]
                         /\ queue'[p].from = head' + (p - 1) * PartLimit
      BY <1>13
    <3>1. queue'[p] = [from |-> head + (p - 1) * PartLimit, length |-> PartLimit,
                       sum |-> Slice(head + (p - 1) * PartLimit, PartLimit)]
      BY <1>13
    <3>2. Slice(head + (p - 1) * PartLimit, PartLimit)
            = [k \in 1 .. PartLimit |-> Read + (p - 1) * PartLimit + k]
      BY <1>14
    <3>3. head' = head /\ Read' = Read
      BY <1>4, <1>6
    <3>. QED
      BY <3>1, <3>2, <3>3
  <2>2. 0 \in 0 .. Len(queue')
    BY <1>7, <1>13
  <2>3. \A p \in 1 .. Len(queue') : ~(p <= 0)
    BY <1>7, <1>13
  <2>. QED
    BY <2>1, <2>2, <2>3 DEF QueueInv
<1>17. tail' \in head .. head + Length /\ upload' \in head .. tail' /\ rest' \in 0 .. MaxChunk
  BY <1>1, <1>2, <1>3, <1>6, <1>7, <1>8
<1>18. upload' = head' + Len(queue') * PartLimit /\ tail' - upload' < PartLimit
  BY <1>1, <1>2, <1>3, <1>6, <1>7, <1>8, <1>13
<1>19. newSize = Read' + (tail' - head') + rest'
  BY <1>2, <1>3, <1>4, <1>6
<1>20. \A k \in 0 .. tail' - head' - 1 : buffer'[(head' + k) % Length] = Read' + k + 1
  <2>1. tail' - head' - 1 = tail + taken - head - 1 /\ head' = head /\ Read' = Read
    BY <1>2, <1>3, <1>4, <1>6
  <2>. SUFFICES ASSUME NEW k \in 0 .. tail + taken - head - 1
                PROVE  buffer'[(head' + k) % Length] = Read' + k + 1
    BY <2>1
  <2>. QED
    BY <1>11, <2>1
<1>. QED
  BY <1>6, <1>12, <1>15, <1>16, <1>17, <1>18, <1>19, <1>20

(* The storage reads len bytes from the head on, whichever round the index *)
(* of the partition belongs to.                                            *)
LEMMA ReadsKeeps ==
  ASSUME TypeOK, NEW part, NEW cut \in Nat, NEW len \in Nat \ {0},
         part.length = len, head + len <= cut, cut <= tail,
         part.from = head \/ (part.from = head + Length /\ head + len < Length),
         \A k \in 0 .. tail - head - 1 : buffer[(head + k) % Length] = Read + k + 1,
         Reads(part, cut)
  PROVE  \E back \in {0, Length} :
           /\ head' = head + len - back /\ tail' = tail - back /\ upload' = cut - back
           /\ back = 0 => head + len < Length
           /\ back = Length => head + len >= Length /\ part.from = head
           /\ head' \in 0 .. Length - 1 /\ tail' \in head' .. head' + Length
           /\ buffer' = buffer
           /\ stored' = Append(stored, [k \in 1 .. len |-> Read + k])
           /\ \A k \in 0 .. tail' - head' - 1 : buffer[(head' + k) % Length] = Read + len + k + 1
<1>. DEFINE end  == part.from + part.length
            wraps == part.from < Length /\ end >= Length
            back == IF wraps THEN Length ELSE 0
<1>1. Length \in Nat \ {0}
  BY LengthType
<1>2. head \in 0 .. Length - 1 /\ tail \in head .. head + Length /\ stored \in Seq(Seq(Byte))
      /\ buffer \in [0 .. Length - 1 -> Byte]
  BY DEF TypeOK
<1>3. Read \in Nat
  BY <1>2, LengthType, Times DEF Read
<1>4. /\ head' = IF end < Length THEN end ELSE end - Length
      /\ tail' = tail - back /\ upload' = cut - back /\ buffer' = buffer
      /\ stored' = Append(stored, Slice(part.from, len))
  BY DEF Reads
<1>5. /\ part.from \in {head, head + Length} /\ end = part.from + len
      /\ part.from = head + Length => head + len < Length
  BY <1>1, <1>2
<1>. HIDE DEF end
<1>6. /\ back \in {0, Length} /\ head' = head + len - back
      /\ back = 0 => head + len < Length
      /\ back = Length => head + len >= Length /\ part.from = head
  <2>1. CASE part.from = head /\ head + len < Length
    BY <1>1, <1>2, <1>4, <1>5, <2>1
  <2>2. CASE part.from = head /\ head + len >= Length
    BY <1>1, <1>2, <1>4, <1>5, <2>2
  <2>3. CASE part.from = head + Length
    BY <1>1, <1>2, <1>4, <1>5, <2>3
  <2>. QED
    BY <1>1, <1>2, <1>5, <2>1, <2>2, <2>3
<1>. HIDE DEF back
<1>7. head' \in 0 .. Length - 1 /\ tail' \in head' .. head' + Length
  BY <1>1, <1>2, <1>4, <1>6
<1>8. ASSUME NEW k \in 1 .. len PROVE buffer[(part.from + k - 1) % Length] = Read + k
  <2>1. k - 1 \in 0 .. tail - head - 1 /\ head + (k - 1) < 2 * Length /\ k - 1 \in Nat
    BY <1>1, <1>2
  <2>2. buffer[(head + (k - 1)) % Length] = Read + (k - 1) + 1
    BY <2>1
  <2>3. (part.from + (k - 1)) % Length = (head + (k - 1)) % Length
    <3>1. CASE part.from = head
      BY <3>1
    <3>2. CASE part.from = head + Length
      <4>1. head + (k - 1) < Length /\ part.from + (k - 1) < 2 * Length /\ part.from \in Nat
            /\ head \in Nat
        BY <1>1, <1>2, <1>5, <3>2
      <4>. DEFINE x == (part.from + (k - 1)) % Length
                  y == (head + (k - 1)) % Length
      <4>2. x = IF part.from + (k - 1) < Length THEN part.from + (k - 1) ELSE part.from + (k - 1) - Length
        BY <2>1, <4>1, RoundOf
      <4>3. y = IF head + (k - 1) < Length THEN head + (k - 1) ELSE head + (k - 1) - Length
        BY <2>1, <4>1, RoundOf
      <4>. HIDE DEF x, y
      <4>4. x = y
        BY <1>1, <1>2, <2>1, <3>2, <4>1, <4>2, <4>3
      <4>. QED
        BY <4>4 DEF x, y
    <3>. QED
      BY <1>5, <3>1, <3>2
  <2>4. part.from + (k - 1) = part.from + k - 1 /\ Read + (k - 1) + 1 = Read + k
    BY <1>1, <1>2, <1>3, <1>5
  <2>. QED
    BY <2>2, <2>3, <2>4
<1>9. Slice(part.from, len) = [k \in 1 .. len |-> Read + k]
  BY <1>4, <1>8 DEF Slice
<1>10. ASSUME NEW k \in 0 .. tail' - head' - 1
       PROVE  buffer[(head' + k) % Length] = Read + len + k + 1
  <2>1. len + k \in 0 .. tail - head - 1 /\ len + k \in Nat /\ k \in Nat /\ head' + k < 2 * Length
        /\ head + (len + k) < 2 * Length /\ head \in Nat /\ head' \in Nat
    BY <1>1, <1>2, <1>4, <1>6, <1>7
  <2>2. buffer[(head + (len + k)) % Length] = Read + (len + k) + 1
    BY <2>1
  <2>3. (head' + k) % Length = (head + (len + k)) % Length
    <3>. DEFINE x == (head' + k) % Length
                y == (head + (len + k)) % Length
    <3>1. x = IF head' + k < Length THEN head' + k ELSE head' + k - Length
      BY <2>1, RoundOf
    <3>2. y = IF head + (len + k) < Length THEN head + (len + k) ELSE head + (len + k) - Length
      BY <2>1, RoundOf
    <3>. HIDE DEF x, y
    <3>3. x = y
      BY <1>1, <1>2, <1>4, <1>6, <1>7, <2>1, <3>1, <3>2
    <3>. QED
      BY <3>3 DEF x, y
  <2>4. Read + (len + k) + 1 = Read + len + k + 1
    BY <1>3, <2>1
  <2>. QED
    BY <2>2, <2>3, <2>4
<1>. QED
  BY <1>4, <1>6, <1>7, <1>9, <1>10

-----------------------------------------------------------------------------
(* The steps.                                                              *)

(* The initial states satisfy the invariant.                               *)
LEMMA InitEstablishes == Init => IInv
<1>. SUFFICES ASSUME Init PROVE IInv
  OBVIOUS
<1>1. Length \in Nat \ {0} /\ PartLimit \in Nat \ {0} /\ FileLimit \in Nat \ {0} /\ MaxChunk \in Nat
  BY LengthType
<1>2. Read = 0 /\ 0 * PartLimit = 0
  BY <1>1 DEF Init, Read
<1>3. TypeOK
  BY <1>1 DEF Init, TypeOK, Byte
<1>4. PhaseInv /\ StoredInv
  BY DEF Init, PhaseInv, StoredInv
<1>5. RingInv
  BY <1>1, <1>2 DEF Init, RingInv
<1>6. QueueInv
  BY DEF Init, QueueInv
<1>. QED
  BY <1>3, <1>4, <1>5, <1>6 DEF IInv

(* The storage, or the size of the file, makes the stream fail.            *)
LEMMA FailKeeps ==
  ASSUME IInv, Fails, UNCHANGED <<ring, size, rest, stored, init>>
  PROVE  IInv'
<1>1. busy' = "no" /\ queue' = <<>> /\ stream' = "destroyed"
      /\ aborting' \in {"pending", aborting} /\ UNCHANGED <<buffer, head, tail, upload, size, rest, stored, init>>
  BY DEF Fails, Destroyed, ring
<1>2. ~Storing'
  BY <1>1 DEF Storing
<1>3. TypeOK'
  BY <1>1 DEF IInv, TypeOK
<1>4. PhaseInv' /\ RingInv' /\ StoredInv'
  BY <1>1, <1>2 DEF IInv, PhaseInv, RingInv, StoredInv
<1>5. QueueInv'
  BY <1>1 DEF QueueInv
<1>. QED
  BY <1>3, <1>4, <1>5 DEF IInv

(* beginPartitionedUpload() or the abort settles, or the source breaks off:*)
(* what is buffered, queued and stored stays.                              *)
LEMMA StayKeeps ==
  ASSUME IInv, BeginSettles \/ SourceBreaks \/ AbortSettles
  PROVE  IInv'
<1>1. UNCHANGED <<buffer, head, tail, upload, size, rest, queue, busy, stored>>
  BY DEF BeginSettles, SourceBreaks, AbortSettles, ring
<1>2. /\ (init' = "none" <=> init = "none") /\ init' \in {"none", "pending", "ok", "failed"}
      /\ stream' = stream \/ (stream' = "destroyed" /\ busy \in {"no", "write"})
      /\ aborting' \in {"no", "pending", "done"}
  BY DEF IInv, TypeOK, BeginSettles, SourceBreaks, AbortSettles, Destroyed
<1>3. (Storing' => Storing) /\ Read' = Read
  BY <1>1, <1>2 DEF Storing, Read, SourceBreaks, BeginSettles, AbortSettles
<1>4. TypeOK'
  BY <1>1, <1>2 DEF IInv, TypeOK
<1>5. PhaseInv'
  BY <1>1, <1>2, <1>3 DEF IInv, PhaseInv
<1>6. RingInv' /\ QueueInv'
  BY <1>1, <1>2, <1>3 DEF IInv, RingInv, QueueInv
<1>7. StoredInv'
  BY <1>1, <1>2, <1>3 DEF IInv, StoredInv
<1>. QED
  BY <1>4, <1>5, <1>6, <1>7 DEF IInv

(* _final() begins the last upload.                                        *)
LEMMA FinalKeeps ==
  ASSUME IInv, Final
  PROVE  IInv'
<1>1. /\ UNCHANGED <<buffer, head, tail, upload, size, rest, queue, init, stored, stream, aborting>>
      /\ stream = "open" /\ busy = "no" /\ busy' = IF init = "none" THEN "simple" ELSE "lastPart"
  BY DEF Final, ring
<1>2. Storing /\ Storing' /\ Read' = Read
  BY <1>1 DEF Storing, Read
<1>3. TypeOK'
  BY <1>1 DEF IInv, TypeOK
<1>4. PhaseInv' /\ RingInv' /\ QueueInv' /\ StoredInv'
  BY <1>1, <1>2 DEF IInv, PhaseInv, RingInv, QueueInv, StoredInv
<1>. QED
  BY <1>3, <1>4 DEF IInv

(* A file, or its beginning, that is kept for a simple upload.             *)
LEMMA FirstKeeps ==
  ASSUME IInv, NEW n \in 1 .. MaxChunk, WriteFirst(n)
  PROVE  IInv'
<1>1. /\ Length \in Nat \ {0} /\ PartLimit \in Nat \ {0} /\ SimpleLimit \in Nat \ {0}
      /\ FileLimit \in Nat \ {0} /\ MaxChunk \in Nat \ {0}
      /\ PartLimit <= Length /\ SimpleLimit <= Length
  BY LengthType
<1>2. /\ stream = "open" /\ busy = "no" /\ size + n <= FileLimit
      /\ size + n <= SimpleLimit \/ size + n <= PartLimit
      /\ size' = size + n /\ buffer' = Copied(tail, size + 1, n) /\ tail' = tail + n
      /\ UNCHANGED <<head, upload, rest, queue, busy, init, stored, stream, aborting>>
  BY DEF WriteFirst
<1>3. TypeOK /\ size \in Nat /\ tail \in Nat /\ rest \in Nat /\ head \in Nat
  BY <1>1 DEF IInv, TypeOK
<1>4. init = "none" /\ rest = 0 /\ Storing
  BY <1>1, <1>2, <1>3 DEF IInv, PhaseInv, Storing
<1>5. head = 0 /\ queue = <<>> /\ stored = <<>> /\ Read = 0 /\ upload = 0 /\ tail = size
  <2>1. /\ head = 0 /\ queue = <<>> /\ stored = <<>> /\ upload = head + Len(queue) * PartLimit
        /\ size = Read + (tail - head) + rest
    BY <1>4 DEF IInv, RingInv
  <2>2. Read = 0 /\ Len(queue) * PartLimit = 0
    BY <1>1, <2>1 DEF Read
  <2>. QED
    BY <1>3, <1>4, <2>1, <2>2
<1>6. /\ buffer' \in [0 .. Length - 1 -> Byte]
      /\ \A k \in 0 .. tail + n - head - 1 : buffer'[(head + k) % Length] = Read + k + 1
  <2>1. n \in Nat /\ tail + n <= head + Length /\ Read + (tail - head) + n <= FileLimit
        /\ size + 1 = Read + (tail - head) + 1
    BY <1>1, <1>2, <1>3, <1>5
  <2>2. \A k \in 0 .. tail - head - 1 : buffer[(head + k) % Length] = Read + k + 1
    BY <1>4 DEF IInv, RingInv
  <2>. QED
    BY <1>2, <1>3, <2>1, <2>2, CopyKeeps
<1>7. Storing' /\ Read' = Read
  BY <1>2, <1>4 DEF Storing, Read
<1>8. TypeOK'
  BY <1>1, <1>2, <1>3, <1>5, <1>6 DEF IInv, TypeOK
<1>9. PhaseInv'
  BY <1>2, <1>4, <1>7 DEF IInv, PhaseInv
<1>10. RingInv'
  <2>1. Len(queue) * PartLimit = 0
    BY <1>1, <1>5
  <2>. QED
    BY <1>2, <1>3, <1>4, <1>5, <1>6, <1>7, <2>1 DEF RingInv
<1>11. QueueInv' /\ StoredInv'
  BY <1>2, <1>5 DEF IInv, QueueInv, StoredInv
<1>. QED
  BY <1>8, <1>9, <1>10, <1>11 DEF IInv

(* A chunk of a larger file, or what is left of it, is buffered.           *)
LEMMA MoreKeeps ==
  ASSUME IInv, Storing, stream = "open" \/ size' = size, busy \in {"no", "write"}, queue = <<>>,
         NEW n \in 1 .. MaxChunk, size' = Read + (tail - head) + n, size' \in size .. FileLimit,
         size' > SimpleLimit, size' > PartLimit,
         init' # "none", init' \in {init, "pending"},
         Buffers(n, size'), busy' = "write", UNCHANGED <<stored, stream, aborting>>
  PROVE  IInv'
<1>1. /\ Length \in Nat \ {0} /\ PartLimit \in Nat \ {0} /\ SimpleLimit \in Nat \ {0}
      /\ FileLimit \in Nat \ {0} /\ MaxChunk \in Nat \ {0}
  BY LengthType
<1>2. TypeOK /\ size \in Nat /\ size' \in 0 .. FileLimit /\ head \in Nat
  BY <1>1 DEF IInv, TypeOK
<1>3. /\ upload = head
      /\ \A k \in 0 .. tail - head - 1 : buffer[(head + k) % Length] = Read + k + 1
  <2>1. upload = head + Len(queue) * PartLimit /\ Len(queue) * PartLimit = 0
    BY <1>1 DEF IInv, RingInv
  <2>. QED
    BY <1>2, <2>1 DEF IInv, RingInv
<1>4. /\ buffer' \in [0 .. Length - 1 -> Byte] /\ head' = head
      /\ tail' \in head .. head + Length /\ upload' \in head .. tail'
      /\ rest' \in 0 .. MaxChunk /\ queue' \in Seq(Part)
      /\ size' = Read' + (tail' - head') + rest'
      /\ \A k \in 0 .. tail' - head' - 1 : buffer'[(head' + k) % Length] = Read' + k + 1
      /\ upload' = head' + Len(queue') * PartLimit
      /\ tail' - upload' < PartLimit
      /\ QueueInv'
  <2>1. n \in 0 .. MaxChunk
    OBVIOUS
  <2>. QED
    BY <1>2, <1>3, <2>1, BuffersKeeps
<1>5. Storing' /\ Storing /\ Read' = Read
  BY DEF Storing, Read
<1>6. TypeOK'
  BY <1>1, <1>2, <1>4 DEF IInv, TypeOK
<1>7. PhaseInv'
  BY <1>5 DEF IInv, PhaseInv, Storing
<1>8. RingInv'
  BY <1>4, <1>5 DEF RingInv
<1>9. StoredInv'
  BY <1>5 DEF IInv, StoredInv, PhaseInv
<1>. QED
  BY <1>4, <1>6, <1>7, <1>8, <1>9 DEF IInv

(* write() takes what fits into the ring, and waits for the rest.          *)
LEMMA WriteMoreKeeps ==
  ASSUME IInv, NEW n \in 1 .. MaxChunk, WriteMore(n)
  PROVE  IInv'
<1>1. /\ stream = "open" /\ busy = "no" /\ size + n <= FileLimit
      /\ size + n > SimpleLimit /\ size + n > PartLimit
      /\ size' = size + n /\ init' = IF init = "none" THEN "pending" ELSE init
      /\ Buffers(n, size + n) /\ busy' = "write" /\ UNCHANGED <<stored, stream, aborting>>
  BY DEF WriteMore
<1>2. Storing /\ queue = <<>> /\ rest = 0
  BY <1>1 DEF IInv, PhaseInv, Storing
<1>3. size \in Nat /\ head \in Nat /\ tail \in Nat /\ FileLimit \in Nat /\ MaxChunk \in Nat /\ Read \in Nat
      /\ size \in 0 .. FileLimit
  BY LengthType, Times DEF IInv, TypeOK, Read
<1>4. size = Read + (tail - head)
  BY <1>2, <1>3 DEF IInv, RingInv
<1>5. size' = Read + (tail - head) + n /\ size' \in size .. FileLimit /\ Buffers(n, size')
  BY <1>1, <1>3, <1>4
<1>. QED
  BY <1>1, <1>2, <1>5, MoreKeeps

(* The continuation of a write keeps the invariant.                        *)
LEMMA ContinueKeeps ==
  ASSUME IInv, Continue
  PROVE  IInv'
<1>1. /\ busy = "write" /\ queue = <<>> /\ UNCHANGED <<size, init, stored, stream, aborting>>
      /\ Storing /\ Read' = Read
  BY DEF Continue, Storing, Read
<1>2. CASE rest = 0
  <2>1. busy' = "no" /\ UNCHANGED <<buffer, head, tail, upload, rest, queue>>
    BY <1>2 DEF Continue, ring
  <2>2. TypeOK'
    BY <1>1, <2>1 DEF IInv, TypeOK
  <2>3. PhaseInv'
    BY <1>1, <1>2, <2>1 DEF IInv, PhaseInv
  <2>4. RingInv' /\ QueueInv' /\ StoredInv'
    BY <1>1, <2>1 DEF IInv, RingInv, QueueInv, StoredInv
  <2>. QED
    BY <2>2, <2>3, <2>4 DEF IInv
<1>3. CASE rest # 0
  <2>1. rest \in 1 .. MaxChunk /\ size \in 0 .. FileLimit /\ head \in Nat /\ tail \in Nat
    BY <1>3, LengthType DEF IInv, TypeOK
  <2>2. Buffers(rest, size') /\ busy' = "write"
    BY <1>1, <1>3 DEF Continue
  <2>3. size' = Read + (tail - head) + rest /\ size' \in size .. FileLimit
    BY <1>1, <2>1, LengthType DEF IInv, RingInv
  <2>4. init' # "none" /\ init' \in {init, "pending"} /\ size' > SimpleLimit /\ size' > PartLimit
    BY <1>1 DEF IInv, PhaseInv
  <2>. QED
    BY <1>1, <2>1, <2>2, <2>3, <2>4, MoreKeeps
<1>. QED
  BY <1>2, <1>3

(* Something is appended to what is stored.                                *)
LEMMA StoredGrows ==
  ASSUME TypeOK, StoredInv, Storing, NEW len \in Nat, Read + len <= FileLimit,
         stored' = Append(stored, [k \in 1 .. len |-> Read + k]),
         stream' \in {stream, "finished"} /\ size' = size,
         Storing' => len = PartLimit,
         busy' = "finish" \/ stream' = "finished" => size = Read + len
  PROVE  StoredInv' /\ stored' \in Seq(Seq(Byte))
<1>1. /\ PartLimit \in Nat \ {0} /\ FileLimit \in Nat \ {0} /\ stored \in Seq(Seq(Byte)) /\ Read \in Nat
  BY LengthType, Times DEF TypeOK, Read
<1>2. [k \in 1 .. len |-> Read + k] \in Seq(Byte)
  <2>1. \A k \in 1 .. len : Read + k \in Byte
    BY <1>1 DEF Byte
  <2>. QED
    BY <2>1
<1>3. stored' \in Seq(Seq(Byte)) /\ Len(stored') = Len(stored) + 1
      /\ Len([k \in 1 .. len |-> Read + k]) = len
  BY <1>1, <1>2
<1>4. stored'[Len(stored')] = [k \in 1 .. len |-> Read + k] /\ Len(stored'[Len(stored')]) = len
  BY <1>1, <1>2, <1>3
<1>5. ASSUME NEW p \in 1 .. Len(stored')
      PROVE  /\ stored'[p] = [k \in 1 .. Len(stored'[p]) |-> (p - 1) * PartLimit + k]
             /\ p < Len(stored') \/ Storing' => Len(stored'[p]) = PartLimit
  <2>1. CASE p = Len(stored')
    <3>1. (p - 1) * PartLimit = Read
      BY <1>1, <1>3, <2>1 DEF Read
    <3>2. \A k \in 1 .. len : Read + k = (p - 1) * PartLimit + k
      BY <3>1
    <3>3. [k \in 1 .. len |-> Read + k] = [k \in 1 .. len |-> (p - 1) * PartLimit + k]
      BY <3>2
    <3>4. Len(stored'[p]) = len /\ stored'[p] = [k \in 1 .. len |-> Read + k] /\ ~(p < Len(stored'))
      BY <1>1, <1>3, <1>4, <2>1
    <3>. QED
      BY <3>3, <3>4
  <2>2. CASE p # Len(stored')
    <3>1. p \in 1 .. Len(stored) /\ stored'[p] = stored[p]
      BY <1>1, <1>2, <1>3, <2>2
    <3>. QED
      BY <3>1 DEF StoredInv
  <2>. QED
    BY <2>1, <2>2
<1>6. (Len(stored') - 1) * PartLimit = Read /\ stored' # <<>>
  BY <1>1, <1>3 DEF Read
<1>. QED
  BY <1>3, <1>4, <1>5, <1>6 DEF StoredInv

(* The first partition of the queue is stored.                             *)
LEMMA PartKeeps ==
  ASSUME IInv, PartUploads
  PROVE  IInv'
<1>. DEFINE N == Len(queue)
            P == PartLimit
<1>1. /\ Length \in Nat \ {0} /\ P \in Nat \ {0} /\ FileLimit \in Nat \ {0} /\ P <= Length
  BY LengthType
<1>2. /\ queue # <<>> /\ init = "ok" /\ Reads(Head(queue), upload) /\ queue' = Tail(queue)
      /\ UNCHANGED <<size, rest, busy, init, stream, aborting>>
  BY DEF PartUploads
<1>3. /\ TypeOK /\ head \in 0 .. Length - 1 /\ tail \in head .. head + Length /\ upload \in head .. tail
      /\ size \in 0 .. FileLimit /\ rest \in Nat /\ queue \in Seq(Part) /\ N \in Nat \ {0}
      /\ stored \in Seq(Seq(Byte)) /\ Read \in Nat
  BY <1>1, <1>2, Times, LengthType DEF IInv, TypeOK, Read
<1>4. busy = "write" /\ Storing
  BY <1>2 DEF IInv, PhaseInv, Storing
<1>5. /\ size = Read + (tail - head) + rest
      /\ \A k \in 0 .. tail - head - 1 : buffer[(head + k) % Length] = Read + k + 1
      /\ upload = head + N * P /\ tail - upload < P
  BY <1>2, <1>4 DEF IInv, RingInv
<1>6. PICK n \in 0 .. N :
        \A p \in 1 .. N : IF p <= n THEN /\ queue[p].from = head + (p - 1) * P + Length
                                         /\ head + p * P < Length
                           ELSE queue[p].from = head + (p - 1) * P
  BY DEF IInv, QueueInv
<1>7. /\ Head(queue).length = P /\ (N - 1) * P \in Nat /\ N * P = (N - 1) * P + P
      /\ Head(queue).from = head \/ (Head(queue).from = head + Length /\ head + P < Length /\ n > 0)
      /\ head + P >= Length => n = 0
  <2>1. Head(queue) = queue[1] /\ 1 \in 1 .. N
    BY <1>3
  <2>2. (1 - 1) * P = 0 /\ 1 * P = P
    BY <1>1
  <2>3. queue[1].length = P
    BY <2>1 DEF IInv, QueueInv
  <2>6. (N - 1) * P \in Nat /\ N * P = (N - 1) * P + P
    <3>1. N - 1 \in Nat /\ (N - 1) + 1 = N
      BY <1>3
    <3>. QED
      BY <1>1, <3>1, Times
  <2>4. CASE n > 0
    <3>1. 1 <= n
      BY <2>4
    <3>2. queue[1].from = head + (1 - 1) * P + Length /\ head + 1 * P < Length
      BY <1>6, <2>1, <3>1
    <3>. QED
      BY <1>1, <1>3, <2>1, <2>2, <2>3, <2>4, <2>6, <3>2
  <2>5. CASE n = 0
    <3>1. queue[1].from = head + (1 - 1) * P
      BY <1>3, <1>6, <2>1, <2>5
    <3>2. queue[1].from = head
      BY <1>3, <2>2, <3>1
    <3>. QED
      BY <2>1, <2>3, <2>5, <2>6, <3>2
  <2>. QED
    BY <1>6, <2>4, <2>5
<1>8. head + P <= upload /\ upload <= tail /\ upload \in Nat
  BY <1>1, <1>3, <1>5, <1>7
<1>9. PICK back \in {0, Length} :
        /\ head' = head + P - back /\ tail' = tail - back /\ upload' = upload - back
        /\ back = 0 => head + P < Length
        /\ back = Length => head + P >= Length /\ Head(queue).from = head
        /\ head' \in 0 .. Length - 1 /\ tail' \in head' .. head' + Length
        /\ buffer' = buffer
        /\ stored' = Append(stored, [k \in 1 .. P |-> Read + k])
        /\ \A k \in 0 .. tail' - head' - 1 : buffer[(head' + k) % Length] = Read + P + k + 1
  <2>1. /\ TypeOK /\ upload \in Nat /\ P \in Nat \ {0} /\ Head(queue).length = P
        /\ head + P <= upload /\ upload <= tail
        /\ Head(queue).from = head \/ (Head(queue).from = head + Length /\ head + P < Length)
    BY <1>1, <1>3, <1>7, <1>8
  <2>2. Reads(Head(queue), upload)
    BY <1>2
  <2>3. \A k \in 0 .. tail - head - 1 : buffer[(head + k) % Length] = Read + k + 1
    BY <1>5
  <2>. HIDE DEF P
  <2>. QED
    BY <2>1, <2>2, <2>3, ReadsKeeps
<1>10. Storing'
  BY <1>2, <1>4 DEF Storing
<1>11. StoredInv' /\ stored' \in Seq(Seq(Byte))
  <2>1. Read + P <= FileLimit
    BY <1>1, <1>3, <1>5, <1>8
  <2>. QED
    BY <1>1, <1>2, <1>3, <1>4, <1>9, <2>1, StoredGrows DEF IInv, PhaseInv
<1>12. Read' = Read + P
  <2>1. Len(stored') = Len(stored) + 1
    BY <1>3, <1>9, <1>11
  <2>. QED
    BY <1>1, <1>3, <2>1, Times DEF Read
<1>13. /\ queue' \in Seq(Part) /\ Len(queue') = N - 1
       /\ \A p \in 1 .. N - 1 : queue'[p] = queue[p + 1]
  BY <1>2, <1>3
<1>14. TypeOK'
  <2>1. upload' \in head' .. tail'
    BY <1>1, <1>3, <1>8, <1>9
  <2>. QED
    BY <1>2, <1>9, <1>11, <1>13, <2>1 DEF IInv, TypeOK
<1>15. PhaseInv'
  BY <1>2, <1>4 DEF IInv, PhaseInv
<1>16. RingInv'
  <2>1. size' = Read' + (tail' - head') + rest'
    BY <1>1, <1>2, <1>3, <1>5, <1>9, <1>12
  <2>2. upload' = head' + Len(queue') * P /\ tail' - upload' < P
    <3>. DEFINE all == N * P
                rem == (N - 1) * P
    <3>1. all = rem + P /\ rem \in Nat /\ upload = head + all /\ Len(queue') = N - 1
      BY <1>5, <1>7, <1>13
    <3>2. head' = head + P - back /\ tail' = tail - back /\ upload' = upload - back
      BY <1>9
    <3>. HIDE DEF all, rem
    <3>3. upload' = head' + rem /\ tail' - upload' < P
      BY <1>1, <1>3, <1>5, <1>8, <3>1, <3>2
    <3>. QED
      BY <3>1, <3>3 DEF rem
  <2>3. \A k \in 0 .. tail' - head' - 1 : buffer'[(head' + k) % Length] = Read' + k + 1
    BY <1>9, <1>12
  <2>. QED
    BY <1>2, <2>1, <2>2, <2>3 DEF RingInv
<1>17. QueueInv'
  <2>1. ASSUME NEW p \in 1 .. N - 1
        PROVE  /\ p + 1 \in 1 .. N /\ p * P = (p - 1) * P + P /\ (p - 1) * P \in Nat
               /\ (p + 1) * P = p * P + P /\ ((p + 1) - 1) * P = p * P /\ (p + 1) * P <= N * P
               /\ p * P \in Nat /\ N * P \in Nat
    BY <1>1, <1>3, Times
  <2>2. ASSUME NEW p \in 1 .. N - 1
        PROVE  /\ queue'[p].length = P
               /\ queue'[p].sum = [k \in 1 .. P |-> Read' + (p - 1) * P + k]
    <3>1. queue'[p] = queue[p + 1] /\ p + 1 \in 1 .. N
      BY <1>13, <2>1
    <3>2. /\ queue[p + 1].length = P
          /\ queue[p + 1].sum = [k \in 1 .. P |-> Read + ((p + 1) - 1) * P + k]
      BY <3>1 DEF IInv, QueueInv
    <3>3. \A k \in 1 .. P : Read + ((p + 1) - 1) * P + k = Read' + (p - 1) * P + k
      BY <1>1, <1>3, <1>12, <2>1
    <3>. QED
      BY <3>1, <3>2, <3>3
  <2>. DEFINE m == IF back = Length THEN N - 1 ELSE IF n > 0 THEN n - 1 ELSE 0
  <2>3. m \in 0 .. N - 1
    BY <1>3, <1>6
  <2>4. ASSUME NEW p \in 1 .. N - 1
        PROVE  IF p <= m THEN /\ queue'[p].from = head' + (p - 1) * P + Length
                              /\ head' + p * P < Length
                         ELSE queue'[p].from = head' + (p - 1) * P
    <3>1. queue'[p].from = queue[p + 1].from /\ p + 1 \in 1 .. N
      BY <1>13, <2>1
    <3>2. IF p + 1 <= n THEN /\ queue[p + 1].from = head + ((p + 1) - 1) * P + Length
                             /\ head + (p + 1) * P < Length
                        ELSE queue[p + 1].from = head + ((p + 1) - 1) * P
      BY <1>6, <3>1
    <3>. DEFINE pp == p * P
                p0 == (p - 1) * P
                p2 == (p + 1) * P
                all == N * P
    <3>3. /\ p0 \in Nat /\ pp = p0 + P /\ p2 = pp + P /\ p2 <= all /\ ((p + 1) - 1) * P = pp
          /\ all \in Nat /\ pp \in Nat /\ upload = head + all
      BY <1>5, <2>1
    <3>4. IF p + 1 <= n THEN queue[p + 1].from = head + pp + Length /\ head + p2 < Length
                        ELSE queue[p + 1].from = head + pp
      BY <3>2, <3>3
    <3>. HIDE DEF pp, p0, p2, all
    <3>5. CASE back = Length
      <4>1. n = 0 /\ p <= m
        BY <1>7, <1>9, <3>5
      <4>2. queue'[p].from = head + pp
        BY <3>1, <3>4, <4>1
      <4>3. queue'[p].from = head' + p0 + Length /\ head' + pp < Length
        BY <1>1, <1>3, <1>9, <3>3, <3>5, <4>2
      <4>. QED
        BY <4>1, <4>3 DEF pp, p0
    <3>6. CASE back = 0 /\ p + 1 <= n
      <4>1. p <= m
        BY <1>1, <1>6, <3>6
      <4>2. queue'[p].from = head' + p0 + Length /\ head' + pp < Length
        BY <1>1, <1>3, <1>9, <3>1, <3>3, <3>4, <3>6
      <4>. QED
        BY <4>1, <4>2 DEF pp, p0
    <3>7. CASE back = 0 /\ ~(p + 1 <= n)
      <4>1. ~(p <= m)
        BY <1>1, <1>6, <3>7
      <4>2. queue'[p].from = head' + p0
        BY <1>1, <1>3, <1>9, <3>1, <3>3, <3>4, <3>7
      <4>. QED
        BY <4>1, <4>2 DEF pp, p0
    <3>. QED
      BY <3>5, <3>6, <3>7
  <2>. HIDE DEF m
  <2>. QED
    BY <1>13, <2>2, <2>3, <2>4 DEF QueueInv
<1>. QED
  BY <1>11, <1>14, <1>15, <1>16, <1>17 DEF IInv

(* What is left goes into a last partition.                                *)
LEMMA LastPartKeeps ==
  ASSUME IInv, LastPartUploads
  PROVE  IInv'
<1>1. /\ Length \in Nat \ {0} /\ PartLimit \in Nat \ {0} /\ FileLimit \in Nat \ {0} /\ MaxChunk \in Nat
  BY LengthType
<1>2. /\ busy = "lastPart" /\ init = "ok" /\ busy' = "finish"
      /\ UNCHANGED <<size, rest, queue, init, stream, aborting>>
  BY DEF LastPartUploads
<1>3. Storing /\ stream = "open" /\ queue = <<>> /\ rest = 0 /\ ~Storing'
  BY <1>2 DEF IInv, PhaseInv, Storing
<1>4. /\ TypeOK /\ head \in 0 .. Length - 1 /\ tail \in head .. head + Length
      /\ size \in 0 .. FileLimit /\ stored \in Seq(Seq(Byte)) /\ Read \in Nat
  BY <1>1, Times DEF IInv, TypeOK, Read
<1>5. /\ size = Read + (tail - head) /\ upload = head
      /\ \A k \in 0 .. tail - head - 1 : buffer[(head + k) % Length] = Read + k + 1
  <2>1. Len(queue) * PartLimit = 0 /\ upload = head + Len(queue) * PartLimit
    BY <1>1, <1>3 DEF IInv, RingInv
  <2>. QED
    BY <1>3, <1>4, <2>1 DEF IInv, RingInv
<1>6. PhaseInv' /\ RingInv' /\ (TypeOK' => QueueInv')
  BY <1>2, <1>3 DEF IInv, PhaseInv, RingInv, QueueInv
<1>7. CASE tail > head
  <2>. DEFINE len == tail - head
  <2>1. len \in Nat \ {0} /\ head + len = tail /\ tail \in Nat /\ upload + tail - head = tail
    BY <1>4, <1>5, <1>7
  <2>2. Reads([from |-> head, length |-> len], tail)
    BY <1>5, <1>7, <2>1 DEF LastPartUploads
  <2>. HIDE DEF len
  <2>. DEFINE part == [from |-> head, length |-> len]
  <2>3. part.length = len /\ part.from = head /\ head + len <= tail /\ tail <= tail
    BY <2>1
  <2>4. Reads(part, tail)
    BY <2>2
  <2>. HIDE DEF part
  <2>5. PICK back \in {0, Length} :
          /\ head' = head + len - back /\ tail' = tail - back /\ upload' = tail - back
          /\ back = 0 => head + len < Length
          /\ back = Length => head + len >= Length /\ part.from = head
          /\ head' \in 0 .. Length - 1 /\ tail' \in head' .. head' + Length
          /\ buffer' = buffer
          /\ stored' = Append(stored, [k \in 1 .. len |-> Read + k])
    BY <1>4, <1>5, <2>1, <2>3, <2>4, ReadsKeeps
  <2>6. StoredInv' /\ stored' \in Seq(Seq(Byte))
    <3>1. Read + len <= FileLimit /\ size = Read + len
      BY <1>1, <1>4, <1>5 DEF len
    <3>. QED
      BY <1>2, <1>3, <1>4, <2>1, <2>5, <3>1, StoredGrows DEF IInv
  <2>7. TypeOK'
    BY <1>2, <1>4, <2>5, <2>6 DEF IInv, TypeOK
  <2>. QED
    BY <1>6, <2>6, <2>7 DEF IInv
<1>8. CASE ~(tail > head)
  <2>1. UNCHANGED <<buffer, head, tail, upload, stored>>
    BY <1>8 DEF LastPartUploads, ring
  <2>2. size = Len(stored) * PartLimit
    BY <1>4, <1>5, <1>8 DEF Read
  <2>3. TypeOK'
    BY <1>2, <2>1 DEF IInv, TypeOK
  <2>4. StoredInv'
    <3>1. CASE stored = <<>>
      BY <1>1, <1>2, <1>3, <2>1, <2>2, <3>1 DEF IInv, StoredInv
    <3>2. CASE stored # <<>>
      <4>1. Len(stored) \in Nat \ {0}
        BY <1>4, <3>2
      <4>2. Len(stored[Len(stored)]) = PartLimit
        <5>1. Len(stored) \in 1 .. Len(stored)
          BY <4>1
        <5>. QED
          BY <1>3, <5>1 DEF IInv, StoredInv
      <4>3. Len(stored) * PartLimit = (Len(stored) - 1) * PartLimit + PartLimit
        BY <1>1, <4>1
      <4>. QED
        BY <1>2, <1>3, <2>1, <2>2, <3>2, <4>2, <4>3 DEF IInv, StoredInv
    <3>. QED
      BY <3>1, <3>2
  <2>. QED
    BY <1>6, <2>3, <2>4 DEF IInv
<1>. QED
  BY <1>7, <1>8

(* The whole file is there.                                                *)
LEMMA FinishKeeps ==
  ASSUME IInv, UploadFinishes
  PROVE  IInv'
<1>1. /\ Length \in Nat \ {0} /\ PartLimit \in Nat \ {0} /\ FileLimit \in Nat \ {0} /\ MaxChunk \in Nat
  BY LengthType
<1>2. /\ busy \in {"finish", "simple"} /\ stream' = "finished" /\ busy' = "no" /\ ~Storing'
      /\ UNCHANGED <<buffer, head, tail, upload, size, rest, queue, init, aborting>>
  BY DEF UploadFinishes, ring, Storing
<1>3. PhaseInv' /\ RingInv' /\ queue' = <<>>
  BY <1>2 DEF IInv, PhaseInv, RingInv
<1>4. QueueInv'
  BY <1>3 DEF QueueInv
<1>5. CASE busy = "finish"
  <2>1. stored' = stored
    BY <1>5 DEF UploadFinishes
  <2>2. TypeOK'
    BY <1>2, <2>1 DEF IInv, TypeOK
  <2>3. StoredInv'
    BY <1>2, <1>5, <2>1 DEF IInv, StoredInv
  <2>. QED
    BY <1>3, <1>4, <2>2, <2>3 DEF IInv
<1>6. CASE busy = "simple"
  <2>1. Storing /\ rest = 0 /\ init = "none" /\ head = 0 /\ stored = <<>>
    BY <1>6 DEF IInv, PhaseInv, RingInv, Storing
  <2>2. Read = 0
    BY <1>1, <2>1 DEF Read
  <2>3. /\ tail \in 0 .. Length /\ size \in 0 .. FileLimit /\ size = tail
        /\ \A k \in 0 .. tail - 1 : buffer[(0 + k) % Length] = k + 1
    <3>1. tail \in 0 .. Length /\ size \in 0 .. FileLimit
      BY <1>1, <2>1 DEF IInv, TypeOK
    <3>. QED
      BY <1>1, <2>1, <2>2, <3>1 DEF IInv, RingInv
  <2>4. ASSUME NEW k \in 1 .. tail PROVE buffer[k - 1] = Read + k
    <3>. DEFINE j == k - 1
    <3>1. j \in 0 .. tail - 1 /\ j \in 0 .. 2 * Length - 1 /\ j < Length /\ k = j + 1
      BY <1>1, <2>3
    <3>. HIDE DEF j
    <3>2. j % Length = j
      BY <1>1, <3>1, Round
    <3>3. buffer[(0 + j) % Length] = j + 1 /\ 0 + j = j
      BY <2>3, <3>1
    <3>4. buffer[j] = Read + k
      BY <2>2, <3>1, <3>2, <3>3
    <3>. QED
      BY <3>4 DEF j
  <2>5. stored' = <<[k \in 1 .. tail |-> buffer[k - 1]]>>
    BY <1>6 DEF UploadFinishes
  <2>6. [k \in 1 .. tail |-> buffer[k - 1]] = [k \in 1 .. tail |-> Read + k]
    BY <2>4
  <2>7. stored' = Append(stored, [k \in 1 .. tail |-> Read + k])
    BY <2>1, <2>5, <2>6
  <2>8. StoredInv' /\ stored' \in Seq(Seq(Byte))
    <3>1. tail \in Nat /\ Read + tail <= FileLimit /\ size = Read + tail
      BY <1>1, <2>2, <2>3
    <3>. QED
      BY <1>2, <2>1, <2>7, <3>1, StoredGrows DEF IInv
  <2>9. TypeOK'
    BY <1>2, <2>8 DEF IInv, TypeOK
  <2>. QED
    BY <1>3, <1>4, <2>8, <2>9 DEF IInv
<1>. QED
  BY <1>2, <1>5, <1>6

(* Every step keeps the invariant.                                         *)
LEMMA InvNext == IInv /\ [Next]_vars => IInv'
<1>. SUFFICES ASSUME IInv, [Next]_vars PROVE IInv'
  OBVIOUS
<1>1. ASSUME NEW n \in 1 .. MaxChunk, WriteTooMuch(n) \/ WriteFirst(n) \/ WriteMore(n)
      PROVE  IInv'
  BY <1>1, FailKeeps, FirstKeeps, WriteMoreKeeps DEF WriteTooMuch
<1>2. CASE Storage
  BY <1>2, StayKeeps, PartKeeps, LastPartKeeps, FinishKeeps, FailKeeps
     DEF Storage, PartFails, LastPartFails, UploadFails
<1>3. CASE Continue \/ Final \/ SourceBreaks
  BY <1>3, ContinueKeeps, FinalKeeps, StayKeeps
<1>4. CASE UNCHANGED vars
  BY <1>4 DEF IInv, TypeOK, PhaseInv, RingInv, QueueInv, StoredInv, Storing, Read, vars
<1>. QED
  BY <1>1, <1>2, <1>3, <1>4 DEF Next, Chunks

(* The invariant holds in every reachable state.                           *)
THEOREM Invariance == Spec => []IInv
BY InitEstablishes, InvNext, PTL DEF Spec

(* Every variable stays within its type, the indices of the ring included. *)
THEOREM TypeCorrect == Spec => []TypeOK
<1>1. IInv => TypeOK
  BY DEF IInv
<1>. QED
  BY <1>1, Invariance, PTL

(* The bytes of a queued partition are in the ring until they are read.    *)
THEOREM ChecksumsAreKept == Spec => []ChecksumsHold
<1>1. IInv => ChecksumsHold
  <2>. SUFFICES ASSUME IInv, NEW p \in DOMAIN queue, NEW k \in 1 .. queue[p].length
                PROVE  queue[p].sum[k] = buffer[(queue[p].from + k - 1) % Length]
    BY DEF ChecksumsHold
  <2>. DEFINE N == Len(queue)
              P == PartLimit
              off == (p - 1) * P
              all == N * P
  <2>1. /\ Length \in Nat \ {0} /\ P \in Nat \ {0}
        /\ head \in 0 .. Length - 1 /\ tail \in head .. head + Length /\ upload \in head .. tail
        /\ queue \in Seq(Part) /\ stored \in Seq(Seq(Byte)) /\ Read \in Nat
    BY LengthType, Times DEF IInv, TypeOK, Read
  <2>2. p \in 1 .. N /\ N \in Nat
    BY <2>1
  <2>3. queue # <<>> /\ Storing
    BY <2>2 DEF IInv, PhaseInv, Storing
  <2>4. queue[p].length = P /\ queue[p].sum = [j \in 1 .. P |-> Read + off + j]
    BY <2>2 DEF IInv, QueueInv
  <2>5. queue[p].from = head + off \/ (queue[p].from = head + off + Length /\ head + p * P < Length)
    BY <2>2 DEF IInv, QueueInv
  <2>6. off \in Nat /\ p * P = off + P /\ p * P <= all /\ upload = head + all /\ all \in Nat
    <3>1. p - 1 \in Nat /\ p \in Nat /\ p <= N /\ (p - 1) + 1 = p
      BY <2>2
    <3>2. off \in Nat /\ ((p - 1) + 1) * P = off + P
      BY <2>1, <3>1, Times
    <3>3. p * P <= all /\ all \in Nat
      BY <2>1, <2>2, <3>1, Times
    <3>4. upload = head + all
      BY <2>3 DEF IInv, RingInv
    <3>. QED
      BY <3>1, <3>2, <3>3, <3>4
  <2>7. \A j \in 0 .. tail - head - 1 : buffer[(head + j) % Length] = Read + j + 1
    BY <2>3 DEF IInv, RingInv
  <2>8. k \in 1 .. P
    BY <2>4
  <2>9. off + P <= all /\ (queue[p].from = head + off + Length => head + off + P < Length)
    <3>. DEFINE pp == p * P
    <3>1. /\ off \in Nat /\ pp = off + P /\ pp <= all /\ all \in Nat
          /\ queue[p].from = head + off \/ (queue[p].from = head + off + Length /\ head + pp < Length)
      BY <2>5, <2>6
    <3>. HIDE DEF off, all, pp, P
    <3>. QED
      BY <2>1, <3>1
  <2>. HIDE DEF off, all, P, N
  <2>10. /\ off + (k - 1) \in 0 .. tail - head - 1 /\ off + (k - 1) \in Nat /\ head \in Nat /\ k - 1 \in Nat
         /\ head + (off + (k - 1)) < 2 * Length
    BY <2>1, <2>6, <2>8, <2>9
  <2>11. buffer[(head + (off + (k - 1))) % Length] = Read + (off + (k - 1)) + 1
    BY <2>7, <2>10
  <2>12. (queue[p].from + (k - 1)) % Length = (head + (off + (k - 1))) % Length
    <3>. DEFINE x == (queue[p].from + (k - 1)) % Length
                y == (head + (off + (k - 1))) % Length
                f == queue[p].from
    <3>1. y = IF head + (off + (k - 1)) < Length THEN head + (off + (k - 1)) ELSE head + (off + (k - 1)) - Length
      BY <2>10, RoundOf
    <3>2. f \in Nat /\ f + (k - 1) < 2 * Length
      BY <2>1, <2>5, <2>6, <2>8, <2>9, <2>10
    <3>. HIDE DEF f
    <3>3. x = IF f + (k - 1) < Length THEN f + (k - 1) ELSE f + (k - 1) - Length
      BY <2>10, <3>2, RoundOf DEF f
    <3>4. f = head + off \/ (f = head + off + Length /\ head + off + P < Length)
      BY <2>5, <2>9 DEF f
    <3>. HIDE DEF x, y
    <3>5. x = y
      BY <2>1, <2>6, <2>8, <2>10, <3>1, <3>2, <3>3, <3>4
    <3>. QED
      BY <3>5 DEF x, y
  <2>13. queue[p].from \in Nat
    BY <2>1, <2>5, <2>6
  <2>14. queue[p].from + k - 1 = queue[p].from + (k - 1) /\ Read + (off + (k - 1)) + 1 = Read + off + k
    BY <2>1, <2>6, <2>8, <2>13
  <2>. QED
    BY <2>4, <2>8, <2>11, <2>12, <2>14
<1>. QED
  BY <1>1, Invariance, PTL

-----------------------------------------------------------------------------
(* What is stored, taken together.                                         *)

(* A set of numbers that is not empty has a least element.                 *)
LEMMA LeastNumber ==
  ASSUME NEW T \in SUBSET Nat, T # {}
  PROVE  \E m \in T : \A n \in T : m <= n
<1>. DEFINE Less == {ss \in Nat \X Nat : ss[1] < ss[2]}
<1>1. IsWellFoundedOn(Less, Nat)
  BY NatLessThanWellFounded DEF OpToRel
<1>2. PICK m \in T : \A n \in T : <<n, m>> \notin Less
  BY <1>1, WFMin, Zenon
<1>3. ASSUME NEW n \in T PROVE m <= n
  <2>1. n \in Nat /\ m \in Nat /\ ~(n < m)
    BY <1>2
  <2>. QED
    BY <2>1
<1>. QED
  BY <1>3

(* The concatenation of partitions that are the file from its beginning is *)
(* the file as far as they go.                                             *)
LEMMA ContentIs ==
  ASSUME TypeOK, StoredInv, stored # <<>>
  PROVE  LET total == (Len(stored) - 1) * PartLimit + Len(stored[Len(stored)])
         IN  total \in Nat /\ Content = [k \in 1 .. total |-> k]
<1>. DEFINE N == Len(stored)
            T(j) == (j - 1) * PartLimit + Len(stored[j])
            G == [j \in 1 .. N |-> [k \in 1 .. T(j) |-> k]]
            Solves(f) == f = [j \in 1 .. N |-> IF j = 1 THEN stored[j] ELSE f[j - 1] \o stored[j]]
<1>1. PartLimit \in Nat \ {0} /\ stored \in Seq(Seq(Byte)) /\ N \in Nat \ {0}
  BY LengthType DEF TypeOK
<1>2. ASSUME NEW j \in 1 .. N
      PROVE  /\ stored[j] \in Seq(Byte) /\ Len(stored[j]) \in Nat /\ (j - 1) * PartLimit \in Nat /\ T(j) \in Nat
             /\ stored[j] = [k \in 1 .. Len(stored[j]) |-> (j - 1) * PartLimit + k]
             /\ j < N => Len(stored[j]) = PartLimit
  <2>1. stored[j] \in Seq(Byte) /\ j - 1 \in Nat
    BY <1>1
  <2>2. Len(stored[j]) \in Nat /\ (j - 1) * PartLimit \in Nat
    BY <1>1, <2>1, Times
  <2>. QED
    BY <2>1, <2>2 DEF StoredInv
<1>3. ASSUME NEW j \in 1 .. N PROVE G[j] = IF j = 1 THEN stored[j] ELSE G[j - 1] \o stored[j]
  <2>1. CASE j = 1
    <3>1. (1 - 1) * PartLimit = 0
      BY <1>1
    <3>2. stored[j] = [k \in 1 .. Len(stored[j]) |-> k]
      <4>1. \A k \in 1 .. Len(stored[j]) : (j - 1) * PartLimit + k = k
        BY <2>1, <3>1
      <4>2. stored[j] = [k \in 1 .. Len(stored[j]) |-> (j - 1) * PartLimit + k]
        BY <1>2
      <4>. QED
        BY <4>1, <4>2
    <3>3. T(j) = Len(stored[j])
      BY <1>2, <2>1, <3>1
    <3>. QED
      BY <2>1, <3>2, <3>3
  <2>2. CASE j # 1
    <3>. DEFINE off == (j - 1) * PartLimit
                len == Len(stored[j])
    <3>1. j - 1 \in 1 .. N /\ j - 1 < N
      BY <1>1, <2>2
    <3>2. T(j - 1) = off
      <4>1. Len(stored[j - 1]) = PartLimit
        BY <1>2, <3>1
      <4>2. j - 2 \in Nat /\ (j - 2) + 1 = j - 1 /\ (j - 1) - 1 = j - 2
        BY <1>1, <2>2
      <4>3. ((j - 2) + 1) * PartLimit = (j - 2) * PartLimit + PartLimit
        BY <1>1, <4>2, Times
      <4>. QED
        BY <4>1, <4>2, <4>3
    <3>3. off \in Nat /\ len \in Nat /\ T(j) = off + len
          /\ stored[j] = [k \in 1 .. len |-> off + k]
      BY <1>2
    <3>4. G[j - 1] = [k \in 1 .. off |-> k] /\ G[j] = [k \in 1 .. off + len |-> k]
      BY <3>1, <3>2, <3>3
    <3>. HIDE DEF off, len, G, T
    <3>5. [k \in 1 .. off |-> k] \o [k \in 1 .. len |-> off + k] = [k \in 1 .. off + len |-> k]
      <4>. DEFINE a == [k \in 1 .. off |-> k]
                  b == [k \in 1 .. len |-> off + k]
      <4>1. a \in Seq(Nat) /\ b \in Seq(Nat) /\ Len(a) = off /\ Len(b) = len
        BY <3>3
      <4>2. a \o b \in Seq(Nat) /\ Len(a \o b) = off + len
        BY <3>3, <4>1
      <4>3. \A k \in 1 .. off + len : (a \o b)[k] = k
        BY <3>3, <4>1
      <4>. DEFINE c == a \o b
      <4>4. c \in Seq(Nat) /\ Len(c) = off + len /\ \A k \in 1 .. off + len : c[k] = k
        BY <4>2, <4>3
      <4>. HIDE DEF c
      <4>5. c = [k \in 1 .. off + len |-> k]
        BY <3>3, <4>4
      <4>. QED
        BY <4>5 DEF c
    <3>. QED
      BY <2>2, <3>3, <3>4, <3>5
  <2>. QED
    BY <2>1, <2>2
<1>4. Solves(G)
  BY <1>3
<1>. DEFINE F == CHOOSE f : Solves(f)
<1>5. Solves(F)
  <2>. HIDE DEF Solves
  <2>. QED
    BY <1>4
<1>6. Content = F[N]
  BY <1>1 DEF Content, FlattenSeq
<1>7. ASSUME NEW j \in 1 .. N PROVE F[j] = IF j = 1 THEN stored[j] ELSE F[j - 1] \o stored[j]
  <2>. HIDE DEF F
  <2>. QED
    BY <1>5
<1>. HIDE DEF F, G, Solves
<1>8. \A j \in 1 .. N : F[j] = G[j]
  <2>. DEFINE Diff == {j \in 1 .. N : F[j] # G[j]}
  <2>1. CASE Diff # {}
    <3>1. PICK m \in Diff : \A n \in Diff : m <= n
      BY <2>1, LeastNumber, Diff \in SUBSET Nat
    <3>2. m # 1
      BY <1>3, <1>7, <3>1
    <3>3. m - 1 \in 1 .. N /\ m - 1 \notin Diff
      BY <1>1, <3>1, <3>2
    <3>. QED
      BY <1>3, <1>7, <3>1, <3>2, <3>3
  <2>. QED
    BY <2>1
<1>9. N \in 1 .. N
  BY <1>1
<1>. QED
  BY <1>2, <1>6, <1>8, <1>9 DEF G

(* The storage has the file from its beginning, in order, and whole when   *)
(* the upload has resolved.                                                *)
LEMMA StoredIs ==
  ASSUME IInv
  PROVE  StoredInOrder /\ ResolvedIsWhole
<1>1. TypeOK /\ StoredInv /\ stored \in Seq(Seq(Byte))
  BY DEF IInv, TypeOK
<1>2. CASE stored = <<>>
  <2>1. Content = <<>>
    BY <1>2 DEF Content, FlattenSeq
  <2>. QED
    BY <1>1, <1>2, <2>1 DEF StoredInOrder, ResolvedIsWhole, StoredInv
<1>3. CASE stored # <<>>
  <2>. DEFINE total == (Len(stored) - 1) * PartLimit + Len(stored[Len(stored)])
  <2>1. total \in Nat /\ Content = [k \in 1 .. total |-> k]
    BY <1>1, <1>3, ContentIs
  <2>2. stream = "finished" => size = total
    BY <1>1, <1>3 DEF StoredInv
  <2>3. \A p \in 1 .. Len(stored) : p < Len(stored) => Len(stored[p]) = PartLimit
    BY <1>1 DEF StoredInv
  <2>4. DOMAIN stored = 1 .. Len(stored)
    BY <1>1
  <2>. HIDE DEF total
  <2>5. Len(Content) = total /\ \A k \in DOMAIN Content : Content[k] = k
    BY <2>1
  <2>. QED
    BY <2>2, <2>3, <2>4, <2>5 DEF StoredInOrder, ResolvedIsWhole
<1>. QED
  BY <1>2, <1>3

(* What is stored, in order, is the beginning of the content (upload-      *)
(* stream.ts), whatever the sizes of the chunks, the parts and the ring.   *)
THEOREM StoredFromBeginning == Spec => []StoredInOrder
BY StoredIs, Invariance, PTL

(* A stream that has finished has stored the whole content, in parts of    *)
(* the size asked for.                                                     *)
THEOREM ResolvedStored == Spec => []ResolvedIsWhole
BY StoredIs, Invariance, PTL
================================================================================
