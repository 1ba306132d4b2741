--------------------------- MODULE GuiQueueProofs ---------------------------
(* Where a request is: in the deque, deferred, in the hand of the GUI       *)
(* thread or swept, and in no two of these at once; how its end is settled; *)
(* and the promises of GuiDispatch that rest on both.                       *)
EXTENDS GuiDispatchProofs, FunctionTheorems

-----------------------------------------------------------------------------
(* The order of a queue.                                                    *)

\* Some copy of a stands before some copy of b.
Ahead(queue, a, b) == \E i, j \in DOMAIN queue : i < j /\ queue[i] = a /\ queue[j] = b

\* What stands before or after another is in the queue.
LEMMA AheadRange ==
    ASSUME NEW queue, NEW a, NEW b, Ahead(queue, a, b)
    PROVE  a \in Range(queue) /\ b \in Range(queue)
  BY DEF Ahead, Range

\* A segment, place by place.
LEMMA SegmentPlaces ==
    ASSUME NEW queue \in Seq(Requests), NEW m \in Nat \ {0}, NEW n \in 0..Len(queue)
    PROVE  /\ SubSeq(queue, m, n) \in Seq(Requests)
           /\ DOMAIN SubSeq(queue, m, n) = 1..(n - m + 1)
           /\ \A i \in 1..(n - m + 1) :
                 m + i - 1 \in DOMAIN queue /\ SubSeq(queue, m, n)[i] = queue[m + i - 1]
<1>1. Len(queue) \in Nat /\ DOMAIN queue = 1..Len(queue)  BY LenProperties
<1>2. \A i \in m..n : queue[i] \in Requests  BY <1>1, ElementOfSeq
<1>3. m \in Int /\ n \in Int  BY <1>1
<1>4. /\ SubSeq(queue, m, n) \in Seq(Requests)
      /\ Len(SubSeq(queue, m, n)) = IF m <= n THEN n - m + 1 ELSE 0
      /\ \A i \in 1..(n - m + 1) : SubSeq(queue, m, n)[i] = queue[m + i - 1]
  BY <1>2, <1>3, SubSeqProperties
<1>5. DOMAIN SubSeq(queue, m, n) = 1..Len(SubSeq(queue, m, n))  BY <1>4, LenProperties
<1>6. 1..Len(SubSeq(queue, m, n)) = 1..(n - m + 1)  BY <1>1, <1>4
<1>7. \A i \in 1..(n - m + 1) : m + i - 1 \in DOMAIN queue  BY <1>1
<1> QED BY <1>4, <1>5, <1>6, <1>7

\* A segment keeps the order of its queue.
LEMMA AheadSegment ==
    ASSUME NEW queue \in Seq(Requests), NEW m \in Nat \ {0}, NEW n \in 0..Len(queue),
           NEW a, NEW b, Ahead(SubSeq(queue, m, n), a, b)
    PROVE  Ahead(queue, a, b)
<1>1. PICK i \in 1..(n - m + 1), j \in 1..(n - m + 1) :
         i < j /\ SubSeq(queue, m, n)[i] = a /\ SubSeq(queue, m, n)[j] = b
  BY SegmentPlaces DEF Ahead
<1>2. /\ m + i - 1 \in DOMAIN queue /\ queue[m + i - 1] = a
      /\ m + j - 1 \in DOMAIN queue /\ queue[m + j - 1] = b
  BY <1>1, SegmentPlaces
<1>3. m + i - 1 < m + j - 1  BY <1>1
<1> QED BY <1>2, <1>3 DEF Ahead

\* In two queues put together, the first stands before the second.
LEMMA AheadConcat ==
    ASSUME NEW front \in Seq(Requests), NEW back \in Seq(Requests), NEW a, NEW b,
           Ahead(front \o back, a, b)
    PROVE  \/ Ahead(front, a, b) \/ Ahead(back, a, b)
           \/ a \in Range(front) /\ b \in Range(back)
<1>1. /\ Len(front) \in Nat /\ DOMAIN front = 1..Len(front)
      /\ Len(back) \in Nat /\ DOMAIN back = 1..Len(back)
  BY LenProperties
<1>2. /\ front \o back \in Seq(Requests)
      /\ Len(front \o back) = Len(front) + Len(back)
      /\ \A i \in 1..(Len(front) + Len(back)) :
            (front \o back)[i] = IF i <= Len(front) THEN front[i] ELSE back[i - Len(front)]
  BY ConcatProperties
<1>3. DOMAIN (front \o back) = 1..(Len(front) + Len(back))  BY <1>2, LenProperties
<1>4. PICK i \in 1..(Len(front) + Len(back)), j \in 1..(Len(front) + Len(back)) :
         i < j /\ (front \o back)[i] = a /\ (front \o back)[j] = b
  BY <1>3 DEF Ahead
<1>5. CASE j <= Len(front)
  <2>1. i \in DOMAIN front /\ j \in DOMAIN front /\ front[i] = a /\ front[j] = b
    BY <1>1, <1>2, <1>4, <1>5
  <2> QED BY <1>4, <2>1 DEF Ahead
<1>6. CASE i > Len(front)
  <2>1. /\ i - Len(front) \in DOMAIN back /\ back[i - Len(front)] = a
        /\ j - Len(front) \in DOMAIN back /\ back[j - Len(front)] = b
        /\ i - Len(front) < j - Len(front)
    BY <1>1, <1>2, <1>4, <1>6
  <2> QED BY <2>1 DEF Ahead
<1>7. CASE i <= Len(front) /\ j > Len(front)
  <2>1. /\ i \in DOMAIN front /\ front[i] = a
        /\ j - Len(front) \in DOMAIN back /\ back[j - Len(front)] = b
    BY <1>1, <1>2, <1>4, <1>7
  <2> QED BY <2>1 DEF Range
<1> QED BY <1>1, <1>4, <1>5, <1>6, <1>7

\* A queue of one has nobody ahead of anybody.
LEMMA AheadOne == ASSUME NEW r, NEW a, NEW b PROVE ~Ahead(<<r>>, a, b)
<1>1. DOMAIN <<r>> = {1}  OBVIOUS
<1> QED BY <1>1 DEF Ahead

\* The request at a place of a queue, and the segments before and after it.
LEMMA Split ==
    ASSUME NEW queue \in Seq(Requests), NEW k \in DOMAIN queue
    PROVE  LET front == SubSeq(queue, 1, k - 1)
               back == SubSeq(queue, k + 1, Len(queue))
           IN  /\ front \in Seq(Requests) /\ back \in Seq(Requests)
               /\ Range(queue) = Range(front) \cup {queue[k]} \cup Range(back)
               /\ \A a, b : Ahead(front, a, b) \/ Ahead(back, a, b) => Ahead(queue, a, b)
               /\ \A a \in Range(front), b \in Range(back) : Ahead(queue, a, b)
               /\ \A a \in Range(front) : Ahead(queue, a, queue[k])
               /\ \A b \in Range(back) : Ahead(queue, queue[k], b)
<1> DEFINE front == SubSeq(queue, 1, k - 1)
           back == SubSeq(queue, k + 1, Len(queue))
<1>1. Len(queue) \in Nat /\ DOMAIN queue = 1..Len(queue)  BY LenProperties
<1>2. /\ k - 1 \in 0..Len(queue) /\ k + 1 \in Nat \ {0} /\ 1 \in Nat \ {0}
      /\ Len(queue) \in 0..Len(queue) /\ k \in Int /\ k - 1 \in Int /\ k + 1 \in Int
      /\ Len(queue) \in Int /\ 1 \in Int
  BY <1>1
<1>3. /\ front \in Seq(Requests) /\ DOMAIN front = 1..((k - 1) - 1 + 1)
      /\ \A i \in 1..((k - 1) - 1 + 1) : front[i] = queue[1 + i - 1]
  BY <1>2, SegmentPlaces
<1>4. /\ back \in Seq(Requests) /\ DOMAIN back = 1..(Len(queue) - (k + 1) + 1)
      /\ \A i \in 1..(Len(queue) - (k + 1) + 1) : back[i] = queue[(k + 1) + i - 1]
  <2>1. \A m \in Nat \ {0}, n \in 0..Len(queue) :
           /\ SubSeq(queue, m, n) \in Seq(Requests)
           /\ DOMAIN SubSeq(queue, m, n) = 1..(n - m + 1)
           /\ \A i \in 1..(n - m + 1) : SubSeq(queue, m, n)[i] = queue[m + i - 1]
    BY SegmentPlaces
  <2> QED BY <1>2, <2>1
<1>5. DOMAIN front = 1..(k - 1) /\ \A i \in 1..(k - 1) : front[i] = queue[i]
  <2>1. (k - 1) - 1 + 1 = k - 1 /\ \A i \in 1..(k - 1) : 1 + i - 1 = i  BY <1>1
  <2> QED BY <1>3, <2>1
<1>6. /\ DOMAIN back = 1..(Len(queue) - k)
      /\ \A i \in 1..(Len(queue) - k) : back[i] = queue[k + i]
  <2>1. /\ Len(queue) - (k + 1) + 1 = Len(queue) - k
        /\ \A i \in 1..(Len(queue) - k) : (k + 1) + i - 1 = k + i
    BY <1>1
  <2> QED BY <1>4, <2>1
<1> HIDE DEF front, back
<1>8. Range(queue) = Range(front) \cup {queue[k]} \cup Range(back)
  <2>1. ASSUME NEW i \in DOMAIN queue
        PROVE  queue[i] \in Range(front) \cup {queue[k]} \cup Range(back)
    <3>1. CASE i < k
      <4>1. i \in DOMAIN front /\ front[i] = queue[i]  BY <1>1, <1>5, <3>1
      <4> QED BY <4>1 DEF Range
    <3>2. CASE i > k
      <4>1. i - k \in 1..(Len(queue) - k) /\ k + (i - k) = i  BY <1>1, <3>2
      <4>2. i - k \in DOMAIN back /\ back[i - k] = queue[i]  BY <1>6, <4>1
      <4> QED BY <4>2 DEF Range
    <3>3. CASE i = k  BY <3>3
    <3> QED BY <1>1, <3>1, <3>2, <3>3
  <2>2. ASSUME NEW i \in DOMAIN front  PROVE front[i] \in Range(queue)
    <3>1. i \in DOMAIN queue /\ front[i] = queue[i]  BY <1>1, <1>5
    <3> QED BY <3>1 DEF Range
  <2>3. ASSUME NEW i \in DOMAIN back  PROVE back[i] \in Range(queue)
    <3>1. k + i \in DOMAIN queue /\ back[i] = queue[k + i]  BY <1>1, <1>6
    <3> QED BY <3>1 DEF Range
  <2> QED BY <2>1, <2>2, <2>3 DEF Range
<1>9. \A a, b : Ahead(front, a, b) \/ Ahead(back, a, b) => Ahead(queue, a, b)
  BY <1>2, AheadSegment DEF front, back
<1>10. ASSUME NEW a \in Range(front), NEW b \in Range(back)  PROVE Ahead(queue, a, b)
  <2>1. PICK i \in DOMAIN front, j \in DOMAIN back : front[i] = a /\ back[j] = b
    BY DEF Range
  <2>2. /\ i \in DOMAIN queue /\ queue[i] = a
        /\ k + j \in DOMAIN queue /\ queue[k + j] = b /\ i < k + j
    BY <1>1, <1>5, <1>6, <2>1
  <2> QED BY <2>2 DEF Ahead
<1>11. ASSUME NEW a \in Range(front)  PROVE Ahead(queue, a, queue[k])
  <2>1. PICK i \in DOMAIN front : front[i] = a  BY DEF Range
  <2>2. i \in DOMAIN queue /\ queue[i] = a /\ i < k  BY <1>1, <1>5, <2>1
  <2> QED BY <2>2 DEF Ahead
<1>12. ASSUME NEW b \in Range(back)  PROVE Ahead(queue, queue[k], b)
  <2>1. PICK j \in DOMAIN back : back[j] = b  BY DEF Range
  <2>2. k + j \in DOMAIN queue /\ queue[k + j] = b /\ k < k + j  BY <1>1, <1>6, <2>1
  <2> QED BY <2>2 DEF Ahead
<1> QED BY <1>3, <1>4, <1>8, <1>9, <1>10, <1>11, <1>12 DEF front, back

\* No request stands in the queue twice.
Single(queue) == \A a \in Requests : ~Ahead(queue, a, a)

\* A removal takes that request and no other, and changes no order.
LEMMA WithoutOrder ==
    ASSUME NEW queue \in Seq(Requests), Single(queue), NEW r
    PROVE  /\ Without(queue, r) \in Seq(Requests)
           /\ Range(Without(queue, r)) = Range(queue) \ {r}
           /\ \A a, b : Ahead(Without(queue, r), a, b) => Ahead(queue, a, b)
<1>1. CASE \E i \in DOMAIN queue : queue[i] = r
  <2>1. PICK k \in DOMAIN queue :
           /\ queue[k] = r
           /\ Without(queue, r) = SubSeq(queue, 1, k - 1) \o SubSeq(queue, k + 1, Len(queue))
    BY <1>1 DEF Without
  <2> DEFINE front == SubSeq(queue, 1, k - 1)
             back == SubSeq(queue, k + 1, Len(queue))
  <2>2. /\ front \in Seq(Requests) /\ back \in Seq(Requests)
        /\ Range(queue) = Range(front) \cup {r} \cup Range(back)
        /\ \A a, b : Ahead(front, a, b) \/ Ahead(back, a, b) => Ahead(queue, a, b)
        /\ \A a \in Range(front), b \in Range(back) : Ahead(queue, a, b)
        /\ \A a \in Range(front) : Ahead(queue, a, r)
        /\ \A b \in Range(back) : Ahead(queue, r, b)
    BY <2>1, Split
  <2>3. Without(queue, r) = front \o back  BY <2>1
  <2> HIDE DEF front, back
  <2>4. /\ front \o back \in Seq(Requests)
        /\ Range(front \o back) = Range(front) \cup Range(back)
    BY <2>2, ConcatProperties, RangeConcatenation
  <2>5. r \in Requests
    <3>1. Len(queue) \in Nat /\ DOMAIN queue = 1..Len(queue)  BY LenProperties
    <3> QED BY <2>1, <3>1, ElementOfSeq
  <2>6. r \notin Range(front) \cup Range(back)  BY <2>2, <2>5 DEF Single
  <2>7. \A a, b : Ahead(front \o back, a, b) => Ahead(queue, a, b)
    BY <2>2, AheadConcat
  <2> QED BY <2>2, <2>3, <2>4, <2>6, <2>7
<1>2. CASE ~\E i \in DOMAIN queue : queue[i] = r
  BY <1>2 DEF Without, Range
<1> QED BY <1>1, <1>2

\* Taking a request moves those before it behind those after it.
LEMMA TakenOrder ==
    ASSUME NEW queue \in Seq(Requests), Single(queue), NEW k \in DOMAIN queue
    PROVE  LET rest == SubSeq(queue, k + 1, Len(queue)) \o SubSeq(queue, 1, k - 1)
           IN  /\ rest \in Seq(Requests)
               /\ Range(rest) = Range(queue) \ {queue[k]}
               /\ \A a, b : Ahead(rest, a, b) =>
                     \/ Ahead(queue, a, b)
                     \/ Ahead(queue, b, queue[k]) /\ Ahead(queue, queue[k], a)
                        /\ Ahead(queue, b, a)
<1> DEFINE front == SubSeq(queue, 1, k - 1)
           back == SubSeq(queue, k + 1, Len(queue))
           r == queue[k]
<1>1. /\ front \in Seq(Requests) /\ back \in Seq(Requests)
      /\ Range(queue) = Range(front) \cup {r} \cup Range(back)
      /\ \A a, b : Ahead(front, a, b) \/ Ahead(back, a, b) => Ahead(queue, a, b)
      /\ \A a \in Range(front), b \in Range(back) : Ahead(queue, a, b)
      /\ \A a \in Range(front) : Ahead(queue, a, r)
      /\ \A b \in Range(back) : Ahead(queue, r, b)
  BY Split
<1>2. r \in Requests
  <2>1. Len(queue) \in Nat /\ DOMAIN queue = 1..Len(queue)  BY LenProperties
  <2> QED BY <2>1, ElementOfSeq
<1> HIDE DEF front, back, r
<1>3. /\ back \o front \in Seq(Requests)
      /\ Range(back \o front) = Range(back) \cup Range(front)
  BY <1>1, ConcatProperties, RangeConcatenation
<1>4. r \notin Range(front) \cup Range(back)  BY <1>1, <1>2 DEF Single
<1>5. ASSUME NEW a, NEW b, Ahead(back \o front, a, b)
      PROVE  \/ Ahead(queue, a, b)
             \/ Ahead(queue, b, r) /\ Ahead(queue, r, a) /\ Ahead(queue, b, a)
  <2>1. \/ Ahead(back, a, b) \/ Ahead(front, a, b)
        \/ a \in Range(back) /\ b \in Range(front)
    BY <1>1, <1>5, AheadConcat
  <2> QED BY <1>1, <2>1
<1> QED BY <1>1, <1>3, <1>4, <1>5 DEF front, back, r

\* A request put before a queue stands before all of it.
LEMMA RequeuedOrder ==
    ASSUME NEW queue \in Seq(Requests), NEW r \in Requests
    PROVE  /\ <<r>> \o queue \in Seq(Requests)
           /\ Range(<<r>> \o queue) = Range(queue) \cup {r}
           /\ \A a, b : Ahead(<<r>> \o queue, a, b) =>
                 Ahead(queue, a, b) \/ (a = r /\ b \in Range(queue))
<1> DEFINE one == <<r>>
<1>1. one \in Seq(Requests) /\ DOMAIN one = {1} /\ one[1] = r  OBVIOUS
<1>2. \A a, b : ~Ahead(one, a, b)  BY AheadOne
<1> HIDE DEF one
<1>3. Range(one) = {r}  BY <1>1 DEF Range
<1>4. one \o queue \in Seq(Requests) /\ Range(one \o queue) = Range(one) \cup Range(queue)
  BY <1>1, ConcatProperties, RangeConcatenation
<1>5. \A a, b : Ahead(one \o queue, a, b) =>
         Ahead(queue, a, b) \/ (a \in Range(one) /\ b \in Range(queue))
  BY <1>1, <1>2, AheadConcat
<1> QED BY <1>3, <1>4, <1>5 DEF one

\* A request put behind a queue stands behind all of it.
LEMMA AppendedOrder ==
    ASSUME NEW queue \in Seq(Requests), NEW r \in Requests
    PROVE  /\ Append(queue, r) \in Seq(Requests)
           /\ Range(Append(queue, r)) = Range(queue) \cup {r}
           /\ \A a, b : Ahead(Append(queue, r), a, b) =>
                 Ahead(queue, a, b) \/ (a \in Range(queue) /\ b = r)
<1> DEFINE one == <<r>>
<1>1. one \in Seq(Requests) /\ DOMAIN one = {1} /\ one[1] = r  OBVIOUS
<1>2. \A a, b : ~Ahead(one, a, b)  BY AheadOne
<1>3. Append(queue, r) = queue \o one  BY AppendIsConcat
<1> HIDE DEF one
<1>4. Range(one) = {r}  BY <1>1 DEF Range
<1>5. queue \o one \in Seq(Requests) /\ Range(queue \o one) = Range(queue) \cup Range(one)
  BY <1>1, ConcatProperties, RangeConcatenation
<1>6. \A a, b : Ahead(queue \o one, a, b) =>
         Ahead(queue, a, b) \/ (a \in Range(queue) /\ b \in Range(one))
  BY <1>1, <1>2, AheadConcat
<1> QED BY <1>3, <1>4, <1>5, <1>6

\* There are n places up to n.
LEMMA FirstPlaces ==
    ASSUME NEW n \in Nat
    PROVE  IsFiniteSet(1..n) /\ Cardinality(1..n) = n
<1>1. IsFiniteSet(1..n) /\ Cardinality(1..n) = IF 1 > n THEN 0 ELSE n - 1 + 1
  BY FS_Interval
<1> QED BY <1>1

\* An order of a finite set has all of it, each once.
LEMMA OrderingsOrder ==
    ASSUME NEW S \in SUBSET Requests, IsFiniteSet(S), NEW front \in Orderings(S)
    PROVE  front \in Seq(Requests) /\ Range(front) = S /\ Single(front)
<1>1. front \in Seq(Requests)  BY OrderingsSeq
<1>2. Cardinality(S) \in Nat  BY FS_CardinalityType
<1> DEFINE places == 1..Cardinality(S)
<1>3. IsFiniteSet(places) /\ Cardinality(places) = Cardinality(S)
  BY <1>2, FirstPlaces
<1>4. front \in [places -> S] /\ \A i, j \in places : front[i] = front[j] => i = j
  BY DEF Orderings
<1> HIDE DEF places
<1>5. front \in Injection(places, S)  BY <1>4, Fun_IsInj
<1>6. front \in Surjection(places, S)  BY <1>3, <1>5, FS_Injection
<1>7. Range(front) = S  BY <1>4, <1>6 DEF Surjection, Range
<1>8. Single(front)
  <2>1. ASSUME NEW a, Ahead(front, a, a)  PROVE FALSE
    <3>1. PICK i \in places, j \in places : i < j /\ front[i] = a /\ front[j] = a
      BY <1>4, <2>1 DEF Ahead
    <3>2. i = j /\ i \in Int  BY <1>4, <1>2, <3>1 DEF places
    <3> QED BY <3>1, <3>2
  <2> QED BY <2>1 DEF Single
<1> QED BY <1>1, <1>7, <1>8

\* What is left in the queue when a document is closed: all that does not name
\* it, in the order it had.
LEMMA RetainedOrder ==
    ASSUME requests \in Seq(Requests), NEW d, NEW queue \in Retained(d)
    PROVE  /\ queue \in Seq(Requests)
           /\ Range(queue) = {r \in Range(requests) : d \notin keysOf[r]}
           /\ \A a, b : Ahead(queue, a, b) => Ahead(requests, a, b)
<1> DEFINE stay == {i \in DOMAIN requests : d \notin keysOf[requests[i]]}
           places == 1..Cardinality(stay)
<1>1. Len(requests) \in Nat /\ DOMAIN requests = 1..Len(requests)  BY LenProperties
<1>2. IsFiniteSet(stay) /\ Cardinality(stay) \in Nat
  <2>1. stay \subseteq 1..Len(requests)  BY <1>1
  <2>2. IsFiniteSet(1..Len(requests))  BY <1>1, FS_Interval
  <2> QED BY <2>1, <2>2, FS_Subset, FS_CardinalityType
<1>3. PICK kept \in [places -> stay] :
         /\ \A i, j \in DOMAIN kept : i < j => kept[i] < kept[j]
         /\ queue = [i \in DOMAIN kept |-> requests[kept[i]]]
  BY DEF Retained
<1>4. IsFiniteSet(places) /\ Cardinality(places) = Cardinality(stay)
  BY <1>2, FirstPlaces
<1>5. stay \subseteq Int /\ places \subseteq Int  BY <1>1, <1>2
<1>6. \A i, j \in places : kept[i] = kept[j] => i = j
  <2>1. ASSUME NEW i \in places, NEW j \in places, kept[i] = kept[j], i # j  PROVE FALSE
    <3>1. kept[i] \in Int /\ kept[j] \in Int /\ i \in Int /\ j \in Int  BY <1>3, <1>5
    <3>2. i < j \/ j < i  BY <2>1, <3>1
    <3>3. kept[i] < kept[j] \/ kept[j] < kept[i]  BY <1>3, <3>2
    <3> QED BY <2>1, <3>1, <3>3
  <2> QED BY <2>1
<1>7. \A i \in stay : i \in DOMAIN requests /\ d \notin keysOf[requests[i]]  OBVIOUS
<1>8. \A i \in DOMAIN requests : d \notin keysOf[requests[i]] => i \in stay  OBVIOUS
<1> HIDE DEF stay, places
<1>9. kept \in Injection(places, stay)  BY <1>6, Fun_IsInj
<1>10. \A i \in stay : \E j \in places : kept[j] = i
  <2>1. kept \in Surjection(places, stay)  BY <1>2, <1>4, <1>9, FS_Injection
  <2> QED BY <2>1 DEF Surjection
<1>11. queue = [i \in places |-> requests[kept[i]]] /\ \A i \in places : kept[i] \in stay
  BY <1>3
<1>12. Range(queue) = {r \in Range(requests) : d \notin keysOf[r]}
  <2>1. ASSUME NEW i \in places  PROVE queue[i] \in {r \in Range(requests) : d \notin keysOf[r]}
    BY <1>7, <1>11 DEF Range
  <2>2. ASSUME NEW i \in DOMAIN requests, d \notin keysOf[requests[i]]
        PROVE  requests[i] \in Range(queue)
    <3>1. PICK j \in places : kept[j] = i  BY <1>8, <1>10, <2>2
    <3>2. queue[j] = requests[i] /\ j \in DOMAIN queue  BY <1>11, <3>1
    <3> QED BY <3>2 DEF Range
  <2>3. DOMAIN queue = places  BY <1>11
  <2> QED BY <2>1, <2>2, <2>3 DEF Range
<1>13. ASSUME NEW a, NEW b, Ahead(queue, a, b)  PROVE Ahead(requests, a, b)
  <2>1. PICK i \in places, j \in places : i < j /\ queue[i] = a /\ queue[j] = b
    BY <1>11, <1>13 DEF Ahead
  <2>2. kept[i] < kept[j] /\ requests[kept[i]] = a /\ requests[kept[j]] = b
    BY <1>3, <1>11, <2>1
  <2>3. kept[i] \in DOMAIN requests /\ kept[j] \in DOMAIN requests  BY <1>7, <1>11
  <2> QED BY <2>2, <2>3 DEF Ahead
<1> QED BY <1>12, <1>13, RetainedSeq

-----------------------------------------------------------------------------
(* The inductive invariant of the queues.                                   *)

NoKey(r) == \A k \in Owners : requestsByOwner[k] # r

\* A request is in one place: in the deque once, deferred, swept or in hand.
Placed ==
    /\ Single(requests)
    /\ Range(requests) \cap (deferredRequests \cup swept \cup {hand}) = {}
    /\ deferredRequests \cap (swept \cup {hand}) = {}
    /\ hand \notin swept

\* Work that may still start holds its owner key; swept work holds none.
Keyed ==
    /\ \A r \in swept : NoKey(r)
    /\ \A r \in Requests :
        /\ ownerOf[r] # NULL /\ state[r] \notin Terminal
        /\ r \in Range(requests) \cup deferredRequests \cup {hand}
        => requestsByOwner[ownerOf[r]] = r

\* A request that has ended is settled, or the thread that ended it still owes
\* it that; an execution is settled by the GUI thread that has it in hand.
Settled ==
    \A r \in Requests :
        /\ state[r] \in Terminal <=> completion[r] \/ settling[r] # "none"
        /\ ~(completion[r] /\ settling[r] # "none")
        /\ notified[r] = IF completion[r] THEN 1 ELSE 0
        /\ settling[r] = "forget" =>
              hand = r /\ gui \in {"completing", "failed"} /\ state[r] = "completed"

\* No structure of the core refers to the request.
Gone(r) == r \notin Range(requests) \cup deferredRequests /\ NoKey(r)

CompletedIsGone == \A r \in Requests : completion[r] => Gone(r)

\* drain_one is past the end of the request it holds.
EndPhases == {"expiring", "failed", "completing", "release", "finally"}

\* The state of a request says where it may be.
StateAgrees ==
    /\ \A r \in Range(requests) : state[r] \in {"pending"} \cup Terminal
    /\ \A r \in deferredRequests : state[r] \in {"deferred"} \cup Terminal
    /\ \A r \in Requests : state[r] = "deferred" => r \in deferredRequests \cup swept
    /\ gui \in EndPhases => state[hand] \in Terminal

\* A quarantine names a request that timed out in execution.
QuarantineAgrees ==
    /\ timedOutRequest # NULL => state[timedOutRequest] \in {"timed_out_running", "completed"}
    /\ \A r \in Requests :
          pc[r] = "quarantine" => state[r] \in {"timed_out_running", "completed"}

QueueInvariant ==
    Placed /\ Keyed /\ Settled /\ CompletedIsGone /\ StateAgrees /\ QuarantineAgrees

\* InQueue is membership in the range of the deque.
LEMMA InQueueRange == \A r : InQueue(r) <=> r \in Range(requests)
  BY DEF InQueue, Range

-----------------------------------------------------------------------------
(* What a step may do to the state of a request.                            *)

\* A request ends, before its execution or by it.
Ends(q) ==
    /\ state'[q] \in Terminal
    /\ state[q] \in Waiting \/ state'[q] = "completed"

\* The transitions of GuiRequest, with the step of the core that makes each.
LEMMA StateSteps ==
    ASSUME ConstantsAssumption, Inductive, [Next]_vars, NEW q \in Requests,
           state'[q] # state[q]
    PROVE  \/ Ends(q)
           \/ StartInHand /\ q = hand /\ state[q] = "pending" /\ state'[q] = "running"
           \/ MarkTimedOut(q) /\ state[q] = "running" /\ state'[q] = "timed_out_running"
           \/ /\ DeferInHand /\ accepting /\ q = hand
              /\ state[q] = "pending" /\ state'[q] = "deferred"
           \/ \E d \in Docs : /\ NotifyStable(d)
                              /\ q \in deferredRequests /\ d \in keysOf[q]
                              /\ state[q] = "deferred" /\ state'[q] = "pending"
<1> USE DEF handlerVars, requestVars, queueVars, coreVars, guiVars, documentVars, historyVars,
            Terminal, Waiting, Ends
<1>t. state \in [Requests -> RequestStates] /\ (gui # "idle" => hand \in Requests)
  BY LifeTypes DEF Inductive
<1>1. ASSUME NEW x, NEW new \in Terminal, state' = [state EXCEPT ![x] = new],
             state[x] \in Waiting \/ new = "completed"
      PROVE  Ends(q)
  BY <1>t, <1>1
<1>2. ASSUME NEW x, CancelIfPending(x)  PROVE Ends(q)
  BY <1>1, <1>2 DEF CancelIfPending
<1>3. ASSUME NEW r \in Requests, Handler(r)
      PROVE  Ends(q) \/ (MarkTimedOut(q) /\ state[q] = "running" /\ state'[q] = "timed_out_running")
  <2>1. CASE CancelOnTimeout(r)  BY <1>2, <2>1 DEF CancelOnTimeout
  <2>2. CASE SubmitInline(r)
    <3>1. state' = [state EXCEPT ![r] = "completed"]  BY <2>2 DEF SubmitInline
    <3> QED BY <1>1, <3>1
  <2>3. CASE MarkTimedOut(r)
    <3>1. state[r] = "running" /\ state' = [state EXCEPT ![r] = "timed_out_running"]
      BY <2>3 DEF MarkTimedOut, TimesOutRunning
    <3> QED BY <1>t, <2>3, <3>1
  <2>4. CASE ~(CancelOnTimeout(r) \/ SubmitInline(r) \/ MarkTimedOut(r))
    <3>1. UNCHANGED state
      BY <1>3, <2>4
      DEF Handler, Proceed, Admission, HandleTimeout, Submit, RefuseStopping, Enqueue,
          WakeForSubmit, QuarantineRunning, RefuseQuarantined, RefuseDuplicate, WaitReturns,
          WaitExpires, TimeoutAlreadyExpired, TimeoutOvertaken, CleanupDone,
          OvertakenReturns, HandlerRelease
    <3> QED BY <3>1
  <2> QED BY <2>1, <2>2, <2>3, <2>4
<1>4. ASSUME NEW r \in Requests, CancelSwept(r)  PROVE Ends(q)
  BY <1>2, <1>4 DEF CancelSwept
<1>5. ASSUME NEW k \in Owners, CancelRequest(k)  PROVE Ends(q)
  BY <1>2, <1>5 DEF CancelRequest
<1>6. CASE ExpireInHand  BY <1>1, <1>6 DEF ExpireInHand
<1>7. CASE ProbeRaises
  <2>1. state' = [state EXCEPT ![hand] = "completed"]  BY <1>7 DEF ProbeRaises
  <2> QED BY <1>1, <2>1
<1>8. ASSUME NEW ok \in BOOLEAN, CompleteRunning(ok)  PROVE Ends(q)
  BY <1>1, <1>8 DEF CompleteRunning
<1>9. CASE DeferInHand
  <2>1. /\ accepting /\ state[hand] = "pending"
        /\ state' = [state EXCEPT ![hand] = "deferred"]
    BY <1>9 DEF DeferInHand
  <2> QED BY <1>t, <1>9, <2>1
<1>10. CASE StartInHand
  <2>1. state[hand] = "pending" /\ state' = [state EXCEPT ![hand] = "running"]
    BY <1>10 DEF StartInHand, MayStart
  <2> QED BY <1>t, <1>10, <2>1
<1>11. ASSUME NEW d \in Docs, NotifyStable(d)
       PROVE  /\ q \in deferredRequests /\ d \in keysOf[q]
              /\ state[q] = "deferred" /\ state'[q] = "pending"
  <2> DEFINE promoted == {r \in deferredRequests : d \in keysOf[r] /\ state[r] = "deferred"}
  <2>1. state' = [r \in Requests |-> IF r \in promoted THEN "pending" ELSE state[r]]
    BY <1>11 DEF NotifyStable
  <2>2. state'[q] = IF q \in promoted THEN "pending" ELSE state[q]  BY <2>1
  <2>3. q \in promoted /\ state'[q] = "pending"  BY <2>2
  <2> QED BY <2>3
<1>12. CASE \/ \E r \in Requests : Settle(r) \/ Tick(r)
            \/ StopAccepting \/ PostOwedWake \/ TimerFires
            \/ \E d \in Docs : DocumentChanges(d) \/ NotifyDeleted(d)
            \/ UNCHANGED vars
  <2>1. UNCHANGED state
    BY <1>12 DEF Settle, Tick, StopAccepting, PostOwedWake, TimerFires, DocumentChanges,
                 NotifyDeleted, vars
  <2> QED BY <2>1
<1>13. CASE \/ (\E r \in Requests : DrainTakes(r)) \/ DrainFindsNothing \/ NestedDrain
            \/ ExpiryDone \/ DeadlineHolds \/ SampleBusy \/ SampleFree \/ RequeueBusy
            \/ ProbeDefers \/ ProbeClears \/ ProbeFailureDone \/ StartRefused \/ RunSettled
            \/ GuiRelease \/ RunFinally
  <2>1. UNCHANGED state
    BY <1>13 DEF DrainTakes, DrainFindsNothing, NestedDrain, ExpiryDone, DeadlineHolds,
                 SampleBusy, SampleFree, RequeueBusy, ProbeDefers, ProbeClears,
                 ProbeFailureDone, StartRefused, RunSettled, GuiRelease, RunFinally
  <2> QED BY <2>1
<1>14. CASE Gui
  BY <1>6, <1>7, <1>8, <1>9, <1>10, <1>13, <1>14 DEF Gui, Drain, InHand
<1>15. CASE \E r \in Requests : Handler(r) \/ Settle(r) \/ CancelSwept(r) \/ Tick(r)
  BY <1>3, <1>4, <1>12, <1>15
<1>16. CASE PostOwedWake \/ TimerFires \/ EventLoop \/ Environment
  BY <1>5, <1>11, <1>12, <1>16 DEF EventLoop, Environment
<1> QED BY <1>12, <1>14, <1>15, <1>16 DEF Next

-----------------------------------------------------------------------------
(* What a step may do to the places of requests.                            *)

places == <<requests, deferredRequests, requestsByOwner, swept, hand>>

\* _remove_pending of a request that has ended.
Removes(r) ==
    /\ requests' = Without(requests, r)
    /\ deferredRequests' = deferredRequests \ {r}
    /\ requestsByOwner' = Forget({r})
    /\ state'[r] \in Terminal
    /\ UNCHANGED <<swept, hand>>

\* The owner key of a request that has ended is dropped.
Forgets(r) ==
    /\ requestsByOwner' = Forget({r})
    /\ state'[r] \in Terminal
    /\ UNCHANGED <<requests, deferredRequests, swept, hand>>

\* drain_one is done with a request that has ended.
PutsDown ==
    /\ hand' = NULL
    /\ requestsByOwner' = requestsByOwner \/ requestsByOwner' = Forget({hand})
    /\ state[hand] \in Terminal
    /\ UNCHANGED <<requests, deferredRequests, swept, state>>

\* drain_one gives a request up, to be cancelled outside the lock.
Abandons ==
    /\ hand' = NULL /\ AbandonInHand
    /\ UNCHANGED <<requests, deferredRequests, state>>

\* drain_one puts a request back, to the front of the deque or aside.
Requeues ==
    /\ gui = "requeue" /\ hand' = NULL /\ requests' = RequeueFirst
    /\ accepting /\ state[hand] = "pending"
    /\ UNCHANGED <<deferredRequests, requestsByOwner, swept, state>>

Defers ==
    /\ gui = "defer" /\ hand' = NULL
    /\ deferredRequests' = deferredRequests \cup {hand}
    /\ accepting /\ state[hand] = "pending"
    /\ state' = [state EXCEPT ![hand] = "deferred"]
    /\ UNCHANGED <<requests, requestsByOwner, swept>>

\* Every step moves requests in one of these ways.
LEMMA PlaceSteps ==
    ASSUME ConstantsAssumption, Inductive, QueueInvariant, [Next]_vars
    PROVE  \/ UNCHANGED places
           \/ \E r \in Requests : \/ Enqueue(r) \/ Removes(r) \/ Forgets(r)
                                  \/ CancelSwept(r) \/ DrainTakes(r)
           \/ SweepAll /\ UNCHANGED <<hand, state>>
           \/ hand \in Requests /\ (PutsDown \/ Abandons \/ Requeues \/ Defers)
           \/ \E d \in Docs : NotifyStable(d) \/ NotifyDeleted(d)
<1> USE DEF handlerVars, requestVars, queueVars, coreVars, guiVars, documentVars, historyVars
<1> DEFINE Moves ==
           \/ UNCHANGED places
           \/ \E r \in Requests : \/ Enqueue(r) \/ Removes(r) \/ Forgets(r)
                                  \/ CancelSwept(r) \/ DrainTakes(r)
           \/ SweepAll /\ UNCHANGED <<hand, state>>
           \/ hand \in Requests /\ (PutsDown \/ Abandons \/ Requeues \/ Defers)
           \/ \E d \in Docs : NotifyStable(d) \/ NotifyDeleted(d)
<1> SUFFICES Moves  OBVIOUS
<1>t. /\ state \in [Requests -> RequestStates] /\ (gui # "idle" => hand \in Requests)
      /\ gui \in EndPhases => state[hand] \in Terminal
      /\ \A r \in Requests : settling[r] # "none" => state[r] \in Terminal
  BY LifeTypes DEF Inductive, QueueInvariant, StateAgrees, Settled
<1>1. ASSUME RequestWake, UNCHANGED <<hand, state>>  PROVE Moves
  <2>1. CASE UNCHANGED queueVars  BY <1>1, <2>1 DEF places
  <2>2. CASE FailPendingWakes  BY <1>1, <2>2 DEF FailPendingWakes
  <2> QED BY <1>1, <2>1, <2>2 DEF RequestWake
<1>2. ASSUME NEW r \in Requests, Handler(r)  PROVE Moves
  <2>1. CASE WakeForSubmit(r)
    <3>1. RequestWake /\ UNCHANGED <<hand, state>>  BY <2>1 DEF WakeForSubmit
    <3> QED BY <1>1, <3>1
  <2>2. CASE QuarantineRunning(r)  BY <2>2 DEF QuarantineRunning
  <2>3. CASE Enqueue(r)  BY <2>3
  <2>4. CASE ~(WakeForSubmit(r) \/ QuarantineRunning(r) \/ Enqueue(r))
    <3>1. UNCHANGED places
      BY <1>2, <2>4
      DEF Handler, Proceed, Admission, HandleTimeout, Submit, SubmitInline, RefuseStopping,
          RefuseQuarantined, RefuseDuplicate, WaitReturns, WaitExpires, CancelOnTimeout,
          TimeoutAlreadyExpired, MarkTimedOut, TimeoutOvertaken, CleanupDone,
          OvertakenReturns, HandlerRelease, places
    <3> QED BY <3>1
  <2> QED BY <2>1, <2>2, <2>3, <2>4
<1>3. ASSUME NEW r \in Requests, Settle(r)  PROVE Moves
  <2>1. settling[r] # "none" /\ UNCHANGED <<hand, state>>  BY <1>3 DEF Settle
  <2>2. CASE settling[r] = "remove"
    <3>1. RemovePending(r)  BY <1>3, <2>2 DEF Settle
    <3>2. Removes(r)  BY <1>t, <2>1, <3>1 DEF RemovePending, Removes
    <3> QED BY <3>2
  <2>3. CASE settling[r] # "remove"
    <3>1. ForgetAfterExecution(r)  BY <1>3, <2>3 DEF Settle
    <3>2. Forgets(r)  BY <1>t, <2>1, <3>1 DEF ForgetAfterExecution, Forgets
    <3> QED BY <3>2
  <2> QED BY <2>2, <2>3
<1>4. ASSUME NEW k \in Owners, CancelRequest(k)  PROVE Moves
  <2> DEFINE r == requestsByOwner[k]
  <2>1. r \in Requests /\ hand' = hand
    BY <1>4 DEF CancelRequest, Inductive, Shape, TypeOK
  <2>2. CASE CancelIfPending(r)
    <3>1. state[r] \notin Terminal  BY <2>2 DEF CancelIfPending, Waiting, Terminal
    <3>2. RemovePending(r)  BY <1>4, <3>1 DEF CancelRequest
    <3>3. state'[r] \in Terminal  BY <1>t, <2>1, <2>2 DEF CancelIfPending, Terminal
    <3>4. Removes(r)  BY <2>1, <3>2, <3>3 DEF RemovePending, Removes
    <3> QED BY <2>1, <3>4
  <2>3. CASE ~CancelIfPending(r)
    <3>1. /\ state[r] \in Terminal /\ requestsByOwner' = Forget({r})
          /\ UNCHANGED <<state, requests, deferredRequests, swept>>
      BY <1>4, <2>3 DEF CancelRequest
    <3>2. Forgets(r)  BY <2>1, <3>1 DEF Forgets
    <3> QED BY <2>1, <3>2
  <2> QED BY <2>2, <2>3
<1>5. CASE StopAccepting  BY <1>5 DEF StopAccepting
<1>6. CASE PostOwedWake \/ TimerFires
  <2>1. RequestWake /\ UNCHANGED <<hand, state>>  BY <1>6 DEF PostOwedWake, TimerFires
  <2> QED BY <1>1, <2>1
<1>7. CASE ExpiryDone \/ ProbeFailureDone \/ RunFinally
  <2>1. /\ hand' = NULL /\ gui \in EndPhases
        /\ requestsByOwner' = requestsByOwner \/ requestsByOwner' = Forget({hand})
        /\ UNCHANGED <<requests, deferredRequests, swept, state>>
    BY <1>7 DEF ExpiryDone, ProbeFailureDone, RunFinally, Drained, EndPhases
  <2>2. PutsDown /\ hand \in Requests  BY <1>t, <2>1 DEF PutsDown, EndPhases
  <2> QED BY <2>2
<1>8. CASE RequeueBusy
  <2>1. /\ hand \in Requests /\ gui = "requeue" /\ hand' = NULL
        /\ UNCHANGED <<deferredRequests, state>>
    BY <1>t, <1>8 DEF RequeueBusy, Drained
  <2>2. CASE state[hand] = "pending" /\ accepting
    <3>1. requests' = RequeueFirst /\ UNCHANGED <<requestsByOwner, swept>>
      BY <1>8, <2>2 DEF RequeueBusy
    <3> QED BY <2>1, <2>2, <3>1 DEF Requeues
  <2>3. CASE ~(state[hand] = "pending" /\ accepting)
    <3>1. AbandonInHand /\ UNCHANGED requests  BY <1>8, <2>3 DEF RequeueBusy
    <3> QED BY <2>1, <3>1 DEF Abandons
  <2> QED BY <2>2, <2>3
<1>9. CASE DeferInHand
  <2>1. hand \in Requests /\ gui = "defer" /\ hand' = NULL /\ UNCHANGED requests
    BY <1>t, <1>9 DEF DeferInHand, Drained
  <2>2. CASE accepting /\ state[hand] = "pending"
    <3>1. /\ deferredRequests' = deferredRequests \cup {hand}
          /\ state' = [state EXCEPT ![hand] = "deferred"]
          /\ UNCHANGED <<requestsByOwner, swept>>
      BY <1>9, <2>2 DEF DeferInHand
    <3> QED BY <2>1, <2>2, <3>1 DEF Defers
  <2>3. CASE ~(accepting /\ state[hand] = "pending")
    <3>1. AbandonInHand /\ UNCHANGED <<deferredRequests, state>>
      BY <1>9, <2>3 DEF DeferInHand
    <3> QED BY <2>1, <3>1 DEF Abandons
  <2> QED BY <2>2, <2>3
<1>10. CASE StartRefused
  <2>1. hand \in Requests /\ hand' = NULL  BY <1>t, <1>10 DEF StartRefused, Drained
  <2> QED BY <1>10, <2>1 DEF StartRefused, Abandons
<1>11. CASE \/ (\E r \in Requests : Tick(r)) \/ (\E d \in Docs : DocumentChanges(d))
            \/ DrainFindsNothing \/ NestedDrain \/ ExpireInHand \/ DeadlineHolds
            \/ SampleBusy \/ SampleFree \/ ProbeDefers \/ ProbeClears \/ ProbeRaises
            \/ StartInHand \/ (\E ok \in BOOLEAN : CompleteRunning(ok)) \/ RunSettled
            \/ GuiRelease \/ UNCHANGED vars
  <2>1. UNCHANGED places
    BY <1>11
    DEF Tick, DocumentChanges, DrainFindsNothing, NestedDrain, ExpireInHand, DeadlineHolds,
        SampleBusy, SampleFree, ProbeDefers, ProbeClears, ProbeRaises, StartInHand,
        CompleteRunning, RunSettled, GuiRelease, vars, places
  <2> QED BY <2>1
<1> HIDE DEF Moves
<1>12. CASE \/ \E r \in Requests : CancelSwept(r) \/ DrainTakes(r)
            \/ \E d \in Docs : NotifyStable(d) \/ NotifyDeleted(d)
  BY <1>12 DEF Moves
<1>13. CASE Gui
  BY <1>7, <1>8, <1>9, <1>10, <1>11, <1>12, <1>13 DEF Gui, Drain, InHand
<1>14. CASE \E r \in Requests : Handler(r) \/ Settle(r) \/ CancelSwept(r) \/ Tick(r)
  BY <1>2, <1>3, <1>11, <1>12, <1>14
<1>15. CASE PostOwedWake \/ TimerFires \/ EventLoop \/ Environment
  BY <1>4, <1>5, <1>6, <1>11, <1>12, <1>15 DEF EventLoop, Environment
<1> QED BY <1>11, <1>13, <1>14, <1>15 DEF Next

\* What notify_document_readiness_changed promotes, and what
\* notify_document_deleted takes off the queues.
PromotedBy(d) == {r \in deferredRequests : d \in keysOf[r] /\ state[r] = "deferred"}
ClosedBy(d) == {r \in AllWaiting : d \in keysOf[r]}

\* Promoted requests move to the front of the deque, each once.
LEMMA PromotedPlaces ==
    ASSUME Inductive, Placed, NEW d, NotifyStable(d)
    PROVE  /\ requests' \in Seq(Requests)
           /\ Range(requests') = PromotedBy(d) \cup Range(requests)
           /\ deferredRequests' = deferredRequests \ PromotedBy(d)
           /\ state' = [r \in Requests |-> IF r \in PromotedBy(d) THEN "pending" ELSE state[r]]
           /\ \A a \in Requests : \A b : Ahead(requests', a, b) =>
                 \/ Ahead(requests, a, b)
                 \/ /\ a \in PromotedBy(d) /\ a # b
                    /\ b \in PromotedBy(d) \cup Range(requests)
           /\ Single(requests')
           /\ UNCHANGED <<requestsByOwner, swept, hand>>
<1>1. PromotedBy(d) \in SUBSET Requests /\ IsFiniteSet(PromotedBy(d))
  BY FS_Subset DEF PromotedBy, Inductive, Shape, TypeOK
<1>2. PICK front \in Orderings(PromotedBy(d)) : requests' = front \o requests
  BY DEF NotifyStable, PromoteFirst, PromotedBy
<1>3. front \in Seq(Requests) /\ Range(front) = PromotedBy(d) /\ Single(front)
  BY <1>1, <1>2, OrderingsOrder
<1>4. requests \in Seq(Requests)  BY DEF Inductive, Shape, TypeOK
<1>5. requests' \in Seq(Requests) /\ Range(requests') = PromotedBy(d) \cup Range(requests)
  BY <1>2, <1>3, <1>4, ConcatProperties, RangeConcatenation
<1>6. PromotedBy(d) \cap Range(requests) = {}  BY DEF PromotedBy, Placed
<1>7. ASSUME NEW a \in Requests, NEW b, Ahead(requests', a, b)
      PROVE  \/ Ahead(requests, a, b)
             \/ a \in PromotedBy(d) /\ a # b /\ b \in PromotedBy(d) \cup Range(requests)
  <2>1. \/ Ahead(front, a, b) \/ Ahead(requests, a, b)
        \/ a \in Range(front) /\ b \in Range(requests)
    BY <1>2, <1>3, <1>4, <1>7, AheadConcat
  <2>2. CASE Ahead(front, a, b)  BY <1>3, <2>2, AheadRange DEF Single
  <2>3. CASE a \in Range(front) /\ b \in Range(requests)  BY <1>3, <1>6, <2>3
  <2> QED BY <2>1, <2>2, <2>3
<1>8. Single(requests')
  <2>1. ASSUME NEW a \in Requests, Ahead(requests', a, a)  PROVE FALSE
    BY <1>7, <2>1 DEF Placed, Single
  <2> QED BY <2>1 DEF Single
<1>9. /\ deferredRequests' = deferredRequests \ PromotedBy(d)
      /\ state' = [r \in Requests |-> IF r \in PromotedBy(d) THEN "pending" ELSE state[r]]
      /\ UNCHANGED <<requestsByOwner, swept, hand>>
  BY DEF NotifyStable, PromotedBy
<1> QED BY <1>5, <1>7, <1>8, <1>9

\* What names a closed document leaves both queues, to be cancelled.
LEMMA ClosedPlaces ==
    ASSUME Inductive, NEW d, NotifyDeleted(d)
    PROVE  /\ requests' \in Seq(Requests)
           /\ Range(requests') = Range(requests) \ ClosedBy(d)
           /\ \A a, b : Ahead(requests', a, b) => Ahead(requests, a, b)
           /\ deferredRequests' = deferredRequests \ ClosedBy(d)
           /\ requestsByOwner' = Forget(ClosedBy(d))
           /\ swept' = swept \cup ClosedBy(d)
           /\ UNCHANGED <<hand, state>>
<1>1. /\ requests' \in Retained(d)
      /\ deferredRequests' = deferredRequests \ ClosedBy(d)
      /\ requestsByOwner' = Forget(ClosedBy(d))
      /\ swept' = swept \cup ClosedBy(d)
  BY DEF NotifyDeleted, ClosedBy
<1>2. UNCHANGED <<hand, state>>  BY DEF NotifyDeleted, requestVars
<1>3. requests \in Seq(Requests)  BY DEF Inductive, Shape, TypeOK
<1>4. Range(requests) \subseteq Requests  BY <1>3, RangeOfSeq
<1>5. /\ requests' \in Seq(Requests)
      /\ Range(requests') = {r \in Range(requests) : d \notin keysOf[r]}
      /\ \A a, b : Ahead(requests', a, b) => Ahead(requests, a, b)
  BY <1>1, <1>3, RetainedOrder
<1>6. Range(requests) \subseteq AllWaiting  BY <1>4, InQueueRange DEF AllWaiting
<1> QED BY <1>1, <1>2, <1>5, <1>6 DEF ClosedBy

\* A sweep takes everything that waits.
LEMMA SweptPlaces ==
    ASSUME Inductive, SweepAll
    PROVE  /\ AllWaiting = Range(requests) \cup deferredRequests
           /\ swept' = swept \cup AllWaiting
           /\ requests' = <<>> /\ Range(requests') = {} /\ Single(requests')
           /\ deferredRequests' = {}
           /\ requestsByOwner' = Forget(AllWaiting)
<1>1. requests \in Seq(Requests)  BY DEF Inductive, Shape, TypeOK
<1>2. Range(requests) \subseteq Requests  BY <1>1, RangeOfSeq
<1>3. AllWaiting = Range(requests) \cup deferredRequests
  BY <1>2, InQueueRange DEF AllWaiting
<1>4. Range(<<>>) = {} /\ Single(<<>>)  BY DEF Range, Single, Ahead
<1> QED BY <1>3, <1>4 DEF SweepAll

\* The request that drain_one takes leaves the deque.
LEMMA TakenPlaces ==
    ASSUME Inductive, Placed, NEW r \in Requests, DrainTakes(r)
    PROVE  /\ r \in Range(requests)
           /\ requests' \in Seq(Requests)
           /\ Range(requests') = Range(requests) \ {r}
           /\ \A a, b : Ahead(requests', a, b) =>
                 \/ Ahead(requests, a, b)
                 \/ Ahead(requests, b, r) /\ Ahead(requests, r, a) /\ Ahead(requests, b, a)
           /\ Single(requests')
           /\ hand' = r /\ hand = NULL
           /\ UNCHANGED <<deferredRequests, requestsByOwner, swept, state>>
<1>1. PICK k \in DOMAIN requests :
         /\ requests[k] = r
         /\ requests' = SubSeq(requests, k + 1, Len(requests)) \o SubSeq(requests, 1, k - 1)
  BY DEF DrainTakes, Take
<1>2. requests \in Seq(Requests) /\ Single(requests)
  BY DEF Inductive, Shape, TypeOK, Placed
<1>3. /\ requests' \in Seq(Requests)
      /\ Range(requests') = Range(requests) \ {r}
      /\ \A a, b : Ahead(requests', a, b) =>
            \/ Ahead(requests, a, b)
            \/ Ahead(requests, b, r) /\ Ahead(requests, r, a) /\ Ahead(requests, b, a)
  BY <1>1, <1>2, TakenOrder
<1>4. Single(requests')  BY <1>2, <1>3 DEF Single
<1>5. /\ hand' = r /\ gui = "idle"
      /\ UNCHANGED <<deferredRequests, requestsByOwner, swept, state>>
  BY DEF DrainTakes, MayDrain, requestVars
<1>6. hand = NULL  BY <1>5 DEF Inductive, Shape, HandOK
<1> QED BY <1>1, <1>3, <1>4, <1>5, <1>6 DEF Range

\* A request that is admitted goes to the end of the deque.
LEMMA EnqueuedPlaces ==
    ASSUME Inductive, NEW r \in Requests, Enqueue(r)
    PROVE  /\ r \notin Known /\ state[r] = "pending"
           /\ requests' \in Seq(Requests)
           /\ Range(requests') = Range(requests) \cup {r}
           /\ \A a, b : Ahead(requests', a, b) =>
                 Ahead(requests, a, b) \/ (a \in Range(requests) /\ b = r)
           /\ requestsByOwner' = [k \in Owners |-> IF k = ownerOf[r] THEN r
                                                   ELSE requestsByOwner[k]]
           /\ UNCHANGED <<deferredRequests, swept, hand, state>>
<1>1. requests' = Append(requests, r)  BY DEF Enqueue
<1>2. requests \in Seq(Requests)  BY DEF Inductive, Shape, TypeOK
<1>3. r \notin Known /\ state[r] = "pending"
  BY DEF Enqueue, Inductive, Life, FreshIsUntouched, Fresh
<1>4. /\ requestsByOwner' = [k \in Owners |-> IF k = ownerOf[r] THEN r
                                              ELSE requestsByOwner[k]]
      /\ UNCHANGED <<deferredRequests, swept, hand, state>>
  BY DEF Enqueue, requestVars, guiVars
<1> QED BY <1>1, <1>2, <1>3, <1>4, AppendedOrder

\* A removal takes one request off both queues.
LEMMA RemovedPlaces ==
    ASSUME Inductive, Placed, NEW r, Removes(r)
    PROVE  /\ requests' \in Seq(Requests)
           /\ Range(requests') = Range(requests) \ {r}
           /\ \A a, b : Ahead(requests', a, b) => Ahead(requests, a, b)
           /\ Single(requests')
<1>1. requests \in Seq(Requests) /\ Single(requests)
  BY DEF Inductive, Shape, TypeOK, Placed
<1> QED BY <1>1, WithoutOrder DEF Removes, Single

-----------------------------------------------------------------------------
(* The places stay apart.                                                   *)

\* No step puts a request in two places.
LEMMA PlacedNext ==
    ASSUME ConstantsAssumption, Inductive, QueueInvariant, [Next]_vars
    PROVE  Placed'
<1>p. Placed  BY DEF QueueInvariant
<1>n. /\ NULL \notin Requests /\ Range(requests) \subseteq Requests
      /\ deferredRequests \subseteq Requests /\ swept \subseteq Requests
      /\ requests \in Seq(Requests)
  BY RangeOfSeq DEF ConstantsAssumption, Inductive, Shape, TypeOK
<1>1. CASE UNCHANGED places  BY <1>p, <1>1 DEF Placed, places
<1>2. ASSUME NEW r \in Requests, Enqueue(r)  PROVE Placed'
  <2>1. r \notin Range(requests) \cup deferredRequests \cup swept \cup {hand}
    BY <1>2, EnqueuedPlaces DEF Known
  <2>2. /\ Range(requests') = Range(requests) \cup {r}
        /\ \A a, b : Ahead(requests', a, b) =>
              Ahead(requests, a, b) \/ (a \in Range(requests) /\ b = r)
        /\ UNCHANGED <<deferredRequests, swept, hand>>
    BY <1>2, EnqueuedPlaces
  <2>3. Single(requests')  BY <1>p, <2>1, <2>2 DEF Single, Placed
  <2> QED BY <1>p, <2>1, <2>2, <2>3 DEF Placed
<1>3. ASSUME NEW r \in Requests, Removes(r)  PROVE Placed'
  BY <1>p, <1>3, RemovedPlaces DEF Placed, Removes
<1>4. ASSUME NEW r \in Requests, Forgets(r)  PROVE Placed'
  BY <1>p, <1>4 DEF Placed, Forgets
<1>5. ASSUME NEW r \in Requests, CancelSwept(r)  PROVE Placed'
  <2>1. swept' = swept \ {r} /\ UNCHANGED <<requests, deferredRequests, hand>>
    BY <1>5 DEF CancelSwept, guiVars
  <2> QED BY <1>p, <2>1 DEF Placed
<1>6. ASSUME NEW r \in Requests, DrainTakes(r)  PROVE Placed'
  BY <1>p, <1>6, TakenPlaces DEF Placed
<1>7. CASE SweepAll /\ UNCHANGED <<hand, state>>
  BY <1>p, <1>7, SweptPlaces DEF Placed
<1>8. CASE PutsDown  BY <1>p, <1>n, <1>8 DEF Placed, PutsDown
<1>9. CASE hand \in Requests /\ Abandons
  BY <1>p, <1>n, <1>9 DEF Placed, Abandons, AbandonInHand
<1>10. CASE hand \in Requests /\ Requeues
  <2>1. requests' = <<hand>> \o requests /\ hand' = NULL /\ UNCHANGED <<deferredRequests, swept>>
    BY <1>10 DEF Requeues, RequeueFirst
  <2>2. /\ Range(requests') = Range(requests) \cup {hand}
        /\ \A a, b : Ahead(requests', a, b) =>
              Ahead(requests, a, b) \/ (a = hand /\ b \in Range(requests))
    BY <1>n, <1>10, <2>1, RequeuedOrder
  <2>3. hand \notin Range(requests) \cup deferredRequests \cup swept  BY <1>p DEF Placed
  <2>4. Single(requests')  BY <1>p, <2>2, <2>3 DEF Placed, Single
  <2> QED BY <1>p, <1>n, <1>10, <2>1, <2>2, <2>3, <2>4 DEF Placed
<1>11. CASE hand \in Requests /\ Defers
  BY <1>p, <1>n, <1>11 DEF Placed, Defers
<1>12. ASSUME NEW d \in Docs, NotifyStable(d)  PROVE Placed'
  <2>1. PromotedBy(d) \subseteq deferredRequests  BY DEF PromotedBy
  <2> QED BY <1>p, <1>12, <2>1, PromotedPlaces DEF Placed
<1>13. ASSUME NEW d \in Docs, NotifyDeleted(d)  PROVE Placed'
  <2>1. ClosedBy(d) \subseteq Range(requests) \cup deferredRequests
    BY InQueueRange DEF ClosedBy, AllWaiting
  <2>2. Single(requests')  BY <1>p, <1>13, ClosedPlaces DEF Placed, Single
  <2> QED BY <1>p, <1>13, <2>1, <2>2, ClosedPlaces DEF Placed
<1> QED BY <1>1, <1>2, <1>3, <1>4, <1>5, <1>6, <1>7, <1>8, <1>9, <1>10, <1>11, <1>12,
           <1>13, PlaceSteps

\* Work that may start keeps its key, and swept work gets none.
LEMMA KeyedNext ==
    ASSUME ConstantsAssumption, Inductive, QueueInvariant, [Next]_vars
    PROVE  Keyed'
<1>p. Placed /\ Keyed  BY DEF QueueInvariant
<1>n. /\ NULL \notin Requests /\ Range(requests) \subseteq Requests
      /\ deferredRequests \subseteq Requests /\ swept \subseteq Requests
      /\ requests \in Seq(Requests)
      /\ \A r \in Requests : ownerOf[r] \in Owners \cup {NULL}
      /\ requestsByOwner \in [Owners -> Requests \cup {NULL}]
  BY RangeOfSeq DEF ConstantsAssumption, Inductive, Shape, TypeOK
<1>f. \A r \in Requests : state'[r] \notin Terminal => state[r] \notin Terminal
  BY ExecutionNext DEF Final, Inductive
<1>1. CASE UNCHANGED places  BY <1>p, <1>f, <1>1 DEF Keyed, NoKey, places
<1>2. ASSUME NEW r \in Requests, Enqueue(r)  PROVE Keyed'
  <2>1. r \notin swept /\ state[r] = "pending"  BY <1>2, EnqueuedPlaces DEF Known
  <2>2. /\ Range(requests') = Range(requests) \cup {r}
        /\ requestsByOwner' = [k \in Owners |-> IF k = ownerOf[r] THEN r
                                                ELSE requestsByOwner[k]]
        /\ UNCHANGED <<deferredRequests, swept, hand, state>>
    BY <1>2, EnqueuedPlaces
  <2>3. \/ ownerOf[r] = NULL \/ requestsByOwner[ownerOf[r]] = NULL
        \/ state[requestsByOwner[ownerOf[r]]] \in Terminal
    BY <1>2 DEF Enqueue, Duplicate, Terminal
  <2>4. ASSUME NEW q \in Requests, ownerOf[q] # NULL, state[q] \notin Terminal,
               q \in Range(requests') \cup deferredRequests' \cup {hand'}
        PROVE  requestsByOwner'[ownerOf[q]] = q
    <3>1. CASE q = r  BY <1>n, <2>2, <2>4, <3>1
    <3>2. CASE q # r
      <4>1. requestsByOwner[ownerOf[q]] = q  BY <1>p, <2>2, <2>4, <3>2 DEF Keyed
      <4>2. ownerOf[q] # ownerOf[r]  BY <1>n, <2>3, <2>4, <4>1
      <4> QED BY <1>n, <2>2, <2>4, <4>1, <4>2
    <3> QED BY <3>1, <3>2
  <2>5. \A q \in swept : NoKey(q)'  BY <1>p, <2>1, <2>2 DEF Keyed, NoKey
  <2> QED BY <2>2, <2>4, <2>5 DEF Keyed
<1>3. ASSUME NEW r \in Requests, Removes(r)  PROVE Keyed'
  <2>1. /\ Range(requests') = Range(requests) \ {r}
        /\ deferredRequests' = deferredRequests \ {r} /\ requestsByOwner' = Forget({r})
        /\ state'[r] \in Terminal /\ UNCHANGED <<swept, hand>>
    BY <1>p, <1>3, RemovedPlaces DEF Removes
  <2> QED BY <1>p, <1>n, <1>f, <2>1 DEF Keyed, NoKey, Forget
<1>4. ASSUME NEW r \in Requests, Forgets(r)  PROVE Keyed'
  BY <1>p, <1>n, <1>f, <1>4 DEF Keyed, NoKey, Forgets, Forget
<1>5. ASSUME NEW r \in Requests, CancelSwept(r)  PROVE Keyed'
  <2>1. /\ swept' = swept \ {r}
        /\ UNCHANGED <<requests, deferredRequests, requestsByOwner, hand>>
    BY <1>5 DEF CancelSwept, guiVars
  <2> QED BY <1>p, <1>f, <2>1 DEF Keyed, NoKey
<1>6. ASSUME NEW r \in Requests, DrainTakes(r)  PROVE Keyed'
  BY <1>p, <1>6, TakenPlaces DEF Keyed, NoKey
<1>7. CASE SweepAll /\ UNCHANGED <<hand, state>>
  BY <1>p, <1>n, <1>7, SweptPlaces DEF Keyed, NoKey, Forget, Placed
<1>8. CASE PutsDown
  <2>1. hand \notin Range(requests) \cup deferredRequests  BY <1>p DEF Placed
  <2> QED BY <1>p, <1>n, <1>8, <2>1 DEF Keyed, NoKey, PutsDown, Forget
<1>9. CASE hand \in Requests /\ Abandons
  <2>1. hand \notin Range(requests) \cup deferredRequests  BY <1>p DEF Placed
  <2> QED BY <1>p, <1>n, <1>9, <2>1 DEF Keyed, NoKey, Abandons, AbandonInHand, Forget
<1>10. CASE hand \in Requests /\ Requeues
  <2>1. Range(requests') = Range(requests) \cup {hand}
    BY <1>n, <1>10, RequeuedOrder DEF Requeues, RequeueFirst
  <2> QED BY <1>p, <1>n, <1>10, <2>1 DEF Keyed, NoKey, Requeues
<1>11. CASE hand \in Requests /\ Defers
  BY <1>p, <1>n, <1>f, <1>11 DEF Keyed, NoKey, Defers
<1>12. ASSUME NEW d \in Docs, NotifyStable(d)  PROVE Keyed'
  <2>1. PromotedBy(d) \subseteq deferredRequests  BY DEF PromotedBy
  <2> QED BY <1>p, <1>f, <1>12, <2>1, PromotedPlaces DEF Keyed, NoKey
<1>13. ASSUME NEW d \in Docs, NotifyDeleted(d)  PROVE Keyed'
  <2>1. ClosedBy(d) \subseteq Range(requests) \cup deferredRequests
    BY InQueueRange DEF ClosedBy, AllWaiting
  <2>2. hand \notin ClosedBy(d)  BY <1>p, <2>1 DEF Placed
  <2> QED BY <1>p, <1>n, <1>13, <2>1, <2>2, ClosedPlaces DEF Keyed, NoKey, Forget
<1> QED BY <1>1, <1>2, <1>3, <1>4, <1>5, <1>6, <1>7, <1>8, <1>9, <1>10, <1>11, <1>12,
           <1>13, PlaceSteps

-----------------------------------------------------------------------------
(* The end of a request.                                                    *)

\* drain_one moves on only by its own steps.
LEMMA GuiSteps ==
    ASSUME [Next]_vars
    PROVE  \/ UNCHANGED <<gui, hand>>
           \/ (\E r \in Requests : DrainTakes(r))
           \/ ExpireInHand \/ ExpiryDone \/ DeadlineHolds \/ SampleBusy \/ SampleFree
           \/ RequeueBusy \/ ProbeDefers \/ ProbeClears \/ ProbeRaises \/ ProbeFailureDone
           \/ DeferInHand \/ StartInHand \/ StartRefused
           \/ (\E ok \in BOOLEAN : CompleteRunning(ok))
           \/ RunSettled \/ GuiRelease \/ RunFinally
<1> USE DEF handlerVars, requestVars, queueVars, coreVars, guiVars, documentVars, historyVars
<1>1. ASSUME NEW r \in Requests, Handler(r)  PROVE UNCHANGED <<gui, hand>>
  BY <1>1
  DEF Handler, Proceed, Admission, HandleTimeout, Submit, SubmitInline, RefuseStopping,
      RefuseQuarantined, RefuseDuplicate, Enqueue, WakeForSubmit, WaitReturns, WaitExpires,
      CancelOnTimeout, TimeoutAlreadyExpired, MarkTimedOut, TimeoutOvertaken, CleanupDone,
      QuarantineRunning, OvertakenReturns, HandlerRelease
<1>2. CASE \/ \E r \in Requests : Settle(r) \/ CancelSwept(r) \/ Tick(r)
           \/ PostOwedWake \/ TimerFires
           \/ \E k \in Owners : CancelRequest(k)
           \/ StopAccepting
           \/ \E d \in Docs : DocumentChanges(d) \/ NotifyStable(d) \/ NotifyDeleted(d)
           \/ DrainFindsNothing \/ NestedDrain \/ UNCHANGED vars
  BY <1>2
  DEF Settle, CancelSwept, Tick, PostOwedWake, TimerFires, CancelRequest, StopAccepting,
      DocumentChanges, NotifyStable, NotifyDeleted, DrainFindsNothing, NestedDrain, vars
<1> QED BY <1>1, <1>2 DEF Next, Gui, Drain, InHand, EventLoop, Environment

\* The steps that owe a request its settlement, or pay it.
LEMMA SettlingSteps ==
    ASSUME [Next]_vars, settling' # settling
    PROVE  \/ \E r \in Requests : CancelOnTimeout(r) \/ Settle(r)
           \/ ExpireInHand \/ ProbeRaises \/ (\E ok \in BOOLEAN : CompleteRunning(ok))
<1> USE DEF handlerVars, requestVars, queueVars, coreVars, guiVars, documentVars, historyVars
<1>1. ASSUME NEW r \in Requests, Handler(r)  PROVE CancelOnTimeout(r)
  BY <1>1
  DEF Handler, Proceed, Admission, HandleTimeout, Submit, SubmitInline, RefuseStopping,
      RefuseQuarantined, RefuseDuplicate, Enqueue, WakeForSubmit, WaitReturns, WaitExpires,
      TimeoutAlreadyExpired, MarkTimedOut, TimeoutOvertaken, CleanupDone,
      QuarantineRunning, OvertakenReturns, HandlerRelease
<1>2. CASE \/ \E r \in Requests : CancelSwept(r) \/ Tick(r)
           \/ PostOwedWake \/ TimerFires
           \/ \E k \in Owners : CancelRequest(k)
           \/ StopAccepting
           \/ \E d \in Docs : DocumentChanges(d) \/ NotifyStable(d) \/ NotifyDeleted(d)
           \/ DrainFindsNothing \/ NestedDrain \/ UNCHANGED vars
  BY <1>2
  DEF CancelSwept, Tick, PostOwedWake, TimerFires, CancelRequest, StopAccepting,
      DocumentChanges, NotifyStable, NotifyDeleted, DrainFindsNothing, NestedDrain, vars
<1>3. CASE \/ (\E r \in Requests : DrainTakes(r))
           \/ ExpiryDone \/ DeadlineHolds \/ SampleBusy \/ SampleFree \/ RequeueBusy
           \/ ProbeDefers \/ ProbeClears \/ ProbeFailureDone \/ DeferInHand \/ StartInHand
           \/ StartRefused \/ RunSettled \/ GuiRelease \/ RunFinally
  BY <1>3
  DEF DrainTakes, ExpiryDone, DeadlineHolds, SampleBusy, SampleFree, RequeueBusy,
      ProbeDefers, ProbeClears, ProbeFailureDone, DeferInHand, StartInHand, StartRefused,
      RunSettled, GuiRelease, RunFinally
<1> QED BY <1>1, <1>2, <1>3 DEF Next, Gui, Drain, InHand, EventLoop, Environment

\* How a step may settle a request: not at all, by ending it and owing it the
\* rest, by ending and settling it at once, or by paying what is owed.
LEMMA EndSteps ==
    ASSUME ConstantsAssumption, Inductive, QueueInvariant, [Next]_vars, NEW q \in Requests
    PROVE  \/ /\ state'[q] \in Terminal <=> state[q] \in Terminal
              /\ completion'[q] = completion[q] /\ settling'[q] = settling[q]
              /\ notified'[q] = notified[q]
           \/ /\ state[q] \notin Terminal /\ state'[q] \in Terminal
              /\ completion'[q] = completion[q] /\ settling'[q] \in {"remove", "forget"}
              /\ notified'[q] = notified[q]
           \/ /\ state[q] \notin Terminal /\ state'[q] \in Terminal
              /\ completion'[q] /\ settling'[q] = settling[q]
              /\ notified'[q] = notified[q] + 1
              /\ \/ SubmitInline(q) \/ CancelSwept(q)
                 \/ \E k \in Owners : CancelRequest(k) /\ requestsByOwner[k] = q
           \/ /\ state'[q] = state[q] /\ settling[q] # "none"
              /\ completion'[q] /\ settling'[q] = "none"
              /\ notified'[q] = notified[q] + 1
              /\ Settle(q)
<1> USE DEF handlerVars, requestVars, queueVars, coreVars, guiVars, documentVars, historyVars,
            Terminal, Waiting
<1> DEFINE Books == <<completion, settling, notified>>
           Same ==
              /\ state'[q] \in Terminal <=> state[q] \in Terminal
              /\ completion'[q] = completion[q] /\ settling'[q] = settling[q]
              /\ notified'[q] = notified[q]
           Owed ==
              /\ state[q] \notin Terminal /\ state'[q] \in Terminal
              /\ completion'[q] = completion[q] /\ settling'[q] \in {"remove", "forget"}
              /\ notified'[q] = notified[q]
           AtOnce ==
              /\ state[q] \notin Terminal /\ state'[q] \in Terminal
              /\ completion'[q] /\ settling'[q] = settling[q]
              /\ notified'[q] = notified[q] + 1
           Paid ==
              /\ state'[q] = state[q] /\ settling[q] # "none"
              /\ completion'[q] /\ settling'[q] = "none"
              /\ notified'[q] = notified[q] + 1
<1>t. /\ state \in [Requests -> RequestStates] /\ completion \in [Requests -> BOOLEAN]
      /\ settling \in [Requests -> {"none", "remove", "forget"}]
      /\ notified \in [Requests -> Nat] /\ (gui # "idle" => hand \in Requests)
  BY LifeTypes DEF Inductive, Shape, TypeOK
<1>1. CASE UNCHANGED <<state, completion, settling, notified>>  BY <1>1
<1>2. ASSUME NEW x, NEW new, state' = [state EXCEPT ![x] = new],
             state[x] \notin Terminal <=> new \notin Terminal, UNCHANGED Books
      PROVE  Same
  BY <1>t, <1>2
<1>3. ASSUME NEW x, NEW new \in Terminal, NEW how \in {"remove", "forget"},
             state' = [state EXCEPT ![x] = new], settling' = [settling EXCEPT ![x] = how],
             state[x] \notin Terminal, UNCHANGED <<completion, notified>>
      PROVE  Same \/ Owed
  BY <1>t, <1>3
<1>4. ASSUME NEW x, NEW new \in Terminal,
             state' = [state EXCEPT ![x] = new], UNCHANGED settling,
             completion' = [completion EXCEPT ![x] = TRUE],
             notified' = [notified EXCEPT ![x] = @ + 1],
             state[x] \notin Terminal
      PROVE  Same \/ (AtOnce /\ q = x)
  BY <1>t, <1>4
<1>5. ASSUME NEW x, UNCHANGED state, settling[x] # "none",
             completion' = [completion EXCEPT ![x] = TRUE],
             settling' = [settling EXCEPT ![x] = "none"],
             notified' = [notified EXCEPT ![x] = @ + 1]
      PROVE  Same \/ (Paid /\ q = x)
  BY <1>t, <1>5
<1>6. ASSUME NEW r \in Requests, Handler(r)
      PROVE  Same \/ Owed \/ (AtOnce /\ SubmitInline(q))
  <2>1. CASE CancelOnTimeout(r)
    <3>1. /\ state[r] \notin Terminal /\ state' = [state EXCEPT ![r] = "cancelled"]
          /\ settling' = [settling EXCEPT ![r] = "remove"]
          /\ UNCHANGED <<completion, notified>>
      BY <2>1 DEF CancelOnTimeout, CancelIfPending
    <3> QED BY <1>3, <3>1
  <2>2. CASE SubmitInline(r)
    <3>1. state[r] = "pending"
      BY <2>2 DEF SubmitInline, Inductive, Life, FreshIsUntouched, Fresh
    <3>2. CASE UNCHANGED <<state, completion, notified>>
      BY <2>2, <3>2 DEF SubmitInline
    <3>3. CASE ~UNCHANGED <<state, completion, notified>>
      <4>1. /\ state' = [state EXCEPT ![r] = "completed"]
            /\ completion' = [completion EXCEPT ![r] = TRUE]
            /\ notified' = [notified EXCEPT ![r] = @ + 1]
            /\ UNCHANGED settling
        BY <2>2, <3>3 DEF SubmitInline
      <4> HIDE DEF Same, Owed, AtOnce
      <4>2. Same \/ (AtOnce /\ q = r)  BY <1>4, <3>1, <4>1
      <4> QED BY <2>2, <4>2
    <3> QED BY <3>2, <3>3
  <2>3. CASE MarkTimedOut(r)
    <3>1. /\ state[r] = "running" /\ state' = [state EXCEPT ![r] = "timed_out_running"]
          /\ UNCHANGED Books
      BY <2>3 DEF MarkTimedOut, TimesOutRunning
    <3> QED BY <1>2, <3>1
  <2>4. CASE ~(CancelOnTimeout(r) \/ SubmitInline(r) \/ MarkTimedOut(r))
    <3>1. UNCHANGED <<state, completion, settling, notified>>
      BY <1>6, <2>4
      DEF Handler, Proceed, Admission, HandleTimeout, Submit, RefuseStopping, Enqueue,
          WakeForSubmit, QuarantineRunning, RefuseQuarantined, RefuseDuplicate, WaitReturns,
          WaitExpires, TimeoutAlreadyExpired, TimeoutOvertaken, CleanupDone,
          OvertakenReturns, HandlerRelease
    <3> QED BY <3>1
  <2> QED BY <2>1, <2>2, <2>3, <2>4
<1>7. ASSUME NEW r \in Requests, Settle(r)  PROVE Same \/ (Paid /\ Settle(q))
  <2>1. /\ UNCHANGED state /\ settling[r] # "none"
        /\ completion' = [completion EXCEPT ![r] = TRUE]
        /\ settling' = [settling EXCEPT ![r] = "none"]
        /\ notified' = [notified EXCEPT ![r] = @ + 1]
    BY <1>7 DEF Settle
  <2> HIDE DEF Same, Paid
  <2>2. Same \/ (Paid /\ q = r)  BY <1>5, <2>1
  <2> QED BY <1>7, <2>2
<1>8. ASSUME NEW r \in Requests, CancelSwept(r)  PROVE Same \/ (AtOnce /\ CancelSwept(q))
  <2>1. CASE CancelIfPending(r)
    <3>1. /\ state[r] \notin Terminal /\ state' = [state EXCEPT ![r] = "cancelled"]
          /\ completion' = [completion EXCEPT ![r] = TRUE]
          /\ notified' = [notified EXCEPT ![r] = @ + 1]
          /\ UNCHANGED settling
      BY <1>8, <2>1 DEF CancelSwept, CancelIfPending
    <3> HIDE DEF Same, AtOnce
    <3>2. Same \/ (AtOnce /\ q = r)  BY <1>4, <3>1
    <3> QED BY <1>8, <3>2
  <2>2. CASE ~CancelIfPending(r)
    <3>1. UNCHANGED <<state, completion, settling, notified>>
      BY <1>8, <2>2 DEF CancelSwept
    <3> QED BY <3>1
  <2> QED BY <2>1, <2>2
<1>9. ASSUME NEW k \in Owners, CancelRequest(k)
      PROVE  Same \/ (AtOnce /\ requestsByOwner[k] = q)
  <2> DEFINE r == requestsByOwner[k]
  <2>1. CASE CancelIfPending(r)
    <3>1. /\ state[r] \notin Terminal /\ state' = [state EXCEPT ![r] = "cancelled"]
      BY <2>1 DEF CancelIfPending
    <3>2. /\ completion' = [completion EXCEPT ![r] = TRUE]
          /\ notified' = [notified EXCEPT ![r] = @ + 1]
          /\ UNCHANGED settling
      BY <1>9, <3>1 DEF CancelRequest
    <3> HIDE DEF Same, AtOnce
    <3> QED BY <1>4, <3>1, <3>2
  <2>2. CASE ~CancelIfPending(r)
    <3>1. UNCHANGED <<state, completion, settling, notified>>
      BY <1>9, <2>2 DEF CancelRequest
    <3> QED BY <3>1
  <2> QED BY <2>1, <2>2
<1>10. CASE ExpireInHand
  <2>1. /\ state[hand] \notin Terminal /\ state' = [state EXCEPT ![hand] = "timed_out_pending"]
        /\ settling' = [settling EXCEPT ![hand] = "remove"]
        /\ UNCHANGED <<completion, notified>>
    BY <1>10 DEF ExpireInHand
  <2> QED BY <1>3, <2>1
<1>11. CASE ProbeRaises
  <2>1. CASE Completes(hand)
    <3>1. /\ state[hand] \notin Terminal /\ state' = [state EXCEPT ![hand] = "completed"]
          /\ settling' = [settling EXCEPT ![hand] = "forget"]
          /\ UNCHANGED <<completion, notified>>
      BY <1>11, <2>1 DEF ProbeRaises, Completes
    <3> QED BY <1>3, <3>1
  <2>2. CASE ~Completes(hand)  BY <1>11, <2>2 DEF ProbeRaises
  <2> QED BY <2>1, <2>2
<1>12. ASSUME NEW ok \in BOOLEAN, CompleteRunning(ok)  PROVE Same \/ Owed
  <2>1. gui = "run" /\ hand \in Requests  BY <1>t, <1>12 DEF CompleteRunning, GuiAt
  <2>2. state[hand] \notin Terminal
    BY <2>1 DEF Inductive, Life, RunningInHand, Occupying
  <2>3. /\ state' = [state EXCEPT ![hand] = "completed"]
        /\ settling' = [settling EXCEPT ![hand] = "forget"]
        /\ UNCHANGED <<completion, notified>>
    BY <1>12 DEF CompleteRunning
  <2> QED BY <1>3, <2>2, <2>3
<1>13. CASE DeferInHand
  <2>1. CASE accepting /\ state[hand] = "pending"
    <3>1. state' = [state EXCEPT ![hand] = "deferred"] /\ UNCHANGED Books
      BY <1>13, <2>1 DEF DeferInHand
    <3> QED BY <1>2, <2>1, <3>1
  <2>2. CASE ~(accepting /\ state[hand] = "pending")  BY <1>13, <2>2 DEF DeferInHand
  <2> QED BY <2>1, <2>2
<1>14. CASE StartInHand
  <2>1. /\ state[hand] = "pending" /\ state' = [state EXCEPT ![hand] = "running"]
        /\ UNCHANGED Books
    BY <1>14 DEF StartInHand, MayStart
  <2> QED BY <1>2, <2>1
<1>15. ASSUME NEW d \in Docs, NotifyStable(d)  PROVE Same
  <2>1. /\ state' = [r \in Requests |-> IF r \in PromotedBy(d) THEN "pending" ELSE state[r]]
        /\ UNCHANGED Books
    BY <1>15 DEF NotifyStable, PromotedBy
  <2>2. \A r \in PromotedBy(d) : state[r] = "deferred"  BY DEF PromotedBy
  <2> QED BY <1>t, <2>1, <2>2
<1>16. CASE \/ \E r \in Requests : Tick(r)
            \/ StopAccepting \/ PostOwedWake \/ TimerFires
            \/ \E d \in Docs : DocumentChanges(d) \/ NotifyDeleted(d)
            \/ UNCHANGED vars
  <2>1. UNCHANGED <<state, completion, settling, notified>>
    BY <1>16 DEF Tick, StopAccepting, PostOwedWake, TimerFires, DocumentChanges,
                 NotifyDeleted, vars
  <2> QED BY <2>1
<1>17. CASE \/ (\E r \in Requests : DrainTakes(r)) \/ DrainFindsNothing \/ NestedDrain
            \/ ExpiryDone \/ DeadlineHolds \/ SampleBusy \/ SampleFree \/ RequeueBusy
            \/ ProbeDefers \/ ProbeClears \/ ProbeFailureDone \/ StartRefused \/ RunSettled
            \/ GuiRelease \/ RunFinally
  <2>1. UNCHANGED <<state, completion, settling, notified>>
    BY <1>17 DEF DrainTakes, DrainFindsNothing, NestedDrain, ExpiryDone, DeadlineHolds,
                 SampleBusy, SampleFree, RequeueBusy, ProbeDefers, ProbeClears,
                 ProbeFailureDone, StartRefused, RunSettled, GuiRelease, RunFinally
  <2> QED BY <2>1
<1>18. CASE Gui
  BY <1>10, <1>11, <1>12, <1>13, <1>14, <1>17, <1>18 DEF Gui, Drain, InHand
<1>19. CASE \E r \in Requests : Handler(r) \/ Settle(r) \/ CancelSwept(r) \/ Tick(r)
  BY <1>6, <1>7, <1>8, <1>16, <1>19
<1>20. CASE PostOwedWake \/ TimerFires \/ EventLoop \/ Environment
  BY <1>9, <1>15, <1>16, <1>20 DEF EventLoop, Environment
<1> QED BY <1>16, <1>18, <1>19, <1>20 DEF Next

\* What has ended is settled once, by the thread that ended it.
LEMMA SettledNext ==
    ASSUME ConstantsAssumption, Inductive, QueueInvariant, [Next]_vars
    PROVE  Settled'
<1> SUFFICES ASSUME NEW q \in Requests
             PROVE  /\ state'[q] \in Terminal <=> completion'[q] \/ settling'[q] # "none"
                    /\ ~(completion'[q] /\ settling'[q] # "none")
                    /\ notified'[q] = IF completion'[q] THEN 1 ELSE 0
                    /\ settling'[q] = "forget" =>
                          hand' = q /\ gui' \in {"completing", "failed"}
                          /\ state'[q] = "completed"
  BY DEF Settled
<1>s. /\ state[q] \in Terminal <=> completion[q] \/ settling[q] # "none"
      /\ ~(completion[q] /\ settling[q] # "none")
      /\ notified[q] = IF completion[q] THEN 1 ELSE 0
      /\ settling[q] = "forget" =>
            hand = q /\ gui \in {"completing", "failed"} /\ state[q] = "completed"
  BY DEF QueueInvariant, Settled
<1>t. /\ completion \in [Requests -> BOOLEAN] /\ completion' \in [Requests -> BOOLEAN]
      /\ settling \in [Requests -> {"none", "remove", "forget"}]
      /\ gui # "idle" => hand \in Requests
  BY LifeTypes, ShapeNext DEF Inductive, Shape, TypeOK
<1>1. /\ state'[q] \in Terminal <=> completion'[q] \/ settling'[q] # "none"
      /\ ~(completion'[q] /\ settling'[q] # "none")
      /\ notified'[q] = IF completion'[q] THEN 1 ELSE 0
  BY <1>s, <1>t, EndSteps
<1>2. ASSUME settling[q] = "forget", settling'[q] = "forget"
      PROVE  hand' = q /\ gui' \in {"completing", "failed"} /\ state'[q] = "completed"
  <2>1. state'[q] = "completed"
    BY <1>s, <1>2, ExecutionNext DEF Final, Inductive, Terminal
  <2>2. ~ProbeFailureDone /\ ~RunSettled
    BY <1>s, <1>2 DEF ProbeFailureDone, RunSettled
  <2>3. UNCHANGED <<gui, hand>>
    BY <1>s, <1>2, <2>2, GuiSteps
    DEF DrainTakes, MayDrain, ExpireInHand, ExpiryDone, DeadlineHolds, SampleBusy,
        SampleFree, RequeueBusy, ProbeDefers, ProbeClears, ProbeRaises, DeferInHand,
        StartInHand, StartRefused, CompleteRunning, GuiRelease, RunFinally, GuiAt, Drained
  <2> QED BY <1>s, <1>2, <2>1, <2>3
<1>3. ASSUME settling[q] # "forget", settling'[q] = "forget"
      PROVE  hand' = q /\ gui' \in {"completing", "failed"} /\ state'[q] = "completed"
  <2>1. ProbeRaises \/ (\E ok \in BOOLEAN : CompleteRunning(ok))
    <3>1. settling' # settling  BY <1>3
    <3>2. ASSUME NEW x, NEW how \in {"remove", "none"}, settling' = [settling EXCEPT ![x] = how]
          PROVE  FALSE
      BY <1>t, <1>3, <3>2
    <3>3. CASE \E r \in Requests : CancelOnTimeout(r) \/ Settle(r)
      BY <3>2, <3>3 DEF CancelOnTimeout, Settle
    <3>4. CASE ExpireInHand  BY <3>2, <3>4 DEF ExpireInHand
    <3>5. \/ \E r \in Requests : CancelOnTimeout(r) \/ Settle(r)
          \/ ExpireInHand \/ ProbeRaises \/ (\E ok \in BOOLEAN : CompleteRunning(ok))
      BY <3>1, SettlingSteps
    <3> QED BY <3>3, <3>4, <3>5
  <2>2. /\ gui # "idle" /\ gui' \in {"completing", "failed"} /\ UNCHANGED hand
        /\ \/ UNCHANGED settling
           \/ /\ settling' = [settling EXCEPT ![hand] = "forget"]
              /\ state' = [state EXCEPT ![hand] = "completed"]
    BY <2>1 DEF ProbeRaises, CompleteRunning, GuiAt
  <2>3. state \in [Requests -> RequestStates]  BY LifeTypes DEF Inductive
  <2> QED BY <1>t, <1>3, <2>2, <2>3
<1> QED BY <1>1, <1>2, <1>3

\* A request is gone from the core when its event is set, and stays gone.
LEMMA CompletedIsGoneNext ==
    ASSUME ConstantsAssumption, Inductive, QueueInvariant, [Next]_vars
    PROVE  CompletedIsGone'
<1> SUFFICES ASSUME NEW q \in Requests, completion'[q]  PROVE Gone(q)'
  BY DEF CompletedIsGone
<1>p. Placed /\ Keyed  BY DEF QueueInvariant
<1>n. /\ NULL \notin Requests /\ requests \in Seq(Requests)
      /\ requestsByOwner \in [Owners -> Requests \cup {NULL}]
      /\ completion \in [Requests -> BOOLEAN]
  BY DEF ConstantsAssumption, Inductive, Shape, TypeOK
<1>e. \A S : q \in S => \A k \in Owners : Forget(S)[k] # q  BY <1>n DEF Forget
<1>k. \A S : NoKey(q) => \A k \in Owners : Forget(S)[k] # q  BY <1>n DEF NoKey, Forget
<1>1. CASE completion[q]
  <2>1. Gone(q) /\ state[q] \in Terminal
    BY <1>1 DEF QueueInvariant, CompletedIsGone, Settled
  <2>2. state[q] # "pending" /\ state[q] # "deferred"  BY <2>1 DEF Terminal
  <2>3. CASE UNCHANGED places  BY <2>1, <2>3 DEF Gone, NoKey, places
  <2>4. ASSUME NEW r \in Requests, Enqueue(r)  PROVE Gone(q)'
    <3>1. q # r  BY <2>2, <2>4, EnqueuedPlaces
    <3> QED BY <1>n, <2>1, <2>4, <3>1, EnqueuedPlaces DEF Gone, NoKey
  <2>5. ASSUME NEW r \in Requests, Removes(r)  PROVE Gone(q)'
    BY <1>p, <1>k, <2>1, <2>5, RemovedPlaces DEF Gone, NoKey, Removes
  <2>6. ASSUME NEW r \in Requests, Forgets(r)  PROVE Gone(q)'
    BY <1>k, <2>1, <2>6 DEF Gone, NoKey, Forgets
  <2>7. ASSUME NEW r \in Requests, CancelSwept(r)  PROVE Gone(q)'
    BY <2>1, <2>7 DEF Gone, NoKey, CancelSwept
  <2>8. ASSUME NEW r \in Requests, DrainTakes(r)  PROVE Gone(q)'
    BY <1>p, <2>1, <2>8, TakenPlaces DEF Gone, NoKey
  <2>9. CASE SweepAll  BY <1>k, <2>1, <2>9, SweptPlaces DEF Gone, NoKey
  <2>10. CASE PutsDown \/ Abandons
    BY <1>k, <2>1, <2>10 DEF Gone, NoKey, PutsDown, Abandons, AbandonInHand
  <2>11. CASE hand \in Requests /\ Requeues
    <3>1. Range(requests') = Range(requests) \cup {hand} /\ hand # q
      BY <1>n, <2>2, <2>11, RequeuedOrder DEF Requeues, RequeueFirst
    <3> QED BY <2>1, <2>11, <3>1 DEF Gone, NoKey, Requeues
  <2>12. CASE Defers
    BY <2>1, <2>2, <2>12 DEF Gone, NoKey, Defers
  <2>13. ASSUME NEW d \in Docs, NotifyStable(d)  PROVE Gone(q)'
    <3>1. q \notin PromotedBy(d)  BY <2>2 DEF PromotedBy
    <3> QED BY <1>p, <2>1, <2>13, <3>1, PromotedPlaces DEF Gone, NoKey
  <2>14. ASSUME NEW d \in Docs, NotifyDeleted(d)  PROVE Gone(q)'
    BY <1>k, <2>1, <2>14, ClosedPlaces DEF Gone, NoKey
  <2> QED BY <2>3, <2>4, <2>5, <2>6, <2>7, <2>8, <2>9, <2>10, <2>11, <2>12, <2>13, <2>14,
             PlaceSteps
<1>2. CASE ~completion[q]
  <2>1. \/ SubmitInline(q) /\ state[q] \notin Terminal /\ state'[q] \in Terminal
        \/ CancelSwept(q) \/ Settle(q)
        \/ \E k \in Owners : /\ CancelRequest(k) /\ requestsByOwner[k] = q
                             /\ state[q] \notin Terminal
    BY <1>2, <1>n, EndSteps
  <2>2. ASSUME RemovePending(q)  PROVE Gone(q)'
    <3>1. Range(requests') = Range(requests) \ {q}
      BY <1>n, <1>p, <2>2, WithoutOrder DEF RemovePending, Placed
    <3>2. /\ deferredRequests' = deferredRequests \ {q} /\ requestsByOwner' = Forget({q})
      BY <2>2 DEF RemovePending
    <3> QED BY <1>e, <3>1, <3>2 DEF Gone, NoKey
  <2>3. CASE SubmitInline(q)
    <3>1. q \notin Known
      BY <2>3 DEF SubmitInline, Inductive, Life, FreshIsUntouched, Fresh
    <3>2. q \notin Range(requestsByOwner)  BY <3>1 DEF Known
    <3>3. Gone(q)  BY <1>n, <3>1, <3>2 DEF Gone, NoKey, Known, Range
    <3>4. UNCHANGED <<requests, deferredRequests, requestsByOwner>>
      BY <2>3 DEF SubmitInline, coreVars, queueVars
    <3> QED BY <3>3, <3>4 DEF Gone, NoKey
  <2>4. CASE CancelSwept(q)
    <3>1. q \in swept /\ UNCHANGED <<requests, deferredRequests, requestsByOwner>>
      BY <2>4 DEF CancelSwept
    <3> QED BY <1>p, <3>1 DEF Gone, NoKey, Placed, Keyed
  <2>5. CASE Settle(q)
    <3>1. CASE settling[q] = "remove"  BY <2>2, <2>5, <3>1 DEF Settle
    <3>2. CASE settling[q] # "remove"
      <4>1. settling[q] = "forget"
        BY <2>5, <3>2 DEF Settle, Inductive, Shape, TypeOK
      <4>2. hand = q  BY <4>1 DEF QueueInvariant, Settled
      <4>3. requestsByOwner' = Forget({q}) /\ UNCHANGED <<requests, deferredRequests>>
        BY <2>5, <3>2 DEF Settle, ForgetAfterExecution
      <4> QED BY <1>p, <1>e, <4>2, <4>3 DEF Gone, NoKey, Placed
    <3> QED BY <3>1, <3>2
  <2>6. ASSUME NEW k \in Owners, CancelRequest(k), requestsByOwner[k] = q,
               state[q] \notin Terminal
        PROVE  Gone(q)'
    <3>1. RemovePending(q)  BY <2>6 DEF CancelRequest
    <3> QED BY <2>2, <3>1
  <2> QED BY <2>1, <2>3, <2>4, <2>5, <2>6
<1> QED BY <1>1, <1>2

-----------------------------------------------------------------------------
(* The state of a request and its place.                                    *)

\* While drain_one is past the end of the request in hand, that request has ended.
LEMMA EndPhasesNext ==
    ASSUME ConstantsAssumption, Inductive, QueueInvariant, [Next]_vars,
           gui' \in EndPhases
    PROVE  state'[hand'] \in Terminal
<1>t. /\ state \in [Requests -> RequestStates] /\ (gui # "idle" => hand \in Requests)
      /\ gui \in EndPhases => state[hand] \in Terminal
  BY LifeTypes DEF Inductive, QueueInvariant, StateAgrees
<1>1. CASE gui \in EndPhases /\ hand' = hand
  <2>1. hand \in Requests /\ state[hand] \in Terminal  BY <1>t, <1>1 DEF EndPhases
  <2> QED BY <1>1, <2>1, ExecutionNext DEF Final, Inductive
<1>2. CASE gui \notin EndPhases \/ hand' # hand
  <2>1. ExpireInHand \/ ProbeRaises \/ (\E ok \in BOOLEAN : CompleteRunning(ok))
    BY <1>2, GuiSteps
    DEF DrainTakes, ExpiryDone, DeadlineHolds, SampleBusy, SampleFree, RequeueBusy,
        ProbeDefers, ProbeClears, ProbeFailureDone, DeferInHand, StartInHand, StartRefused,
        RunSettled, GuiRelease, RunFinally, GuiAt, Drained, EndPhases
  <2>2. gui # "idle" /\ hand' = hand
    BY <2>1 DEF ExpireInHand, ProbeRaises, CompleteRunning, GuiAt
  <2>3. \/ \E new \in Terminal : state' = [state EXCEPT ![hand] = new]
        \/ state[hand] \in Terminal /\ UNCHANGED state
    BY <2>1 DEF ExpireInHand, ProbeRaises, CompleteRunning, Completes, Terminal
  <2> QED BY <1>t, <2>2, <2>3
<1> QED BY <1>1, <1>2

\* A step leaves the state of a request and its place in agreement.
LEMMA StateAgreesNext ==
    ASSUME ConstantsAssumption, Inductive, QueueInvariant, [Next]_vars
    PROVE  StateAgrees'
<1> DEFINE Agree(q) ==
              /\ q \in Range(requests') => state'[q] \in {"pending"} \cup Terminal
              /\ q \in deferredRequests' => state'[q] \in {"deferred"} \cup Terminal
              /\ state'[q] = "deferred" => q \in deferredRequests' \cup swept'
<1>p. Placed /\ Keyed  BY DEF QueueInvariant
<1>n. /\ NULL \notin Requests /\ requests \in Seq(Requests)
      /\ state \in [Requests -> RequestStates]
      /\ deferredRequests' \subseteq Requests /\ Range(requests') \subseteq Requests
  BY ShapeNext, RangeOfSeq DEF ConstantsAssumption, Inductive, Shape, TypeOK
<1>1. ASSUME NEW q \in Requests  PROVE Agree(q)
  <2>a. /\ q \in Range(requests) => state[q] \in {"pending"} \cup Terminal
        /\ q \in deferredRequests => state[q] \in {"deferred"} \cup Terminal
        /\ state[q] = "deferred" => q \in deferredRequests \cup swept
    BY DEF QueueInvariant, StateAgrees
  <2>1. CASE state'[q] # state[q]
    <3>1. CASE Ends(q)  BY <3>1 DEF Ends, Terminal
    <3>2. CASE StartInHand /\ q = hand /\ state'[q] = "running"
      <4>1. UNCHANGED <<requests, deferredRequests>>
        BY <3>2 DEF StartInHand, coreVars, queueVars
      <4> QED BY <1>p, <3>2, <4>1 DEF Placed
    <3>3. CASE MarkTimedOut(q) /\ state[q] = "running" /\ state'[q] = "timed_out_running"
      <4>1. UNCHANGED <<requests, deferredRequests>>
        BY <3>3 DEF MarkTimedOut, coreVars, queueVars
      <4> QED BY <2>a, <3>3, <4>1 DEF Terminal
    <3>4. CASE /\ DeferInHand /\ accepting /\ q = hand
               /\ state[q] = "pending" /\ state'[q] = "deferred"
      <4>1. deferredRequests' = deferredRequests \cup {q} /\ UNCHANGED requests
        BY <3>4 DEF DeferInHand
      <4> QED BY <1>p, <3>4, <4>1 DEF Placed
    <3>5. ASSUME NEW d \in Docs, NotifyStable(d), q \in deferredRequests, d \in keysOf[q],
                 state[q] = "deferred", state'[q] = "pending"
          PROVE  Agree(q)
      <4>1. q \in PromotedBy(d)  BY <3>5 DEF PromotedBy
      <4> QED BY <1>p, <3>5, <4>1, PromotedPlaces
    <3> HIDE DEF Agree
    <3> QED BY <2>1, <3>1, <3>2, <3>3, <3>4, <3>5, StateSteps
  <2>2. CASE state'[q] = state[q]
    <3>1. CASE UNCHANGED places  BY <2>a, <2>2, <3>1 DEF places
    <3>2. ASSUME NEW r \in Requests, Enqueue(r)  PROVE Agree(q)
      BY <2>a, <2>2, <3>2, EnqueuedPlaces
    <3>3. ASSUME NEW r \in Requests, Removes(r)  PROVE Agree(q)
      <4>1. /\ Range(requests') = Range(requests) \ {r} /\ state'[r] \in Terminal
            /\ deferredRequests' = deferredRequests \ {r} /\ UNCHANGED swept
        BY <1>p, <3>3, RemovedPlaces DEF Removes
      <4> QED BY <2>a, <2>2, <4>1 DEF Terminal
    <3>4. ASSUME NEW r \in Requests, Forgets(r)  PROVE Agree(q)
      BY <2>a, <2>2, <3>4 DEF Forgets
    <3>5. ASSUME NEW r \in Requests, CancelSwept(r)  PROVE Agree(q)
      <4>1. /\ swept' = swept \ {r} /\ UNCHANGED <<requests, deferredRequests>>
            /\ state'[r] # "deferred"
        BY <1>n, <3>5 DEF CancelSwept, CancelIfPending, Waiting
      <4> QED BY <2>a, <2>2, <4>1
    <3>6. ASSUME NEW r \in Requests, DrainTakes(r)  PROVE Agree(q)
      BY <1>p, <2>a, <2>2, <3>6, TakenPlaces
    <3>7. CASE SweepAll  BY <2>a, <2>2, <3>7, SweptPlaces
    <3>8. CASE PutsDown \/ Abandons
      BY <2>a, <2>2, <3>8 DEF PutsDown, Abandons, AbandonInHand
    <3>9. CASE hand \in Requests /\ Requeues
      <4>1. /\ Range(requests') = Range(requests) \cup {hand} /\ state[hand] = "pending"
            /\ UNCHANGED <<deferredRequests, swept>>
        BY <1>n, <3>9, RequeuedOrder DEF Requeues, RequeueFirst
      <4> QED BY <2>a, <2>2, <4>1
    <3>10. CASE hand \in Requests /\ Defers
      BY <1>n, <2>a, <2>2, <3>10 DEF Defers
    <3>11. ASSUME NEW d \in Docs, NotifyStable(d)  PROVE Agree(q)
      <4>1. q \notin PromotedBy(d)
        <5>1. q \in PromotedBy(d) => state'[q] = "pending" /\ state[q] = "deferred"
          BY <1>p, <3>11, PromotedPlaces DEF PromotedBy
        <5> QED BY <2>2, <5>1
      <4> QED BY <1>p, <2>a, <2>2, <3>11, <4>1, PromotedPlaces
    <3>12. ASSUME NEW d \in Docs, NotifyDeleted(d)  PROVE Agree(q)
      BY <2>a, <2>2, <3>12, ClosedPlaces
    <3> HIDE DEF Agree
    <3> QED BY <3>1, <3>2, <3>3, <3>4, <3>5, <3>6, <3>7, <3>8, <3>9, <3>10, <3>11, <3>12,
               PlaceSteps
  <2> QED BY <2>1, <2>2
<1>2. gui' \in EndPhases => state'[hand'] \in Terminal  BY EndPhasesNext
<1> QED BY <1>1, <1>2, <1>n DEF StateAgrees

\* A quarantine names a request that timed out in execution, to its end.
LEMMA QuarantineAgreesNext ==
    ASSUME ConstantsAssumption, Inductive, QueueInvariant, [Next]_vars
    PROVE  QuarantineAgrees'
<1> USE DEF handlerVars, requestVars, queueVars, coreVars, guiVars, documentVars, historyVars
<1> DEFINE Late(q) == state[q] \in {"timed_out_running", "completed"}
           Held == UNCHANGED timedOutRequest \/ timedOutRequest' = NULL
           Quiet == \A q \in Requests : pc'[q] = "quarantine" => pc[q] = "quarantine"
<1>t. /\ pc \in [Requests -> HandlerStates] /\ timedOutRequest \in Requests \cup {NULL}
      /\ state \in [Requests -> RequestStates]
  BY DEF Inductive, Shape, TypeOK
<1>i. /\ timedOutRequest # NULL => Late(timedOutRequest)
      /\ \A q \in Requests : pc[q] = "quarantine" => Late(q)
  BY DEF QueueInvariant, QuarantineAgrees
<1>1. ASSUME NEW q \in Requests, Late(q)  PROVE state'[q] \in {"timed_out_running", "completed"}
  BY <1>1, StateSteps DEF Ends, Waiting
<1>2. ASSUME Held, Quiet  PROVE QuarantineAgrees'
  BY <1>t, <1>i, <1>1, <1>2 DEF QuarantineAgrees
<1>3. ASSUME NEW x, NEW at, pc' = [pc EXCEPT ![x] = at], at # "quarantine"  PROVE Quiet
  BY <1>t, <1>3
<1>4. ASSUME NEW r \in Requests, MarkTimedOut(r)  PROVE QuarantineAgrees'
  <2>1. /\ state[r] = "running" /\ state' = [state EXCEPT ![r] = "timed_out_running"]
        /\ pc' = [pc EXCEPT ![r] = "quarantine"] /\ UNCHANGED timedOutRequest
    BY <1>4 DEF MarkTimedOut, TimesOutRunning
  <2> QED BY <1>t, <1>i, <1>1, <2>1 DEF QuarantineAgrees
<1>5. ASSUME NEW r \in Requests, QuarantineRunning(r)  PROVE QuarantineAgrees'
  <2>1. /\ pc[r] = "quarantine" /\ timedOutRequest' = r
        /\ \E at \in {"release", "returned"} : pc' = [pc EXCEPT ![r] = at]
    BY <1>5 DEF QuarantineRunning, Leave
  <2>2. Quiet  BY <1>3, <2>1
  <2> QED BY <1>i, <1>1, <2>1, <2>2 DEF QuarantineAgrees
<1>6. ASSUME NEW r \in Requests, Handler(r), ~MarkTimedOut(r), ~QuarantineRunning(r)
      PROVE  Held /\ Quiet
  <2>1. Held
    BY <1>6
    DEF Handler, Proceed, Admission, HandleTimeout, Submit, SubmitInline, RefuseStopping,
        RefuseQuarantined, RefuseDuplicate, Enqueue, WakeForSubmit, WaitReturns,
        WaitExpires, CancelOnTimeout, TimeoutAlreadyExpired, TimeoutOvertaken, CleanupDone,
        OvertakenReturns, HandlerRelease, AfterQuarantine
  <2>2. \E at \in HandlerStates \ {"quarantine"} : pc' = [pc EXCEPT ![r] = at]
    BY <1>6
    DEF Handler, Proceed, Admission, HandleTimeout, Submit, SubmitInline, RefuseStopping,
        RefuseQuarantined, RefuseDuplicate, Enqueue, WakeForSubmit, WaitReturns,
        WaitExpires, CancelOnTimeout, TimeoutAlreadyExpired, TimeoutOvertaken, CleanupDone,
        OvertakenReturns, HandlerRelease, Leave, HandlerStates
  <2> QED BY <1>3, <2>1, <2>2
<1>7. CASE ~\E r \in Requests : Handler(r)
  <2>1. UNCHANGED pc
    BY <1>7
    DEF Next, Gui, Drain, InHand, EventLoop, Environment, vars, Settle, CancelSwept, Tick,
        CancelRequest, StopAccepting, DocumentChanges, NotifyStable, NotifyDeleted,
        PostOwedWake, TimerFires, DrainTakes, DrainFindsNothing, NestedDrain, ExpireInHand,
        ExpiryDone, DeadlineHolds, SampleBusy, SampleFree, RequeueBusy, ProbeDefers,
        ProbeClears, ProbeRaises, ProbeFailureDone, DeferInHand, StartInHand, StartRefused,
        CompleteRunning, RunSettled, GuiRelease, RunFinally
  <2>2. Held
    BY <1>7
    DEF Next, Gui, Drain, InHand, EventLoop, Environment, vars, Settle, CancelSwept, Tick,
        CancelRequest, StopAccepting, DocumentChanges, NotifyStable, NotifyDeleted,
        PostOwedWake, TimerFires, DrainTakes, DrainFindsNothing, NestedDrain, ExpireInHand,
        ExpiryDone, DeadlineHolds, SampleBusy, SampleFree, RequeueBusy, ProbeDefers,
        ProbeClears, ProbeRaises, ProbeFailureDone, DeferInHand, StartInHand, StartRefused,
        CompleteRunning, RunSettled, GuiRelease, RunFinally
  <2> QED BY <1>2, <2>1, <2>2
<1> QED BY <1>2, <1>4, <1>5, <1>6, <1>7

-----------------------------------------------------------------------------
(* What the core promises about its queues.                                 *)

\* Only the quarantine test of _enqueue refuses with GUI_BUSY_AFTER_TIMEOUT.
LEMMA BusyRefusals ==
    ASSUME Inductive, [Next]_vars, NEW r \in Requests,
           result[r] # "busy_after_timeout", result'[r] = "busy_after_timeout"
    PROVE  RefuseQuarantined(r)
<1> USE DEF handlerVars, requestVars, queueVars, coreVars, guiVars, documentVars, historyVars
<1>t. result \in [Requests -> Results]  BY LifeTypes DEF Inductive
<1>1. ASSUME NEW x \in Requests, NEW res, result' = [result EXCEPT ![x] = res]
      PROVE  x = r /\ res = "busy_after_timeout"
  BY <1>t, <1>1
<1>2. ASSUME NEW x \in Requests, Handler(x)  PROVE RefuseQuarantined(r)
  <2>1. CASE RefuseQuarantined(x)
    BY <1>1, <2>1 DEF RefuseQuarantined, Leave
  <2>2. CASE ~RefuseQuarantined(x)
    <3>1. \/ UNCHANGED result
          \/ \E res \in Results \ {"busy_after_timeout"} : result' = [result EXCEPT ![x] = res]
      BY <1>2, <2>2
      DEF Handler, Proceed, Admission, HandleTimeout, Submit, SubmitInline, RefuseStopping,
          RefuseDuplicate, Enqueue, WakeForSubmit, WaitReturns, WaitExpires,
          CancelOnTimeout, TimeoutAlreadyExpired, MarkTimedOut, TimeoutOvertaken,
          CleanupDone, QuarantineRunning, OvertakenReturns, HandlerRelease, Leave, Answer,
          Results
    <3> QED BY <1>1, <3>1
  <2> QED BY <2>1, <2>2
<1>3. CASE ~\E x \in Requests : Handler(x)
  <2>1. UNCHANGED result
    BY <1>3
    DEF Next, Gui, Drain, InHand, EventLoop, Environment, vars, Settle, CancelSwept, Tick,
        CancelRequest, StopAccepting, DocumentChanges, NotifyStable, NotifyDeleted,
        PostOwedWake, TimerFires, DrainTakes, DrainFindsNothing, NestedDrain, ExpireInHand,
        ExpiryDone, DeadlineHolds, SampleBusy, SampleFree, RequeueBusy, ProbeDefers,
        ProbeClears, ProbeRaises, ProbeFailureDone, DeferInHand, StartInHand, StartRefused,
        CompleteRunning, RunSettled, GuiRelease, RunFinally
  <2> QED BY <2>1
<1> QED BY <1>2, <1>3

\* Nothing is anywhere, and nothing has ended, to begin with.
LEMMA QueueInit == ASSUME ConstantsAssumption, Init PROVE QueueInvariant
<1>1. Range(<<>>) = {} /\ Single(<<>>)  BY DEF Range, Single, Ahead
<1> QED BY <1>1
        DEF Init, ConstantsAssumption, QueueInvariant, Placed, Keyed, Settled, NoKey,
            CompletedIsGone, StateAgrees, QuarantineAgrees, EndPhases, Terminal

\* The inductive invariant: a request is in one place, which agrees with its
\* state, its owner key and how far its end is settled.
THEOREM QueueInvariantHolds == Spec => []QueueInvariant
<1>1. Init => QueueInvariant  BY QueueInit, ConstantsAssumption
<1>2. Inductive /\ QueueInvariant /\ [Next]_vars => QueueInvariant'
  <2> SUFFICES ASSUME Inductive, QueueInvariant, [Next]_vars  PROVE QueueInvariant'
    OBVIOUS
  <2>1. Placed' /\ Keyed'  BY PlacedNext, KeyedNext, ConstantsAssumption
  <2>2. Settled' /\ CompletedIsGone'  BY SettledNext, CompletedIsGoneNext, ConstantsAssumption
  <2>3. StateAgrees' /\ QuarantineAgrees'
    BY StateAgreesNext, QuarantineAgreesNext, ConstantsAssumption
  <2> QED BY <2>1, <2>2, <2>3 DEF QueueInvariant
<1> QED BY <1>1, <1>2, InductiveInvariant, PTL DEF Spec

\* When the event of a request is set, every structure of the core has let go of
\* it and its on_complete has been called once.
THEOREM CleanupBeforeWakeHolds == Spec => []CleanupBeforeWake
<1>1. QueueInvariant => CleanupBeforeWake
  BY InQueueRange
  DEF QueueInvariant, CompletedIsGone, Gone, NoKey, Settled, CleanupBeforeWake
<1> QED BY <1>1, QueueInvariantHolds, PTL

\* Authenticated work that may still start can be found by its owner key, whatever
\* other submissions, sweeps and cleanups did to the table of keys.
THEOREM LiveWorkIsCancellableHolds == Spec => []LiveWorkIsCancellable
<1>1. QueueInvariant => LiveWorkIsCancellable
  <2>1. \A r : state[r] \in Waiting \cup Occupying => state[r] \notin Terminal
    BY DEF Waiting, Occupying, Terminal
  <2> QED BY <2>1, InQueueRange DEF QueueInvariant, Keyed, LiveWorkIsCancellable
<1> QED BY <1>1, QueueInvariantHolds, PTL

\* A caller is refused with GUI_BUSY_AFTER_TIMEOUT only while a timed-out callable
\* is on the GUI thread.
THEOREM BusyOnlyWhileOccupiedHolds == Spec => BusyOnlyWhileOccupied
<1> DEFINE Refused(r) == result[r] # "busy_after_timeout" /\ result'[r] = "busy_after_timeout"
           Justified == \A r \in Requests :
               Refused(r) => \E q \in Requests : state[q] = "timed_out_running"
<1>1. Inductive /\ QueueInvariant /\ [Next]_vars => [Justified]_vars
  <2> SUFFICES ASSUME Inductive, QueueInvariant, [Next]_vars,
                      NEW r \in Requests, Refused(r)
               PROVE  \E q \in Requests : state[q] = "timed_out_running"
    OBVIOUS
  <2>1. RefuseQuarantined(r)  BY BusyRefusals
  <2>2. timedOutRequest \in Requests /\ state[timedOutRequest] # "completed"
    BY <2>1 DEF RefuseQuarantined, Quarantined, Inductive, Shape, TypeOK
  <2>3. state[timedOutRequest] \in {"timed_out_running", "completed"}
    BY <2>1 DEF RefuseQuarantined, Quarantined, QueueInvariant, QuarantineAgrees
  <2> QED BY <2>2, <2>3
<1>2. BusyOnlyWhileOccupied <=> [][Justified]_vars  BY DEF BusyOnlyWhileOccupied
<1> QED BY <1>1, <1>2, InductiveInvariant, QueueInvariantHolds, PTL DEF Spec
=============================================================================
