--------------------------- MODULE DeferredProofs ----------------------------
(***************************************************************************)
(* Facts about the Deferred stack.  The actions of a function are added in *)
(* the order of a rank; as long as that is so, the set of the actions that *)
(* are left says everything about the stack.                               *)
(***************************************************************************)
EXTENDS Deferred, SequenceTheorems, TLAPS

\* the actions are in the order of their ranks
Ordered(d, rank) == \A i, j \in 1..Len(d) : i < j => rank[d[i]] < rank[d[j]]

(* A sequence is a function of its positions, and so is its range. *)
LEMMA SeqByPosition ==
  ASSUME NEW S, NEW d \in Seq(S)
  PROVE  /\ Len(d) \in Nat /\ d \in [1..Len(d) -> S]
         /\ Range(d) = {d[i] : i \in 1..Len(d)}
<1>1. Len(d) \in Nat /\ d \in [1..Len(d) -> S] OBVIOUS
<1>2. DOMAIN d = 1..Len(d) OBVIOUS
<1>3. QED BY <1>1, <1>2 DEF Range

(* Deferred::add, of an action that ranks above those already there. *)
LEMMA AddOrdered ==
  ASSUME NEW S, NEW rank \in [S -> Nat], NEW d \in Seq(S), Ordered(d, rank),
         NEW a \in S, \A x \in Range(d) : rank[x] < rank[a]
  PROVE  /\ Add(d, a) \in Seq(S)
         /\ Ordered(Add(d, a), rank)
         /\ Range(Add(d, a)) = Range(d) \cup {a}
<1> DEFINE e == Add(d, a)
           n == Len(d)
           m == Len(e)
<1>1. e \in Seq(S) /\ m = n + 1 /\ (\A i \in 1..n : e[i] = d[i]) /\ e[n + 1] = a
  BY DEF Add
<1> HIDE DEF e
<1>2. n \in Nat /\ d \in [1..n -> S] /\ Range(d) = {d[i] : i \in 1..n} BY SeqByPosition
<1>3. m \in Nat /\ e \in [1..m -> S] /\ Range(e) = {e[i] : i \in 1..m} BY <1>1, SeqByPosition
<1>4. \A i, j \in 1..n : i < j => rank[d[i]] < rank[d[j]] BY DEF Ordered
<1>5. Ordered(e, rank) <=> \A i, j \in 1..m : i < j => rank[e[i]] < rank[e[j]] BY DEF Ordered
<1> HIDE DEF n, m
<1>6. \A i \in 1..n : rank[d[i]] < rank[a] BY <1>2
<1>7. ASSUME NEW i \in 1..m, NEW j \in 1..m, i < j PROVE rank[e[i]] < rank[e[j]]
  <2>1. i \in 1..n BY <1>1, <1>2, <1>3, <1>7
  <2>2. j \in 1..n \/ j = n + 1 BY <1>1, <1>2, <1>3
  <2>3. QED BY <1>1, <1>4, <1>6, <1>7, <2>1, <2>2
<1>8. \A i \in 1..m : i \in 1..n \/ i = n + 1 BY <1>1, <1>2, <1>3
<1>9. \A i \in 1..n : i \in 1..m BY <1>1, <1>2, <1>3
<1>10. n + 1 \in 1..m BY <1>1, <1>2, <1>3
<1>11. {e[i] : i \in 1..m} = {d[i] : i \in 1..n} \cup {a} BY <1>1, <1>8, <1>9, <1>10
<1>12. QED BY <1>1, <1>2, <1>3, <1>5, <1>7, <1>11, Zenon DEF e

(* Drop: the newest action ranks above all the others, and only it leaves. *)
LEMMA DropOrdered ==
  ASSUME NEW S, NEW rank \in [S -> Nat], NEW d \in Seq(S), Ordered(d, rank), d # <<>>
  PROVE  /\ Front(d) \in Seq(S)
         /\ Ordered(Front(d), rank)
         /\ Last(d) \in Range(d) /\ Last(d) \in S
         /\ Range(Front(d)) = Range(d) \ {Last(d)}
         /\ \A x \in Range(d) : x = Last(d) \/ rank[x] < rank[Last(d)]
<1> DEFINE e == Front(d)
           n == Len(d)
           m == Len(d) - 1
<1>1. n \in Nat /\ m \in Nat /\ n = m + 1 OBVIOUS
<1>2. e = SubSeq(d, 1, m) BY DEF Front
<1>3. d \in [1..n -> S] /\ Range(d) = {d[i] : i \in 1..n} BY SeqByPosition
<1>4. \A i, j \in 1..n : i < j => rank[d[i]] < rank[d[j]] BY DEF Ordered
<1>5. Last(d) = d[n] BY DEF Last
<1> HIDE DEF e, n, m
<1>6. \A i \in 1..m : i \in 1..n /\ i < n BY <1>1
<1>7. \A i \in 1..n : i \in 1..m \/ i = n BY <1>1
<1>8. n \in 1..n BY <1>1
<1>9. e \in Seq(S) /\ Len(e) = m /\ \A i \in 1..m : e[i] = d[i]
  <2>1. \A i \in 1..m : d[i] \in S BY <1>3, <1>6
  <2>2. SubSeq(d, 1, m) \in Seq(S) BY <1>1, <2>1, SubSeqProperties
  <2>3. Len(SubSeq(d, 1, m)) = m BY <1>1, <2>1
  <2>4. ASSUME NEW i \in 1..m PROVE SubSeq(d, 1, m)[i] = d[i] BY <1>1, <2>1, <2>4
  <2>5. QED BY <1>2, <2>2, <2>3, <2>4
<1>10. e \in [1..m -> S] /\ Range(e) = {e[i] : i \in 1..m} BY <1>9, SeqByPosition
<1>11. Ordered(e, rank) <=> \A i, j \in 1..m : i < j => rank[e[i]] < rank[e[j]] BY <1>9 DEF Ordered
<1>12. \A i \in 1..m : rank[d[i]] < rank[d[n]] BY <1>4, <1>6, <1>8
<1>13. \A i \in 1..m : d[i] # d[n]
  <2>1. ASSUME NEW i \in 1..m, d[i] = d[n] PROVE FALSE
    <3>1. d[n] \in S BY <1>3, <1>8
    <3>2. rank[d[n]] \in Nat BY <3>1
    <3>3. rank[d[n]] < rank[d[n]] BY <1>12, <2>1
    <3>4. QED BY <3>2, <3>3
  <2>2. QED BY <2>1
<1>14. \A i, j \in 1..m : i < j => rank[e[i]] < rank[e[j]] BY <1>4, <1>6, <1>9
<1>15. {e[i] : i \in 1..m} = {d[i] : i \in 1..n} \ {d[n]} BY <1>6, <1>7, <1>9, <1>13
<1>16. d[n] \in Range(d) /\ d[n] \in S BY <1>3, <1>8
<1>17. ASSUME NEW x \in Range(d) PROVE x = d[n] \/ rank[x] < rank[d[n]]
  <2>1. PICK i \in 1..n : x = d[i] BY <1>3, <1>17, Zenon
  <2>2. QED BY <1>7, <1>12, <2>1, Zenon
<1>18. QED BY <1>3, <1>5, <1>9, <1>10, <1>11, <1>14, <1>15, <1>16, <1>17, Zenon DEF e

(* remove, and the first half of call_now: exactly this action leaves. *)
LEMMA PopOrdered ==
  ASSUME NEW S, NEW rank \in [S -> Nat], NEW d \in Seq(S), Ordered(d, rank), NEW a
  PROVE  /\ PopAction(d, a) \in Seq(S)
         /\ Ordered(PopAction(d, a), rank)
         /\ Range(PopAction(d, a)) = Range(d) \ {a}
<1>1. Len(d) \in Nat /\ d \in [1..Len(d) -> S] /\ Range(d) = {d[i] : i \in 1..Len(d)}
  BY SeqByPosition
<1>2. CASE \A i \in 1..Len(d) : d[i] # a
  <2>1. PopAction(d, a) = d BY <1>2 DEF PopAction, RemoveFirst
  <2>2. a \notin Range(d) BY <1>1, <1>2
  <2>3. QED BY <2>1, <2>2
<1>3. CASE \E i \in 1..Len(d) : d[i] = a
  <2>1. PICK k \in 1..Len(d) : d[k] = a BY <1>3
  <2>2. \A i \in 1..Len(d) : i # k => d[i] # a
    BY <1>1, <2>1 DEF Ordered
  <2>3. SelectInSeq(d, LAMBDA v : v = a) = k
    <3> DEFINE I == {i \in 1..Len(d) : d[i] = a}
    <3>1. SelectInSeq(d, LAMBDA v : v = a) = Min(I) BY <1>3 DEF SelectInSeq
    <3>2. I = {k} BY <2>1, <2>2
    <3>3. Min(I) = k BY <3>2, <2>1 DEF Min
    <3>4. QED BY <3>1, <3>3
  <2> DEFINE p == SubSeq(d, 1, k - 1)
             q == SubSeq(d, k + 1, Len(d))
             e == PopAction(d, a)
             n == Len(d)
             m == Len(d) - 1
  <2>4. e = p \o q
    BY <1>3, <2>3 DEF PopAction, RemoveFirst, RemoveAt
  <2>5. /\ p \in Seq(S) /\ Len(p) = k - 1
        /\ \A i \in 1..(k - 1) : p[i] = d[i]
    BY <2>1
  <2>6. /\ q \in Seq(S) /\ Len(q) = n - k
        /\ \A i \in 1..(n - k) : q[i] = d[i + k]
    BY <2>1
  <2>7. /\ n \in Nat /\ m \in Nat /\ n = m + 1 /\ k \in 1..n
        /\ d \in [1..n -> S] /\ Range(d) = {d[i] : i \in 1..n}
    BY <1>1, <2>1
  <2>8. \A i, j \in 1..n : i < j => rank[d[i]] < rank[d[j]] BY DEF Ordered
  <2>9. \A i \in 1..n : i # k => d[i] # d[k] BY <2>1, <2>2
  <2> HIDE DEF p, q, e, n, m
  <2>10. Len(p) + Len(q) = m BY <2>5, <2>6, <2>7
  <2>11. e \in Seq(S) /\ Len(e) = m
    <3>1. p \o q \in Seq(S) BY <2>5, <2>6
    <3>2. Len(p \o q) = Len(p) + Len(q) BY <2>5, <2>6, ConcatProperties
    <3>3. QED BY <2>4, <2>10, <3>1, <3>2
  <2>12. \A i \in 1..m : e[i] = IF i < k THEN d[i] ELSE d[i + 1]
    <3>1. SUFFICES ASSUME NEW i \in 1..m PROVE e[i] = IF i < k THEN d[i] ELSE d[i + 1]
      OBVIOUS
    <3>2. (p \o q)[i] = IF i <= Len(p) THEN p[i] ELSE q[i - Len(p)]
      <4>1. i \in 1..(Len(p) + Len(q)) BY <2>10
      <4>2. QED BY <2>5, <2>6, <4>1, ConcatProperties
    <3>3. CASE i < k
      <4>1. i <= Len(p) /\ i \in 1..(k - 1) BY <2>5, <2>7, <3>3
      <4>2. QED BY <2>4, <2>5, <3>2, <3>3, <4>1
    <3>4. CASE ~(i < k)
      <4>1. ~(i <= Len(p)) BY <2>5, <2>7, <3>4
      <4>2. i - Len(p) \in 1..(n - k) /\ (i - Len(p)) + k = i + 1
        BY <2>5, <2>7, <3>4
      <4>3. e[i] = q[i - Len(p)] BY <2>4, <3>2, <4>1
      <4>4. q[i - Len(p)] = d[(i - Len(p)) + k] BY <2>6, <4>2
      <4>5. QED BY <3>4, <4>2, <4>3, <4>4
    <3>5. QED BY <3>3, <3>4
  <2>13. e \in [1..m -> S] /\ Range(e) = {e[i] : i \in 1..m} BY <2>11, SeqByPosition
  <2>14. Ordered(e, rank) <=> \A i, j \in 1..m : i < j => rank[e[i]] < rank[e[j]]
    BY <2>11 DEF Ordered
  <2>15. ASSUME NEW i \in 1..m PROVE \E j \in 1..n : j # k /\ d[j] = e[i]
    <3>1. CASE i < k BY <2>7, <2>12, <3>1
    <3>2. CASE ~(i < k)
      <4>1. i + 1 \in 1..n /\ i + 1 # k BY <2>7, <3>2
      <4>2. QED BY <2>12, <3>2, <4>1
    <3>3. QED BY <3>1, <3>2
  <2>16. ASSUME NEW i \in 1..n, i # k PROVE \E j \in 1..m : e[j] = d[i]
    <3>1. CASE i < k
      <4>1. i \in 1..m BY <2>7, <3>1
      <4>2. QED BY <2>12, <3>1, <4>1
    <3>2. CASE i > k
      <4>1. i - 1 \in 1..m /\ ~(i - 1 < k) /\ (i - 1) + 1 = i BY <2>7, <3>2
      <4>2. QED BY <2>12, <4>1
    <3>3. QED BY <2>7, <2>16, <3>1, <3>2
  <2>17. ASSUME NEW i \in 1..m, NEW j \in 1..m, i < j PROVE rank[e[i]] < rank[e[j]]
    <3>1. CASE j < k
      <4>1. i \in 1..n /\ j \in 1..n /\ i < k BY <2>7, <2>17, <3>1
      <4>2. QED BY <2>8, <2>12, <2>17, <3>1, <4>1
    <3>2. CASE i < k /\ ~(j < k)
      <4>1. i \in 1..n /\ j + 1 \in 1..n /\ i < j + 1 BY <2>7, <2>17, <3>2
      <4>2. QED BY <2>8, <2>12, <3>2, <4>1
    <3>3. CASE ~(i < k)
      <4>1. i + 1 \in 1..n /\ j + 1 \in 1..n /\ i + 1 < j + 1 /\ ~(j < k) BY <2>7, <2>17, <3>3
      <4>2. QED BY <2>8, <2>12, <3>3, <4>1
    <3>4. QED BY <3>1, <3>2, <3>3
  <2>18. ASSUME NEW x \in {e[i] : i \in 1..m} PROVE x \in {d[i] : i \in 1..n} \ {d[k]}
    <3>1. PICK i \in 1..m : x = e[i] BY <2>18
    <3>2. PICK j \in 1..n : j # k /\ d[j] = e[i] BY <2>15
    <3>3. QED BY <2>9, <3>1, <3>2
  <2>19. ASSUME NEW x \in {d[i] : i \in 1..n}, x # d[k] PROVE x \in {e[i] : i \in 1..m}
    <3>1. PICK i \in 1..n : x = d[i] BY <2>19
    <3>2. PICK j \in 1..m : e[j] = d[i] BY <2>16, <2>19, <3>1
    <3>3. QED BY <3>1, <3>2
  <2>20. {e[i] : i \in 1..m} = {d[i] : i \in 1..n} \ {d[k]} BY <2>18, <2>19
  <2>21. Range(e) = Range(d) \ {a} BY <2>1, <2>7, <2>13, <2>20, Zenon
  <2>22. QED BY <2>11, <2>14, <2>17, <2>21, Zenon DEF e
<1>4. QED BY <1>2, <1>3
=============================================================================
