-------------------------- MODULE SubMountsProofs ---------------------------
(***************************************************************************)
(* No export hides another and an undisturbed `unmount` is complete, for   *)
(* all sets of exports, all neighbours and any number of faults.           *)
(***************************************************************************)
EXTENDS SubMounts, SequenceTheorems, TLAPS
----------------------------------------------------------------------------
(* The inductive invariant.                                                *)

\* keys of exports, and where they are mounted
TrieInv ==
  /\ DOMAIN mtrie \subseteq Path /\ DOMAIN utrie \subseteq Path
  /\ \A k \in DOMAIN mtrie : mtrie[k] = Base \o k /\ Under(Base, mtrie[k])
  /\ \A k \in DOMAIN utrie : utrie[k] = Base \o k /\ OurMountPoint(utrie[k])

\* mounts of the share's tree are the share's, or those of exports that have
\* been mounted, once each
OursInv ==
  /\ \A i \in DOMAIN table : OurMountPoint(table[i]) =>
       \/ table[i] = Base
       \/ \E k \in DOMAIN mtrie : mstate[k] = "ok" /\ table[i] = mtrie[k]
  /\ \A i, j \in DOMAIN table :
       OurMountPoint(table[i]) /\ table[i] = table[j] => i = j

\* an export is visited after those around it have been mounted
VisitInv ==
  /\ \A a, k \in DOMAIN mtrie :
       Under(a, k) /\ mstate[k] # "todo" => mstate[a] = "ok"
  /\ sess # "mounting" => \A k \in DOMAIN mtrie : mstate[k] # "run"

\* a mount point is visited after those below it have been unmounted
LeaveInv ==
  /\ \A k, d \in DOMAIN utrie :
       Under(k, d) /\ ustate[k] # "todo" => ustate[d] = "done"
  /\ DOMAIN utrie # {} => cmd \in {"run", "done", "error"}
  /\ cmd = "done" => \A k \in DOMAIN utrie : ustate[k] = "done"

\* the command has read the table, after the exports were mounted
Undisturbed == DOMAIN utrie # {} /\ ~early

\* what is still mounted is in the command's trie and has not been visited
SweepInv ==
  Undisturbed =>
    /\ sess # "mounting"
    /\ \A i \in DOMAIN table : OurMountPoint(table[i]) =>
         \E k \in DOMAIN utrie : table[i] = utrie[k]
    /\ ~busy => \A k \in DOMAIN utrie : \A i \in DOMAIN table :
         table[i] = utrie[k] => ustate[k] # "done"

SubMountsInv ==
  /\ TypeOK /\ TrieInv /\ OursInv /\ VisitInv /\ LeaveInv /\ SweepInv
  /\ NoHiddenMount
----------------------------------------------------------------------------
(* Paths.                                                                  *)

(* Under compares the tokens of the two paths one by one. *)
LEMMA UnderByTokens ==
  ASSUME NEW p \in Path, NEW q \in Path
  PROVE  Under(p, q) <=> /\ Len(p) < Len(q) /\ q[Len(p) + 1] = "/"
                         /\ \A i \in 1..Len(p) : p[i] = q[i]
<1> DEFINE n == Len(p)
<1>1. n \in Nat /\ Len(q) \in Nat BY DEF Path
<1>2. p \in Seq(Tokens) /\ q \in Seq(Tokens) BY DEF Path
<1>3. SubSeq(p, 1, n) = p BY <1>2, SubSeqFull
<1>4. ASSUME n <= Len(q)
      PROVE  (p = SubSeq(q, 1, n)) <=> \A i \in 1..n : p[i] = q[i]
  <2>1. \A i \in 1..n : q[i] \in Tokens BY <1>1, <1>2, <1>4, ElementOfSeq
  <2>2. /\ SubSeq(q, 1, n) \in Seq(Tokens) /\ Len(SubSeq(q, 1, n)) = n
        /\ \A i \in 1..n : SubSeq(q, 1, n)[i] = q[i]
    BY <1>1, <1>2, <1>4, <2>1
  <2>3. (\A i \in 1..n : p[i] = q[i]) => p = SubSeq(q, 1, n)
    <3> SUFFICES ASSUME \A i \in 1..n : p[i] = q[i] PROVE p = SubSeq(q, 1, n) OBVIOUS
    <3> DEFINE t == SubSeq(q, 1, n)
    <3>1. t \in Seq(Tokens) /\ Len(p) = Len(t) /\ \A i \in 1..Len(p) : p[i] = t[i] BY <2>2
    <3> HIDE DEF t
    <3>2. p = t BY <1>2, <3>1, SeqEqual
    <3>3. QED BY <3>2 DEF t
  <2>4. QED BY <2>2, <2>3
<1>5. (n = Len(q) /\ \A i \in 1..n : p[i] = q[i]) => p = q
  BY <1>2, SeqEqual
<1>6. p = q => ~(n < Len(q)) BY <1>1
<1>7. QED BY <1>1, <1>3, <1>4, <1>5, <1>6 DEF Under, IsStrictPrefix, IsPrefix

(* What lies below a path that lies below another lies below that one. *)
LEMMA UnderTransitive ==
  ASSUME NEW p \in Path, NEW q \in Path, NEW r \in Path, Under(p, q), Under(q, r)
  PROVE  Under(p, r)
<1>1. Len(p) \in Nat /\ Len(q) \in Nat /\ Len(r) \in Nat BY DEF Path
<1>2. /\ Len(p) < Len(q) /\ q[Len(p) + 1] = "/"
      /\ \A i \in 1..Len(p) : p[i] = q[i]
  BY UnderByTokens
<1>3. Len(q) < Len(r) /\ \A i \in 1..Len(q) : q[i] = r[i]
  BY UnderByTokens
<1>4. Len(p) < Len(r) /\ r[Len(p) + 1] = "/" /\ \A i \in 1..Len(p) : p[i] = r[i]
  BY <1>1, <1>2, <1>3
<1>5. QED BY <1>4, UnderByTokens

(* Tokens of a path below the base. *)
LEMMA BaseConcat ==
  ASSUME NEW k \in Path
  PROVE  /\ Base \o k \in Path /\ Len(Base \o k) = Len(Base) + Len(k)
         /\ Len(Base) \in Nat /\ Len(k) \in Nat
         /\ \A i \in 1..Len(Base) : (Base \o k)[i] = Base[i]
         /\ \A i \in 1..Len(k) : (Base \o k)[Len(Base) + i] = k[i]
<1> DEFINE n == Len(Base)
<1>1. Base \in Seq(Tokens) /\ n \in Nat /\ k \in Seq(Tokens) /\ Len(k) \in Nat
  BY BaseAssumption DEF Path
<1>2. /\ Base \o k \in Seq(Tokens) /\ Len(Base \o k) = n + Len(k)
      /\ \A i \in 1 .. n + Len(k) : (Base \o k)[i] = IF i <= n THEN Base[i] ELSE k[i - n]
  BY <1>1, ConcatProperties
<1> HIDE DEF n
<1>3. \A i \in 1..Len(k) : n + i \in 1..(n + Len(k)) /\ ~(n + i <= n) /\ (n + i) - n = i
  BY <1>1
<1>4. \A i \in 1..n : i \in 1..(n + Len(k)) /\ i <= n BY <1>1
<1>5. \A i \in 1..n : (Base \o k)[i] = Base[i] BY <1>2, <1>4
<1>6. \A i \in 1..Len(k) : (Base \o k)[n + i] = k[i] BY <1>2, <1>3
<1>7. QED BY <1>1, <1>2, <1>5, <1>6 DEF Path, n

(* Relative paths lie as the paths themselves do. *)
LEMMA UnderConcat ==
  ASSUME NEW a \in Path, NEW k \in Path
  PROVE  Under(Base \o a, Base \o k) <=> Under(a, k)
<1> DEFINE x == Base \o a
           y == Base \o k
           n == Len(Base)
<1>1. Len(a) \in Nat /\ Len(k) \in Nat /\ n \in Nat BY BaseAssumption DEF Path
<1>2. /\ x \in Path /\ Len(x) = n + Len(a)
      /\ \A i \in 1..n : x[i] = Base[i]
      /\ \A i \in 1..Len(a) : x[n + i] = a[i]
  BY BaseConcat
<1>3. /\ y \in Path /\ Len(y) = n + Len(k)
      /\ \A i \in 1..n : y[i] = Base[i]
      /\ \A i \in 1..Len(k) : y[n + i] = k[i]
  BY BaseConcat
<1> HIDE DEF x, y, n
<1>4. Under(x, y) <=> /\ Len(x) < Len(y) /\ y[Len(x) + 1] = "/"
                      /\ \A i \in 1..Len(x) : x[i] = y[i]
  BY <1>2, <1>3, UnderByTokens
<1>5. Under(a, k) <=> /\ Len(a) < Len(k) /\ k[Len(a) + 1] = "/"
                      /\ \A i \in 1..Len(a) : a[i] = k[i]
  BY UnderByTokens
<1>6. Len(x) < Len(y) <=> Len(a) < Len(k) BY <1>1, <1>2, <1>3
<1>7. ASSUME Len(a) < Len(k) PROVE y[Len(x) + 1] = k[Len(a) + 1]
  <2>1. Len(a) + 1 \in 1..Len(k) /\ Len(x) + 1 = n + (Len(a) + 1) BY <1>1, <1>2, <1>7
  <2>2. QED BY <1>3, <2>1
<1>8. ASSUME Len(a) < Len(k), \A i \in 1..Len(x) : x[i] = y[i], NEW i \in 1..Len(a)
      PROVE  a[i] = k[i]
  <2>1. n + i \in 1..Len(x) /\ i \in 1..Len(k) BY <1>1, <1>2, <1>8
  <2>2. QED BY <1>2, <1>3, <1>8, <2>1
<1>9. ASSUME Len(a) < Len(k), \A i \in 1..Len(a) : a[i] = k[i], NEW i \in 1..Len(x)
      PROVE  x[i] = y[i]
  <2>1. CASE i \in 1..n BY <1>2, <1>3, <2>1
  <2>2. CASE i \notin 1..n
    <3>1. i - n \in 1..Len(a) /\ i - n \in 1..Len(k) /\ n + (i - n) = i
      BY <1>1, <1>2, <1>9, <2>2
    <3>2. x[n + (i - n)] = a[i - n] /\ y[n + (i - n)] = k[i - n] /\ a[i - n] = k[i - n]
      BY <1>2, <1>3, <1>9, <3>1
    <3>3. QED BY <3>1, <3>2
  <2>3. QED BY <2>1, <2>2
<1>10. QED BY <1>4, <1>5, <1>6, <1>7, <1>8, <1>9 DEF x, y

(* Different keys are mounted at different paths. *)
LEMMA ConcatInjective ==
  ASSUME NEW a \in Path, NEW k \in Path, Base \o a = Base \o k
  PROVE  a = k
<1>1. /\ a \in Seq(Tokens) /\ k \in Seq(Tokens)
      /\ Len(a) \in Nat /\ Len(k) \in Nat
  BY DEF Path
<1>2. /\ Len(Base) \in Nat /\ Len(Base \o a) = Len(Base) + Len(a)
      /\ \A i \in 1..Len(a) : (Base \o a)[Len(Base) + i] = a[i]
  BY BaseConcat
<1>3. /\ Len(Base \o k) = Len(Base) + Len(k)
      /\ \A i \in 1..Len(k) : (Base \o k)[Len(Base) + i] = k[i]
  BY BaseConcat
<1>4. Len(a) = Len(k) BY <1>1, <1>2, <1>3
<1>5. \A i \in 1..Len(a) : a[i] = k[i] BY <1>2, <1>3, <1>4
<1>6. QED BY <1>1, <1>4, <1>5, SeqEqual

(* StripPrefix leaves the tokens that follow those of the base. *)
LEMMA StripTokens ==
  ASSUME NEW b \in Path, NEW p \in Path, Len(b) <= Len(p)
  PROVE  /\ StripPrefix(p, b) \in Path /\ Len(StripPrefix(p, b)) = Len(p) - Len(b)
         /\ \A i \in 1..(Len(p) - Len(b)) : StripPrefix(p, b)[i] = p[Len(b) + i]
<1> DEFINE m == Len(b)
           n == Len(p)
<1>1. p \in Seq(Tokens) /\ n \in Nat /\ m \in Nat BY DEF Path
<1>2. \A i \in (m + 1)..n : p[i] \in Tokens BY <1>1, ElementOfSeq
<1>3. /\ SubSeq(p, m + 1, n) \in Seq(Tokens)
      /\ Len(SubSeq(p, m + 1, n)) = IF m + 1 <= n THEN n - (m + 1) + 1 ELSE 0
      /\ \A i \in 1 .. n - (m + 1) + 1 : SubSeq(p, m + 1, n)[i] = p[(m + 1) + i - 1]
  BY <1>1, <1>2, SubSeqProperties
<1>4. StripPrefix(p, b) = SubSeq(p, m + 1, n) BY DEF StripPrefix
<1>5. m <= n OBVIOUS
<1> HIDE DEF m, n
<1>6. Len(SubSeq(p, m + 1, n)) = n - m BY <1>1, <1>3, <1>5
<1>7. ASSUME NEW i \in 1..(n - m) PROVE SubSeq(p, m + 1, n)[i] = p[m + i]
  <2>1. i \in 1 .. n - (m + 1) + 1 /\ (m + 1) + i - 1 = m + i BY <1>1
  <2>2. QED BY <1>3, <2>1
<1>8. QED BY <1>3, <1>4, <1>6, <1>7 DEF Path, m, n

(* Put below the base again, a relative path is the path it was taken from. *)
LEMMA StripBase ==
  ASSUME NEW p \in Path, OurMountPoint(p)
  PROVE  StripPrefix(p, Base) \in Path /\ Base \o StripPrefix(p, Base) = p
<1> DEFINE k == StripPrefix(p, Base)
           m == Len(Base)
           n == Len(p)
<1>1. p \in Seq(Tokens) /\ n \in Nat /\ Base \in Path /\ m \in Nat BY BaseAssumption DEF Path
<1>2. m <= n /\ \A i \in 1..m : Base[i] = p[i]
  <2>1. CASE p = Base BY <1>1, <2>1
  <2>2. CASE Under(Base, p)
    <3>1. m < n /\ \A i \in 1..m : Base[i] = p[i] BY <1>1, <2>2, UnderByTokens
    <3>2. QED BY <1>1, <3>1
  <2>3. QED BY <2>1, <2>2 DEF OurMountPoint
<1>3. /\ k \in Path /\ Len(k) = n - m
      /\ \A i \in 1..(n - m) : k[i] = p[m + i]
  BY <1>1, <1>2, StripTokens
<1> HIDE DEF k
<1>4. /\ Base \o k \in Seq(Tokens) /\ Len(Base \o k) = m + Len(k)
      /\ \A i \in 1..m : (Base \o k)[i] = Base[i]
      /\ \A i \in 1..Len(k) : (Base \o k)[m + i] = k[i]
  BY <1>3, BaseConcat DEF Path
<1> HIDE DEF m, n
<1>5. Len(Base \o k) = n BY <1>1, <1>3, <1>4
<1>6. ASSUME NEW i \in 1..n PROVE (Base \o k)[i] = p[i]
  <2>1. CASE i \in 1..m BY <1>2, <1>4, <2>1
  <2>2. CASE i \notin 1..m
    <3>1. i - m \in 1..(n - m) /\ m + (i - m) = i BY <1>1, <2>2
    <3>2. (Base \o k)[m + (i - m)] = k[i - m] /\ k[i - m] = p[m + (i - m)] BY <1>3, <1>4, <3>1
    <3>3. QED BY <3>1, <3>2
  <2>3. QED BY <2>1, <2>2
<1>7. Base \o k = p BY <1>1, <1>4, <1>5, <1>6, SeqEqual DEF n
<1>8. QED BY <1>3, <1>7 DEF k

(* An export's relative path, put below the base, lies below it. *)
LEMMA StripShare ==
  ASSUME NEW e \in Path, Under(Share, e)
  PROVE  StripPrefix(e, Share) \in Path /\ Under(Base, Base \o StripPrefix(e, Share))
<1> DEFINE k == StripPrefix(e, Share)
           m == Len(Share)
           n == Len(e)
           b == Len(Base)
<1>1. Share \in Path /\ Base \in Path /\ n \in Nat /\ m \in Nat /\ b \in Nat
  BY BaseAssumption DEF Path
<1>2. m < n /\ e[m + 1] = "/" BY <1>1, UnderByTokens
<1>3. /\ k \in Path /\ Len(k) = n - m
      /\ \A i \in 1..(n - m) : k[i] = e[m + i]
  BY <1>1, <1>2, StripTokens
<1> HIDE DEF k
<1>4. /\ Base \o k \in Path /\ Len(Base \o k) = b + Len(k)
      /\ \A i \in 1..b : (Base \o k)[i] = Base[i]
      /\ \A i \in 1..Len(k) : (Base \o k)[b + i] = k[i]
  BY <1>3, BaseConcat
<1> HIDE DEF m, n
<1>5. 1 \in 1..(n - m) /\ 1 \in 1..Len(k) BY <1>1, <1>2, <1>3
<1>6. (Base \o k)[b + 1] = "/" BY <1>2, <1>3, <1>4, <1>5
<1>7. b < Len(Base \o k) BY <1>1, <1>4, <1>5
<1>8. Under(Base, Base \o k) BY <1>1, <1>4, <1>6, <1>7, UnderByTokens
<1>9. QED BY <1>3, <1>8 DEF k
----------------------------------------------------------------------------
(* The mount table.                                                        *)

(* A mount is added at the end. *)
LEMMA TableAppend ==
  ASSUME NEW t \in Seq(Path), NEW p \in Path
  PROVE  /\ Append(t, p) \in Seq(Path)
         /\ DOMAIN t = 1..Len(t) /\ Len(t) \in Nat
         /\ DOMAIN Append(t, p) = 1..(Len(t) + 1)
         /\ \A i \in 1..Len(t) : Append(t, p)[i] = t[i]
         /\ Append(t, p)[Len(t) + 1] = p
<1>1. Len(t) \in Nat /\ DOMAIN t = 1..Len(t) BY LenProperties
<1>2. /\ Append(t, p) \in Seq(Path) /\ Len(Append(t, p)) = Len(t) + 1
      /\ \A i \in 1..Len(t) : Append(t, p)[i] = t[i]
      /\ Append(t, p)[Len(t) + 1] = p
  BY AppendProperties
<1>3. QED BY <1>1, <1>2, LenProperties

\* u is t without the mount at position x: the others keep their order
Without(t, u, x) ==
  /\ u \in Seq(Path)
  /\ \A i \in DOMAIN u :
       \E f \in DOMAIN t : f # x /\ u[i] = t[f]
  /\ \A i, j \in DOMAIN u : i < j =>
       \E f, g \in DOMAIN t : f < g /\ f # x /\ g # x /\ u[i] = t[f] /\ u[j] = t[g]
  /\ \A f \in DOMAIN t : f # x => \E i \in DOMAIN u : u[i] = t[f]

(* umount takes one mount out of the table and keeps the order of the others. *)
LEMMA TableRemove ==
  ASSUME NEW t \in Seq(Path), NEW x \in DOMAIN t
  PROVE  Without(t, RemoveAt(t, x), x)
<1> DEFINE n == Len(t)
           u == RemoveAt(t, x)
           at(i) == IF i < x THEN i ELSE i + 1
<1>1. n \in Nat /\ DOMAIN t = 1..n /\ t \in [1..n -> Path] BY LenProperties
<1>2. x \in 1..n /\ x \in Nat BY <1>1
<1>3. /\ SubSeq(t, 1, x - 1) \in Seq(Path) /\ Len(SubSeq(t, 1, x - 1)) = x - 1
      /\ \A i \in 1..(x - 1) : SubSeq(t, 1, x - 1)[i] = t[i]
  <2>1. \A i \in 1..(x - 1) : t[i] \in Path BY <1>1, <1>2
  <2>2. /\ SubSeq(t, 1, x - 1) \in Seq(Path)
        /\ Len(SubSeq(t, 1, x - 1)) = IF 1 <= x - 1 THEN (x - 1) - 1 + 1 ELSE 0
        /\ \A i \in 1..(x - 1) - 1 + 1 : SubSeq(t, 1, x - 1)[i] = t[1 + i - 1]
    BY <1>2, <2>1, SubSeqProperties
  <2>3. QED BY <1>2, <2>2
<1>4. /\ SubSeq(t, x + 1, n) \in Seq(Path) /\ Len(SubSeq(t, x + 1, n)) = n - x
      /\ \A i \in 1..(n - x) : SubSeq(t, x + 1, n)[i] = t[x + i]
  <2>1. \A i \in (x + 1)..n : t[i] \in Path BY <1>1, <1>2
  <2>2. /\ SubSeq(t, x + 1, n) \in Seq(Path)
        /\ Len(SubSeq(t, x + 1, n)) = IF x + 1 <= n THEN n - (x + 1) + 1 ELSE 0
        /\ \A i \in 1..n - (x + 1) + 1 : SubSeq(t, x + 1, n)[i] = t[(x + 1) + i - 1]
    BY <1>1, <1>2, <2>1, SubSeqProperties
  <2>3. QED BY <1>1, <1>2, <2>2
<1>5. u = SubSeq(t, 1, x - 1) \o SubSeq(t, x + 1, n) BY DEF RemoveAt
<1>6. /\ u \in Seq(Path) /\ Len(u) = n - 1
      /\ \A i \in 1..(n - 1) : u[i] = t[at(i)]
  <2> DEFINE s1 == SubSeq(t, 1, x - 1)
             s2 == SubSeq(t, x + 1, n)
  <2>1. /\ s1 \o s2 \in Seq(Path) /\ Len(s1 \o s2) = Len(s1) + Len(s2)
        /\ \A i \in 1 .. Len(s1) + Len(s2) : (s1 \o s2)[i] =
              IF i <= Len(s1) THEN s1[i] ELSE s2[i - Len(s1)]
    BY <1>3, <1>4, ConcatProperties
  <2>2. /\ Len(s1) = x - 1 /\ (\A i \in 1..(x - 1) : s1[i] = t[i])
        /\ Len(s2) = n - x /\ (\A i \in 1..(n - x) : s2[i] = t[x + i])
    BY <1>3, <1>4
  <2>3. u = s1 \o s2 BY <1>5
  <2> HIDE DEF s1, s2, u
  <2>4. Len(s1) + Len(s2) = n - 1 BY <1>1, <1>2, <2>2
  <2>5. ASSUME NEW i \in 1..(n - 1) PROVE u[i] = t[at(i)]
    <3>1. CASE i < x
      <4>1. i \in 1..(x - 1) /\ i <= x - 1 BY <1>1, <1>2, <3>1
      <4>2. QED BY <2>1, <2>2, <2>3, <2>4, <3>1, <4>1
    <3>2. CASE ~(i < x)
      <4>1. i - (x - 1) \in 1..(n - x) /\ ~(i <= x - 1) /\ x + (i - (x - 1)) = i + 1
        BY <1>1, <1>2, <3>2
      <4>2. u[i] = s2[i - (x - 1)] BY <2>1, <2>2, <2>3, <2>4, <4>1
      <4>3. s2[i - (x - 1)] = t[x + (i - (x - 1))] BY <2>2, <4>1
      <4>4. QED BY <3>2, <4>1, <4>2, <4>3
    <3>3. QED BY <3>1, <3>2
  <2>6. QED BY <2>1, <2>3, <2>4, <2>5
<1> HIDE DEF u
<1>7. DOMAIN u = 1..(n - 1) BY <1>6, LenProperties
<1>8. \A i \in 1..(n - 1) : at(i) \in 1..n /\ at(i) # x BY <1>1, <1>2
<1>9. \A i, j \in 1..(n - 1) : i < j => at(i) < at(j) BY <1>1, <1>2
<1>10. ASSUME NEW f \in DOMAIN t, f # x PROVE \E i \in DOMAIN u : u[i] = t[f]
  <2> DEFINE i == IF f < x THEN f ELSE f - 1
  <2>1. i \in 1..(n - 1) /\ at(i) = f BY <1>1, <1>2, <1>10
  <2>2. QED BY <1>6, <1>7, <2>1
<1> HIDE DEF at
<1>11. \A i \in DOMAIN u : \E f \in DOMAIN t : f # x /\ u[i] = t[f]
  BY <1>1, <1>6, <1>7, <1>8
<1>12. \A i, j \in DOMAIN u : i < j =>
         \E f, g \in DOMAIN t : f < g /\ f # x /\ g # x /\ u[i] = t[f] /\ u[j] = t[g]
  BY <1>1, <1>6, <1>7, <1>8, <1>9
<1>13. QED BY <1>6, <1>10, <1>11, <1>12 DEF u, Without

(* What an umount leaves in the table: no mount that was not there, in the  *)
(* order in which they were, and nothing at its path if that is the share's.*)
LEMMA UmountTable ==
  ASSUME SubMountsInv, NEW p, Umount(p)
  PROVE  /\ table' \in Seq(Path)
         /\ \A i \in DOMAIN table' : \E f \in DOMAIN table : table'[i] = table[f]
         /\ UNCHANGED <<mtrie, mstate>> => OursInv'
         /\ NoHiddenMount'
         /\ OurMountPoint(p) => \A i \in DOMAIN table' : table'[i] # p
         /\ \A q \in Range(table) : q # p => q \in Range(table')
<1>1. PICK x \in DOMAIN table : table[x] = p /\ table' = RemoveAt(table, x) BY DEF Umount
<1>2. table \in Seq(Path) BY DEF SubMountsInv, TypeOK
<1>3. Without(table, table', x) BY <1>1, <1>2, TableRemove
<1>4. /\ table' \in Seq(Path)
      /\ \A i \in DOMAIN table' : \E f \in DOMAIN table : f # x /\ table'[i] = table[f]
      /\ \A i, j \in DOMAIN table' : i < j =>
           \E f, g \in DOMAIN table : f < g /\ f # x /\ g # x
                                      /\ table'[i] = table[f] /\ table'[j] = table[g]
      /\ \A f \in DOMAIN table : f # x => \E i \in DOMAIN table' : table'[i] = table[f]
  BY <1>3 DEF Without
<1>5. NoHiddenMount' BY <1>4 DEF SubMountsInv, NoHiddenMount, NoneHidden
<1>6. OurMountPoint(p) => \A i \in DOMAIN table' : table'[i] # p
  BY <1>1, <1>4 DEF SubMountsInv, OursInv
<1>7. ASSUME UNCHANGED <<mtrie, mstate>> PROVE OursInv'
  <2>1. \A i \in DOMAIN table' : OurMountPoint(table'[i]) =>
          \/ table'[i] = Base
          \/ \E k \in DOMAIN mtrie' : mstate'[k] = "ok" /\ table'[i] = mtrie'[k]
    BY <1>4, <1>7 DEF SubMountsInv, OursInv
  <2>2. ASSUME NEW i \in DOMAIN table', NEW j \in DOMAIN table',
               OurMountPoint(table'[i]), table'[i] = table'[j], i < j
        PROVE  FALSE
    <3>1. PICK f, g \in DOMAIN table : f < g /\ table'[i] = table[f] /\ table'[j] = table[g]
      BY <1>4, <2>2
    <3>2. f = g BY <2>2, <3>1 DEF SubMountsInv, OursInv
    <3>3. f \in Nat /\ g \in Nat BY <1>2, LenProperties
    <3>4. QED BY <3>1, <3>2, <3>3
  <2>3. DOMAIN table' \subseteq Nat BY <1>4, LenProperties
  <2>4. \A i, j \in DOMAIN table' : i = j \/ i < j \/ j < i BY <2>3
  <2>5. \A i, j \in DOMAIN table' : OurMountPoint(table'[i]) /\ table'[i] = table'[j] => i = j
    BY <2>2, <2>4
  <2>6. QED BY <2>1, <2>5 DEF OursInv, OurMountPoint
<1>8. ASSUME NEW q \in Range(table), q # p PROVE q \in Range(table')
  <2>1. PICK f \in DOMAIN table : table[f] = q BY DEF Range
  <2>2. PICK i \in DOMAIN table' : table'[i] = q BY <1>1, <1>4, <1>8, <2>1
  <2>3. QED BY <2>2 DEF Range
<1>9. QED BY <1>4, <1>5, <1>6, <1>7, <1>8
----------------------------------------------------------------------------
(* The induction: the initial states, and one lemma per action.             *)

(* The exports have not been mounted, and nothing of the others is in the share's tree. *)
LEMMA InitInv == Init => SubMountsInv
<1> SUFFICES ASSUME Init PROVE SubMountsInv OBVIOUS
<1>1. PICK S \in ExportSets :
        /\ table = Append(Foreign, Base) /\ mtrie = Trie(S, Share, Base)
        /\ mstate = [k \in DOMAIN mtrie |-> "todo"]
  BY DEF Init
<1>2. /\ sess = "mounting" /\ cmd = "idle" /\ utrie = <<>> /\ ustate = <<>>
      /\ early = FALSE /\ busy = FALSE /\ faults = 0
  BY DEF Init
<1>3. /\ Foreign \in Seq(Path) /\ NoneHidden(Foreign) /\ Base \in Path
      /\ \A i \in DOMAIN Foreign : ~ OurMountPoint(Foreign[i])
  BY ForeignAssumption, BaseAssumption
<1>4. /\ DOMAIN mtrie = {StripPrefix(e, Share) : e \in S}
      /\ \A k \in DOMAIN mtrie : mtrie[k] = Base \o k
      /\ mtrie \in [DOMAIN mtrie -> {Base \o k : k \in DOMAIN mtrie}]
  BY <1>1 DEF Trie
<1>5. \A k \in DOMAIN mtrie : k \in Path /\ Base \o k \in Path /\ Under(Base, Base \o k)
  BY <1>4, StripShare, BaseConcat, ExportsAssumption
<1>6. DOMAIN utrie = {} /\ DOMAIN ustate = {} BY <1>2
<1> DEFINE n == Len(Foreign)
<1>7. /\ table \in Seq(Path) /\ DOMAIN Foreign = 1..n /\ n \in Nat
      /\ DOMAIN table = 1..(n + 1)
      /\ (\A i \in 1..n : table[i] = Foreign[i]) /\ table[n + 1] = Base
  BY <1>1, <1>3, TableAppend
<1> HIDE DEF n
<1>8. \A i \in DOMAIN table : i \in 1..n \/ i = n + 1 BY <1>7
<1>9. TypeOK
  <2>1. mtrie \in [DOMAIN mtrie -> Path] BY <1>4, <1>5
  <2>2. mstate \in [DOMAIN mtrie -> MountStates] BY <1>1 DEF MountStates
  <2>3. utrie \in [DOMAIN utrie -> Path] /\ ustate \in [DOMAIN utrie -> UmountStates]
    BY <1>2
  <2>4. faults \in 0..MaxFaults BY <1>2, FaultsAssumption
  <2>5. QED BY <1>2, <1>7, <2>1, <2>2, <2>3, <2>4 DEF TypeOK
<1>10. TrieInv BY <1>4, <1>5, <1>6 DEF TrieInv
<1>11. OursInv BY <1>3, <1>7, <1>8 DEF OursInv
<1>12. VisitInv /\ LeaveInv /\ SweepInv
  BY <1>1, <1>2, <1>6 DEF VisitInv, LeaveInv, SweepInv, Undisturbed
<1>13. NoHiddenMount
  <2> SUFFICES ASSUME NEW i \in DOMAIN table, NEW j \in DOMAIN table, i < j
               PROVE  ~ Under(table[j], table[i])
    BY DEF NoHiddenMount, NoneHidden
  <2>1. i \in 1..n BY <1>7, <1>8
  <2>2. CASE j \in 1..n BY <1>3, <1>7, <2>1, <2>2 DEF NoneHidden
  <2>3. CASE j = n + 1 BY <1>3, <1>7, <2>1, <2>3 DEF OurMountPoint
  <2>4. QED BY <1>8, <2>2, <2>3
<1>14. QED BY <1>9, <1>10, <1>11, <1>12, <1>13 DEF SubMountsInv

(* MountReady is what VisitInv asks of the export that is visited next. *)
LEMMA StartMountInv ==
  ASSUME SubMountsInv, NEW k \in DOMAIN mtrie, StartMount(k)
  PROVE  SubMountsInv'
<1>1. /\ sess = "mounting" /\ mstate[k] = "todo" /\ mstate' = [mstate EXCEPT ![k] = "run"]
      /\ \A a \in DOMAIN mtrie : Under(a, k) => mstate[a] = "ok"
      /\ UNCHANGED <<table, sess, mtrie, cmd, utrie, ustate, early, busy, faults>>
  BY DEF StartMount, MountReady
<1>2. mstate \in [DOMAIN mtrie -> MountStates] BY DEF SubMountsInv, TypeOK
<1>3. mstate'[k] = "run" /\ \A d \in DOMAIN mtrie : d # k => mstate'[d] = mstate[d]
  BY <1>1, <1>2
<1>4. TypeOK'
  <2>1. mstate' \in [DOMAIN mtrie -> MountStates] BY <1>1, <1>2 DEF MountStates
  <2>2. QED BY <1>1, <2>1 DEF SubMountsInv, TypeOK
<1>5. \A d \in DOMAIN mtrie : mstate[d] = "ok" => mstate'[d] = "ok" BY <1>1, <1>3
<1>6. OursInv'
  <2>1. \A i \in DOMAIN table : OurMountPoint(table[i]) =>
          \/ table[i] = Base
          \/ \E d \in DOMAIN mtrie : mstate'[d] = "ok" /\ table[i] = mtrie[d]
    BY <1>5 DEF SubMountsInv, OursInv
  <2>2. QED BY <1>1, <2>1 DEF SubMountsInv, OursInv, OurMountPoint
<1>7. VisitInv'
  <2>1. ASSUME NEW a \in DOMAIN mtrie, NEW d \in DOMAIN mtrie, Under(a, d), mstate'[d] # "todo"
        PROVE  mstate'[a] = "ok"
    <3>1. CASE d = k BY <1>1, <1>5, <2>1, <3>1
    <3>2. CASE d # k BY <1>3, <1>5, <2>1, <3>2 DEF SubMountsInv, VisitInv
    <3>3. QED BY <3>1, <3>2
  <2>2. QED BY <1>1, <2>1 DEF VisitInv
<1>8. TrieInv' /\ LeaveInv' /\ SweepInv' /\ NoHiddenMount'
  BY <1>1 DEF SubMountsInv, TrieInv, LeaveInv, SweepInv, Undisturbed, NoHiddenMount,
              OurMountPoint
<1>9. QED BY <1>4, <1>6, <1>7, <1>8 DEF SubMountsInv

(* The new mount hides nothing: what lies below it would have been visited after it. *)
LEMMA MountDoneInv ==
  ASSUME SubMountsInv, NEW k \in DOMAIN mtrie, MountDone(k)
  PROVE  SubMountsInv'
<1>1. /\ mstate[k] = "run" /\ mstate' = [mstate EXCEPT ![k] = "ok"]
      /\ table' = Append(table, mtrie[k])
      /\ UNCHANGED <<sess, mtrie, cmd, utrie, ustate, early, busy, faults>>
  BY DEF MountDone
<1>2. mstate \in [DOMAIN mtrie -> MountStates] /\ table \in Seq(Path) BY DEF SubMountsInv, TypeOK
<1>3. mstate'[k] = "ok" /\ \A d \in DOMAIN mtrie : d # k => mstate'[d] = mstate[d]
  BY <1>1, <1>2
<1>4. /\ k \in Path /\ mtrie[k] = Base \o k /\ Under(Base, mtrie[k]) /\ mtrie[k] \in Path
      /\ \A d \in DOMAIN mtrie : d \in Path /\ mtrie[d] = Base \o d
  BY DEF SubMountsInv, TrieInv, TypeOK
<1> DEFINE n == Len(table)
<1>5. /\ table' \in Seq(Path) /\ DOMAIN table = 1..n /\ n \in Nat
      /\ DOMAIN table' = 1..(n + 1)
      /\ (\A i \in 1..n : table'[i] = table[i]) /\ table'[n + 1] = mtrie[k]
  BY <1>1, <1>2, <1>4, TableAppend
<1> HIDE DEF n
<1>6. \A i \in DOMAIN table' : i \in 1..n \/ i = n + 1 BY <1>5
<1>7. \A d \in DOMAIN mtrie : mstate[d] = "ok" => mstate'[d] = "ok" BY <1>3
<1>8. sess = "mounting" BY <1>1 DEF SubMountsInv, VisitInv
\* what is mounted in the share's tree, other than the share, is an export's
<1>9. ASSUME NEW i \in 1..n, OurMountPoint(table[i])
      PROVE  \/ table[i] = Base
             \/ \E d \in DOMAIN mtrie : mstate[d] = "ok" /\ d # k /\ table[i] = mtrie[d]
  BY <1>1, <1>5, <1>9 DEF SubMountsInv, OursInv
<1>10. ASSUME NEW i \in 1..n PROVE table[i] # mtrie[k]
  <2> SUFFICES ASSUME table[i] = mtrie[k] PROVE FALSE OBVIOUS
  <2>1. Under(Base, table[i]) BY <1>4
  <2>2. table[i] # Base BY <2>1 DEF Under, IsStrictPrefix
  <2>3. PICK d \in DOMAIN mtrie : d # k /\ table[i] = mtrie[d] BY <1>9, <2>1, <2>2 DEF OurMountPoint
  <2>4. QED BY <1>4, <2>3, ConcatInjective
<1>11. ASSUME NEW i \in 1..n PROVE ~ Under(mtrie[k], table[i])
  <2> SUFFICES ASSUME Under(mtrie[k], table[i]) PROVE FALSE OBVIOUS
  <2>1. table[i] \in Path BY <1>2, <1>5, ElementOfSeq
  <2>2. Under(Base, table[i]) BY <1>4, <2>1, UnderTransitive, BaseAssumption
  <2>3. table[i] # Base BY <2>2 DEF Under, IsStrictPrefix
  <2>4. PICK d \in DOMAIN mtrie : mstate[d] = "ok" /\ table[i] = mtrie[d]
    BY <1>9, <2>2, <2>3 DEF OurMountPoint
  <2>5. Under(k, d) BY <1>4, <2>4, UnderConcat
  <2>6. mstate[k] = "ok" BY <2>4, <2>5 DEF SubMountsInv, VisitInv
  <2>7. QED BY <1>1, <2>6
<1>12. TypeOK'
  <2>1. mstate' \in [DOMAIN mtrie -> MountStates] BY <1>1, <1>2 DEF MountStates
  <2>2. QED BY <1>1, <1>5, <2>1 DEF SubMountsInv, TypeOK
<1>13. OursInv'
  <2>1. ASSUME NEW i \in DOMAIN table', OurMountPoint(table'[i])
        PROVE  \/ table'[i] = Base
               \/ \E d \in DOMAIN mtrie : mstate'[d] = "ok" /\ table'[i] = mtrie[d]
    <3>1. CASE i \in 1..n BY <1>5, <1>7, <1>9, <2>1, <3>1
    <3>2. CASE i = n + 1 BY <1>3, <1>5, <3>2
    <3>3. QED BY <1>6, <3>1, <3>2
  <2>2. ASSUME NEW i \in DOMAIN table', NEW j \in DOMAIN table',
               OurMountPoint(table'[i]), table'[i] = table'[j]
        PROVE  i = j
    <3>1. CASE i \in 1..n /\ j \in 1..n BY <1>5, <2>2, <3>1 DEF SubMountsInv, OursInv
    <3>2. CASE i \in 1..n /\ j = n + 1 BY <1>5, <1>10, <2>2, <3>2
    <3>3. CASE i = n + 1 /\ j \in 1..n BY <1>5, <1>10, <2>2, <3>3
    <3>4. QED BY <1>6, <3>1, <3>2, <3>3
  <2>3. QED BY <1>1, <2>1, <2>2 DEF OursInv, OurMountPoint
<1>14. VisitInv'
  <2>1. ASSUME NEW a \in DOMAIN mtrie, NEW d \in DOMAIN mtrie, Under(a, d), mstate'[d] # "todo"
        PROVE  mstate'[a] = "ok"
    <3>1. mstate[d] # "todo" BY <1>1, <1>3, <2>1
    <3>2. QED BY <1>7, <2>1, <3>1 DEF SubMountsInv, VisitInv
  <2>2. QED BY <1>1, <1>8, <2>1 DEF VisitInv
<1>15. NoHiddenMount'
  <2> SUFFICES ASSUME NEW i \in DOMAIN table', NEW j \in DOMAIN table', i < j
               PROVE  ~ Under(table'[j], table'[i])
    BY DEF NoHiddenMount, NoneHidden
  <2>1. i \in 1..n BY <1>5, <1>6
  <2>2. CASE j \in 1..n BY <1>5, <2>1, <2>2 DEF SubMountsInv, NoHiddenMount, NoneHidden
  <2>3. CASE j = n + 1 BY <1>5, <1>11, <2>1, <2>3
  <2>4. QED BY <1>6, <2>2, <2>3
<1>16. SweepInv' BY <1>1, <1>8 DEF SubMountsInv, SweepInv, Undisturbed
<1>17. TrieInv' /\ LeaveInv' BY <1>1 DEF SubMountsInv, TrieInv, LeaveInv, OurMountPoint
<1>18. QED BY <1>12, <1>13, <1>14, <1>15, <1>16, <1>17 DEF SubMountsInv

(* A mount that fails leaves the exports around it mounted, or as others left them. *)
LEMMA MountFailsInv ==
  ASSUME SubMountsInv, NEW k \in DOMAIN mtrie, MountFails(k)
  PROVE  SubMountsInv'
<1>1. /\ mstate[k] = "run" /\ mstate' = [mstate EXCEPT ![k] = "failed"]
      /\ faults' = faults \/ (faults < MaxFaults /\ faults' = faults + 1)
      /\ UNCHANGED <<table, sess, mtrie, cmd, utrie, ustate, early, busy>>
  BY DEF MountFails
<1>2. mstate \in [DOMAIN mtrie -> MountStates] /\ faults \in 0..MaxFaults BY DEF SubMountsInv, TypeOK
<1>3. mstate'[k] = "failed" /\ \A d \in DOMAIN mtrie : d # k => mstate'[d] = mstate[d]
  BY <1>1, <1>2
<1>4. TypeOK'
  <2>1. mstate' \in [DOMAIN mtrie -> MountStates] BY <1>1, <1>2 DEF MountStates
  <2>2. faults' \in 0..MaxFaults BY <1>1, <1>2, FaultsAssumption
  <2>3. QED BY <1>1, <2>1, <2>2 DEF SubMountsInv, TypeOK
<1>5. \A d \in DOMAIN mtrie : mstate[d] = "ok" => mstate'[d] = "ok" BY <1>1, <1>3
<1>6. OursInv'
  <2>1. \A i \in DOMAIN table : OurMountPoint(table[i]) =>
          \/ table[i] = Base
          \/ \E d \in DOMAIN mtrie : mstate'[d] = "ok" /\ table[i] = mtrie[d]
    BY <1>5 DEF SubMountsInv, OursInv
  <2>2. QED BY <1>1, <2>1 DEF SubMountsInv, OursInv, OurMountPoint
<1>7. VisitInv'
  <2>1. ASSUME NEW a \in DOMAIN mtrie, NEW d \in DOMAIN mtrie, Under(a, d), mstate'[d] # "todo"
        PROVE  mstate'[a] = "ok"
    <3>1. mstate[d] # "todo" BY <1>1, <1>3, <2>1
    <3>2. QED BY <1>5, <2>1, <3>1 DEF SubMountsInv, VisitInv
  <2>2. \A d \in DOMAIN mtrie : mstate[d] # "run" => mstate'[d] # "run" BY <1>3
  <2>3. QED BY <1>1, <2>1, <2>2 DEF SubMountsInv, VisitInv
<1>8. TrieInv' /\ LeaveInv' /\ SweepInv' /\ NoHiddenMount'
  BY <1>1 DEF SubMountsInv, TrieInv, LeaveInv, SweepInv, Undisturbed, NoHiddenMount,
              OurMountPoint
<1>9. QED BY <1>4, <1>6, <1>7, <1>8 DEF SubMountsInv

(* No mount is running any more when mount_subdirectories returns. *)
LEMMA MountsReturnInv == SubMountsInv /\ MountsReturn => SubMountsInv'
<1> SUFFICES ASSUME SubMountsInv, MountsReturn PROVE SubMountsInv' OBVIOUS
<1>1. /\ sess' = "waiting" /\ \A k \in DOMAIN mtrie : mstate[k] # "run"
      /\ UNCHANGED <<table, mtrie, mstate, cmd, utrie, ustate, early, busy, faults>>
  BY DEF MountsReturn
<1>2. TypeOK' BY <1>1 DEF SubMountsInv, TypeOK
<1>3. VisitInv' BY <1>1 DEF SubMountsInv, VisitInv
<1>4. TrieInv' /\ OursInv' /\ LeaveInv' /\ SweepInv' /\ NoHiddenMount'
  BY <1>1 DEF SubMountsInv, TrieInv, OursInv, LeaveInv, SweepInv, Undisturbed,
              NoHiddenMount, OurMountPoint
<1>5. QED BY <1>2, <1>3, <1>4 DEF SubMountsInv

(* The session's wait ends. *)
LEMMA ShareUnmountedInv == SubMountsInv /\ ShareUnmounted => SubMountsInv'
<1> SUFFICES ASSUME SubMountsInv, ShareUnmounted PROVE SubMountsInv' OBVIOUS
<1>1. /\ sess = "waiting" /\ sess' = "ended"
      /\ UNCHANGED <<table, mtrie, mstate, cmd, utrie, ustate, early, busy, faults>>
  BY DEF ShareUnmounted
<1>2. TypeOK' BY <1>1 DEF SubMountsInv, TypeOK
<1>3. VisitInv' BY <1>1 DEF SubMountsInv, VisitInv
<1>4. TrieInv' /\ OursInv' /\ LeaveInv' /\ SweepInv' /\ NoHiddenMount'
  BY <1>1 DEF SubMountsInv, TrieInv, OursInv, LeaveInv, SweepInv, Undisturbed,
              NoHiddenMount, OurMountPoint
<1>5. QED BY <1>2, <1>3, <1>4 DEF SubMountsInv

(* Others only take mounts away. *)
LEMMA OtherUmountInv ==
  ASSUME SubMountsInv, NEW p, OtherUmount(p)
  PROVE  SubMountsInv'
<1>1. Umount(p) /\ UNCHANGED <<sess, mtrie, mstate, cmd, utrie, ustate, early, busy, faults>>
  BY DEF OtherUmount
<1>2. /\ table' \in Seq(Path) /\ OursInv' /\ NoHiddenMount'
      /\ \A i \in DOMAIN table' : \E f \in DOMAIN table : table'[i] = table[f]
  BY <1>1, UmountTable
<1>3. TypeOK' BY <1>1, <1>2 DEF SubMountsInv, TypeOK
<1>4. TrieInv' /\ VisitInv' /\ LeaveInv'
  BY <1>1 DEF SubMountsInv, TrieInv, VisitInv, LeaveInv, OurMountPoint
<1>5. SweepInv' BY <1>1, <1>2 DEF SubMountsInv, SweepInv, Undisturbed, OurMountPoint
<1>6. QED BY <1>2, <1>3, <1>4, <1>5 DEF SubMountsInv

(* The command has not built its trie yet. *)
LEMMA ValidateInv == SubMountsInv /\ Validate => SubMountsInv'
<1> SUFFICES ASSUME SubMountsInv, Validate PROVE SubMountsInv' OBVIOUS
<1>1. /\ cmd = "idle" /\ cmd' \in {"checked", "done"}
      /\ UNCHANGED <<table, sess, mtrie, mstate, utrie, ustate, early, busy, faults>>
  BY DEF Validate
<1>2. DOMAIN utrie = {} BY <1>1 DEF SubMountsInv, LeaveInv
<1>3. TypeOK' BY <1>1 DEF SubMountsInv, TypeOK
<1>4. LeaveInv' BY <1>1, <1>2 DEF LeaveInv
<1>5. TrieInv' /\ OursInv' /\ VisitInv' /\ SweepInv' /\ NoHiddenMount'
  BY <1>1 DEF SubMountsInv, TrieInv, OursInv, VisitInv, SweepInv, Undisturbed,
              NoHiddenMount, OurMountPoint
<1>6. QED BY <1>3, <1>4, <1>5 DEF SubMountsInv

(* The trie of the command holds every mount of the share's tree. *)
LEMMA ReadTableInv == SubMountsInv /\ ReadTable => SubMountsInv'
<1> SUFFICES ASSUME SubMountsInv, ReadTable PROVE SubMountsInv' OBVIOUS
<1> DEFINE Ours == {p \in Range(table) : OurMountPoint(p)}
<1>1. /\ cmd' = "run" /\ early' = (sess = "mounting")
      /\ utrie' = UnmountTrie(Ours) /\ ustate' = [k \in DOMAIN utrie' |-> "todo"]
      /\ UNCHANGED <<table, sess, mtrie, mstate, busy, faults>>
  BY DEF ReadTable
<1>2. /\ DOMAIN utrie' = {StripPrefix(p, Base) : p \in {p \in Ours : OurMountPoint(p)}}
      /\ \A k \in DOMAIN utrie' : utrie'[k] = Base \o k
      /\ utrie' \in [DOMAIN utrie' -> {Base \o k : k \in DOMAIN utrie'}]
  BY <1>1 DEF UnmountTrie, Trie
<1>3. /\ table \in Seq(Path)
      /\ \A p \in Range(table) : p \in Path
      /\ \A i \in DOMAIN table : table[i] \in Range(table)
  BY ElementOfSeq, LenProperties DEF SubMountsInv, TypeOK, Range
<1>4. ASSUME NEW p \in Range(table), OurMountPoint(p)
      PROVE  /\ StripPrefix(p, Base) \in DOMAIN utrie' /\ StripPrefix(p, Base) \in Path
             /\ utrie'[StripPrefix(p, Base)] = p
  BY <1>2, <1>3, <1>4, StripBase
<1>5. \A k \in DOMAIN utrie' : k \in Path /\ utrie'[k] \in Path /\ OurMountPoint(utrie'[k])
  <2> SUFFICES ASSUME NEW k \in DOMAIN utrie'
               PROVE  k \in Path /\ utrie'[k] \in Path /\ OurMountPoint(utrie'[k])
    OBVIOUS
  <2>1. PICK p \in Range(table) : OurMountPoint(p) /\ k = StripPrefix(p, Base) BY <1>2
  <2>2. QED BY <1>3, <1>4, <2>1
<1>6. TypeOK'
  <2>1. utrie' \in [DOMAIN utrie' -> Path] BY <1>2, <1>5
  <2>2. ustate' \in [DOMAIN utrie' -> UmountStates] BY <1>1 DEF UmountStates
  <2>3. QED BY <1>1, <2>1, <2>2 DEF SubMountsInv, TypeOK
<1>7. TrieInv'
  <2>1. \A k \in DOMAIN mtrie : mtrie[k] = Base \o k /\ Under(Base, mtrie[k])
    BY DEF SubMountsInv, TrieInv
  <2>2. DOMAIN mtrie \subseteq Path BY DEF SubMountsInv, TrieInv
  <2>3. QED BY <1>1, <1>2, <1>5, <2>1, <2>2 DEF TrieInv, OurMountPoint
<1>8. LeaveInv' BY <1>1 DEF LeaveInv
<1>9. SweepInv'
  <2> SUFFICES ASSUME Undisturbed'
               PROVE  /\ sess' # "mounting"
                      /\ \A i \in DOMAIN table : OurMountPoint(table[i]) =>
                           \E k \in DOMAIN utrie' : table[i] = utrie'[k]
                      /\ \A k \in DOMAIN utrie' : ustate'[k] # "done"
    BY <1>1 DEF SweepInv, OurMountPoint
  <2>1. sess # "mounting" BY <1>1 DEF Undisturbed
  <2>2. \A i \in DOMAIN table : OurMountPoint(table[i]) =>
          \E k \in DOMAIN utrie' : table[i] = utrie'[k]
    BY <1>3, <1>4
  <2>3. QED BY <1>1, <2>1, <2>2
<1>10. OursInv' /\ VisitInv' /\ NoHiddenMount'
  BY <1>1 DEF SubMountsInv, OursInv, VisitInv, NoHiddenMount, OurMountPoint
<1>11. QED BY <1>6, <1>7, <1>8, <1>9, <1>10 DEF SubMountsInv

(* UmountReady is what LeaveInv asks of the mount point that is visited next. *)
LEMMA StartUmountInv ==
  ASSUME SubMountsInv, NEW k \in DOMAIN utrie, StartUmount(k)
  PROVE  SubMountsInv'
<1>1. /\ cmd = "run" /\ ustate[k] = "todo" /\ ustate' = [ustate EXCEPT ![k] = "run"]
      /\ \A d \in DOMAIN utrie : Under(k, d) => ustate[d] = "done"
      /\ UNCHANGED <<table, sess, mtrie, mstate, cmd, utrie, early, busy, faults>>
  BY DEF StartUmount, UmountReady
<1>2. ustate \in [DOMAIN utrie -> UmountStates] BY DEF SubMountsInv, TypeOK
<1>3. ustate'[k] = "run" /\ \A d \in DOMAIN utrie : d # k => ustate'[d] = ustate[d]
  BY <1>1, <1>2
<1>4. \A d \in DOMAIN utrie : ustate'[d] = "done" <=> ustate[d] = "done" BY <1>1, <1>3
<1>5. TypeOK'
  <2>1. ustate' \in [DOMAIN utrie -> UmountStates] BY <1>1, <1>2 DEF UmountStates
  <2>2. QED BY <1>1, <2>1 DEF SubMountsInv, TypeOK
<1>6. LeaveInv'
  <2>1. ASSUME NEW a \in DOMAIN utrie, NEW d \in DOMAIN utrie, Under(a, d), ustate'[a] # "todo"
        PROVE  ustate'[d] = "done"
    <3>1. CASE a = k BY <1>1, <1>4, <2>1, <3>1
    <3>2. CASE a # k BY <1>3, <1>4, <2>1, <3>2 DEF SubMountsInv, LeaveInv
    <3>3. QED BY <3>1, <3>2
  <2>2. QED BY <1>1, <2>1 DEF SubMountsInv, LeaveInv
<1>7. SweepInv' BY <1>1, <1>4 DEF SubMountsInv, SweepInv, Undisturbed, OurMountPoint
<1>8. TrieInv' /\ OursInv' /\ VisitInv' /\ NoHiddenMount'
  BY <1>1 DEF SubMountsInv, TrieInv, OursInv, VisitInv, NoHiddenMount, OurMountPoint
<1>9. QED BY <1>5, <1>6, <1>7, <1>8 DEF SubMountsInv

(* After its visit a mount point is gone, unless its file system was in use. *)
LEMMA UmountReturnsInv ==
  ASSUME SubMountsInv, NEW k \in DOMAIN utrie, UmountReturns(k)
  PROVE  SubMountsInv'
<1>1. /\ cmd = "run" /\ ustate[k] = "run" /\ ustate' = [ustate EXCEPT ![k] = "done"]
      /\ UNCHANGED <<sess, mtrie, mstate, cmd, utrie, early>>
  BY DEF UmountReturns
<1>2. \/ Umount(utrie[k]) /\ UNCHANGED <<busy, faults>>
      \/ ~CanUmount(utrie[k]) /\ UNCHANGED <<table, busy, faults>>
      \/ faults < MaxFaults /\ faults' = faults + 1 /\ busy' = TRUE /\ UNCHANGED table
  BY DEF UmountReturns
<1>3. /\ ustate \in [DOMAIN utrie -> UmountStates]
      /\ faults \in 0..MaxFaults /\ table \in Seq(Path)
      /\ k \in Path /\ utrie[k] \in Path /\ utrie[k] = Base \o k /\ OurMountPoint(utrie[k])
      /\ \A d \in DOMAIN utrie : d \in Path /\ utrie[d] = Base \o d
  BY DEF SubMountsInv, TypeOK, TrieInv
<1>4. ustate'[k] = "done" /\ \A d \in DOMAIN utrie : d # k => ustate'[d] = ustate[d]
  BY <1>1, <1>3
<1>5. /\ table' \in Seq(Path) /\ OursInv' /\ NoHiddenMount'
      /\ \A i \in DOMAIN table' : \E f \in DOMAIN table : table'[i] = table[f]
  <2>1. CASE Umount(utrie[k]) BY <1>1, <2>1, UmountTable
  <2>2. CASE UNCHANGED table
    BY <1>1, <1>3, <2>2 DEF SubMountsInv, OursInv, NoHiddenMount, OurMountPoint
  <2>3. QED BY <1>2, <2>1, <2>2
<1>6. TypeOK'
  <2>1. ustate' \in [DOMAIN utrie -> UmountStates] BY <1>1, <1>3 DEF UmountStates
  <2>2. faults' \in 0..MaxFaults BY <1>2, <1>3, FaultsAssumption
  <2>3. busy' \in BOOLEAN BY <1>2 DEF SubMountsInv, TypeOK
  <2>4. QED BY <1>1, <1>5, <2>1, <2>2, <2>3 DEF SubMountsInv, TypeOK
<1>7. LeaveInv'
  <2>1. ASSUME NEW a \in DOMAIN utrie, NEW d \in DOMAIN utrie, Under(a, d), ustate'[a] # "todo"
        PROVE  ustate'[d] = "done"
    <3>1. ustate[a] # "todo" BY <1>1, <1>4, <2>1
    <3>2. ustate[d] = "done" BY <2>1, <3>1 DEF SubMountsInv, LeaveInv
    <3>3. QED BY <1>4, <3>2
  <2>2. QED BY <1>1, <2>1 DEF LeaveInv
\* if the kernel refuses because of a mount below, that one is in the trie,
\* was visited before, and cannot be there
<1>8. ASSUME Undisturbed, ~busy' PROVE \A i \in DOMAIN table' : table'[i] # utrie[k]
  <2>1. ~busy BY <1>2, <1>8 DEF SubMountsInv, TypeOK
  <2>2. CASE Umount(utrie[k]) BY <1>3, <2>2, UmountTable
  <2>3. CASE ~CanUmount(utrie[k]) /\ UNCHANGED table
    <3> SUFFICES ASSUME NEW x \in DOMAIN table, table[x] = utrie[k] PROVE FALSE BY <2>3
    <3>1. utrie[k] \in Range(table) BY DEF Range
    <3>2. PICK i \in DOMAIN table : Under(utrie[k], table[i])
      BY <2>3, <3>1 DEF CanUmount, Below, Range
    <3>3. table[i] \in Path BY <1>3, ElementOfSeq, LenProperties
    <3>4. OurMountPoint(table[i])
      <4>1. CASE utrie[k] = Base BY <3>2, <4>1 DEF OurMountPoint
      <4>2. CASE Under(Base, utrie[k])
        <5>1. Under(Base, table[i]) BY <1>3, <3>2, <3>3, <4>2, UnderTransitive, BaseAssumption
        <5>2. QED BY <5>1 DEF OurMountPoint
      <4>3. QED BY <1>3, <4>1, <4>2 DEF OurMountPoint
    <3>5. PICK d \in DOMAIN utrie : table[i] = utrie[d]
      BY <1>8, <3>4 DEF SubMountsInv, SweepInv
    <3>6. Under(k, d) BY <1>3, <3>2, <3>5, UnderConcat
    <3>7. ustate[d] = "done" BY <1>1, <3>6 DEF SubMountsInv, LeaveInv
    <3>8. QED BY <1>8, <2>1, <3>5, <3>7 DEF SubMountsInv, SweepInv
  <2>4. QED BY <1>2, <1>8, <2>2, <2>3
<1>9. SweepInv'
  <2> SUFFICES ASSUME Undisturbed
               PROVE  /\ sess # "mounting"
                      /\ \A i \in DOMAIN table' : OurMountPoint(table'[i]) =>
                           \E d \in DOMAIN utrie : table'[i] = utrie[d]
                      /\ ~busy' => \A d \in DOMAIN utrie : \A i \in DOMAIN table' :
                           table'[i] = utrie[d] => ustate'[d] # "done"
    BY <1>1 DEF SweepInv, Undisturbed, OurMountPoint
  <2>1. sess # "mounting" BY DEF SubMountsInv, SweepInv
  <2>2. \A i \in DOMAIN table' : OurMountPoint(table'[i]) =>
          \E d \in DOMAIN utrie : table'[i] = utrie[d]
    BY <1>5 DEF SubMountsInv, SweepInv
  <2>3. ASSUME ~busy', NEW d \in DOMAIN utrie, NEW i \in DOMAIN table', table'[i] = utrie[d]
        PROVE  ustate'[d] # "done"
    <3>1. d # k BY <1>8, <2>3
    <3>2. ~busy BY <1>2, <2>3 DEF SubMountsInv, TypeOK
    <3>3. ustate[d] # "done" BY <1>5, <2>3, <3>2 DEF SubMountsInv, SweepInv
    <3>4. QED BY <1>4, <3>1, <3>3
  <2>4. QED BY <2>1, <2>2, <2>3
<1>10. TrieInv' /\ VisitInv' BY <1>1 DEF SubMountsInv, TrieInv, VisitInv, OurMountPoint
<1>11. QED BY <1>5, <1>6, <1>7, <1>9, <1>10 DEF SubMountsInv

(* A shell that does not start leaves the mount points as they are. *)
LEMMA ShellFailsInv ==
  ASSUME SubMountsInv, NEW k \in DOMAIN utrie, ShellFails(k)
  PROVE  SubMountsInv'
<1>1. /\ cmd = "run" /\ ustate[k] = "run" /\ ustate' = [ustate EXCEPT ![k] = "failed"]
      /\ faults < MaxFaults /\ faults' = faults + 1
      /\ UNCHANGED <<table, sess, mtrie, mstate, cmd, utrie, early, busy>>
  BY DEF ShellFails
<1>2. ustate \in [DOMAIN utrie -> UmountStates] /\ faults \in 0..MaxFaults
  BY DEF SubMountsInv, TypeOK
<1>3. ustate'[k] = "failed" /\ \A d \in DOMAIN utrie : d # k => ustate'[d] = ustate[d]
  BY <1>1, <1>2
<1>4. \A d \in DOMAIN utrie : /\ ustate'[d] = "done" <=> ustate[d] = "done"
                              /\ ustate'[d] = "todo" <=> ustate[d] = "todo"
  BY <1>1, <1>3
<1>5. TypeOK'
  <2>1. ustate' \in [DOMAIN utrie -> UmountStates] BY <1>1, <1>2 DEF UmountStates
  <2>2. faults' \in 0..MaxFaults BY <1>1, <1>2, FaultsAssumption
  <2>3. QED BY <1>1, <2>1, <2>2 DEF SubMountsInv, TypeOK
<1>6. LeaveInv' BY <1>1, <1>4 DEF SubMountsInv, LeaveInv
<1>7. SweepInv' BY <1>1, <1>4 DEF SubMountsInv, SweepInv, Undisturbed, OurMountPoint
<1>8. TrieInv' /\ OursInv' /\ VisitInv' /\ NoHiddenMount'
  BY <1>1 DEF SubMountsInv, TrieInv, OursInv, VisitInv, NoHiddenMount, OurMountPoint
<1>9. QED BY <1>5, <1>6, <1>7, <1>8 DEF SubMountsInv

(* The command returns when every mount point has been visited, or fails. *)
LEMMA CommandReturnsInv == SubMountsInv /\ CommandReturns => SubMountsInv'
<1> SUFFICES ASSUME SubMountsInv, CommandReturns PROVE SubMountsInv' OBVIOUS
<1>1. /\ cmd = "run"
      /\ cmd' = "error" \/ (cmd' = "done" /\ \A k \in DOMAIN utrie : ustate[k] = "done")
      /\ UNCHANGED <<table, sess, mtrie, mstate, utrie, ustate, early, busy, faults>>
  BY DEF CommandReturns
<1>2. TypeOK' BY <1>1 DEF SubMountsInv, TypeOK
<1>3. LeaveInv' BY <1>1 DEF SubMountsInv, LeaveInv
<1>4. TrieInv' /\ OursInv' /\ VisitInv' /\ SweepInv' /\ NoHiddenMount'
  BY <1>1 DEF SubMountsInv, TrieInv, OursInv, VisitInv, SweepInv, Undisturbed,
              NoHiddenMount, OurMountPoint
<1>5. QED BY <1>2, <1>3, <1>4 DEF SubMountsInv

(* Every step preserves the invariant. *)
LEMMA StepInv == SubMountsInv /\ [Next]_vars => SubMountsInv'
<1> SUFFICES ASSUME SubMountsInv, [Next]_vars PROVE SubMountsInv' OBVIOUS
<1>1. CASE Session
  BY <1>1, StartMountInv, MountDoneInv, MountFailsInv, MountsReturnInv, ShareUnmountedInv
  DEF Session
<1>2. CASE Command
  BY <1>2, ValidateInv, ReadTableInv, CommandReturnsInv, StartUmountInv, UmountReturnsInv,
     ShellFailsInv
  DEF Command
<1>3. CASE \E p \in Range(table) : OurMountPoint(p) /\ OtherUmount(p)
  BY <1>3, OtherUmountInv
<1>4. CASE UNCHANGED vars
  BY <1>4 DEF vars, SubMountsInv, TypeOK, TrieInv, OursInv, VisitInv, LeaveInv, SweepInv,
              Undisturbed, NoHiddenMount, OurMountPoint
<1>5. QED BY <1>1, <1>2, <1>3, <1>4 DEF Next
----------------------------------------------------------------------------
(* The inductive invariant, of every behaviour of the session, the command *)
(* and those who unmount by other means.                                   *)
THEOREM SubMountsInvariant == Spec => []SubMountsInv
<1>1. Init => SubMountsInv BY InitInv
<1>2. SubMountsInv /\ [Next]_vars => SubMountsInv' BY StepInv
<1>3. QED BY <1>1, <1>2, PTL DEF Spec

(* The variables have their types. *)
THEOREM SubMountsTypeCorrect == Spec => []TypeOK
<1>1. SubMountsInv => TypeOK BY DEF SubMountsInv
<1>2. QED BY <1>1, SubMountsInvariant, PTL

(* parallel_mount_recursive never mounts an export over one that lies      *)
(* inside it, whatever fails and whoever unmounts at the same time.        *)
THEOREM NoExportHidden == Spec => []NoHiddenMount
<1>1. SubMountsInv => NoHiddenMount BY DEF SubMountsInv
<1>2. QED BY <1>1, SubMountsInvariant, PTL

(* parallel_unmount_recursive leaves nothing of the share mounted, once it *)
(* has read the table after the mounts, met nothing in use and returns     *)
(* without an error, although it ignores every exit status.                *)
THEOREM UnmountLeavesNothing == Spec => []UnmountComplete
<1>1. ASSUME SubMountsInv PROVE UnmountComplete
  <2> SUFFICES ASSUME CompleteUnmount, NEW p \in Range(table), OurMountPoint(p) PROVE FALSE
    BY DEF UnmountComplete
  <2>1. PICK i \in DOMAIN table : table[i] = p BY DEF Range
  <2>2. Undisturbed /\ ~busy /\ \A k \in DOMAIN utrie : ustate[k] = "done"
    BY <1>1 DEF CompleteUnmount, Undisturbed, SubMountsInv, LeaveInv
  <2>3. PICK k \in DOMAIN utrie : table[i] = utrie[k]
    BY <1>1, <2>1, <2>2 DEF SubMountsInv, SweepInv
  <2>4. QED BY <1>1, <2>2, <2>3 DEF SubMountsInv, SweepInv
<1>2. QED BY <1>1, SubMountsInvariant, PTL

(* A path that is not of the share's tree never leaves the table: only an  *)
(* umount takes anything out, and it was given a path of the share's tree. *)
LEMMA StepKeepsOthers ==
  ASSUME SubMountsInv, [Next]_vars, NEW q \in Range(table), ~ OurMountPoint(q)
  PROVE  q \in Range(table')
<1>1. CASE UNCHANGED table BY <1>1
<1>2. CASE \E k \in DOMAIN mtrie : MountDone(k)
  <2>1. PICK k \in DOMAIN mtrie : MountDone(k) BY <1>2
  <2>2. table \in Seq(Path) /\ mtrie[k] \in Path /\ table' = Append(table, mtrie[k])
    BY <2>1 DEF SubMountsInv, TypeOK, MountDone
  <2>3. PICK i \in DOMAIN table : table[i] = q BY DEF Range
  <2>4. i \in DOMAIN table' /\ table'[i] = q BY <2>2, <2>3, TableAppend, LenProperties
  <2>5. QED BY <2>4 DEF Range
<1>3. CASE \E p : OurMountPoint(p) /\ Umount(p) BY <1>3, UmountTable
<1>4. \A k \in DOMAIN utrie : OurMountPoint(utrie[k]) BY DEF SubMountsInv, TrieInv
<1>5. CASE Session
  BY <1>1, <1>2, <1>5 DEF Session, StartMount, MountFails, MountsReturn, ShareUnmounted
<1>6. CASE Command
  BY <1>1, <1>3, <1>4, <1>6
  DEF Command, Validate, ReadTable, CommandReturns, StartUmount, UmountReturns, ShellFails
<1>7. CASE \E p \in Range(table) : OurMountPoint(p) /\ OtherUmount(p)
  BY <1>3, <1>7 DEF OtherUmount
<1>8. CASE UNCHANGED vars BY <1>1, <1>8 DEF vars
<1>9. QED BY <1>5, <1>6, <1>7, <1>8 DEF Next

(* run_unmount and unmount_nfs_subdirs tell the share's tree from its      *)
(* neighbours: those stay mounted, although the bytes of their paths may   *)
(* begin with the bytes of the share's.                                    *)
THEOREM UnmountKeepsNeighbours == Spec => []NeighboursKept
<1>1. Init => NeighboursKept
  <2> SUFFICES ASSUME Init, NEW i \in DOMAIN Foreign PROVE Foreign[i] \in Range(table)
    BY DEF NeighboursKept
  <2>1. Foreign \in Seq(Path) /\ Base \in Path /\ table = Append(Foreign, Base)
    BY ForeignAssumption, BaseAssumption DEF Init
  <2>2. i \in DOMAIN table /\ table[i] = Foreign[i] BY <2>1, TableAppend, LenProperties
  <2>3. QED BY <2>2 DEF Range
<1>2. SubMountsInv /\ NeighboursKept /\ [Next]_vars => NeighboursKept'
  BY ForeignAssumption, StepKeepsOthers DEF NeighboursKept
<1>3. QED BY <1>1, <1>2, SubMountsInvariant, PTL DEF Spec
=============================================================================
