---------------------------- MODULE RequestLists ----------------------------
(***************************************************************************)
(* Lists of requests under way: every page of the front end keeps one.     *)
(* The answer to any of them may come next; the request then leaves the    *)
(* list, and those its handler sends are added at the end.  These are the  *)
(* facts about such lists that the proofs about the pages rest on.         *)
(***************************************************************************)
EXTENDS Integers, SequenceTheorems, TLAPS

Has(s, k) == \E n \in 1 .. Len(s) : s[n].kind = k
Twice(s, k) == \E m, n \in 1 .. Len(s) : m # n /\ s[m].kind = k /\ s[n].kind = k

\* The last request of a kind is at n.
Latest(s, k, n) ==
  n \in 1 .. Len(s) /\ s[n].kind = k /\ \A m \in 1 .. Len(s) : m > n => s[m].kind # k

\* What is left of s when request n has been answered.
Unanswered(s, n) == SubSeq(s, 1, n - 1) \o SubSeq(s, n + 1, Len(s))

\* Leaving out the n-th request leaves the rest in its order.
LEMMA Removed ==
  ASSUME NEW C, NEW s \in Seq(C), NEW n \in 1 .. Len(s)
  PROVE  /\ Unanswered(s, n) \in Seq(C) /\ Len(Unanswered(s, n)) = Len(s) - 1
         /\ \A i \in 1 .. Len(s) - 1 : Unanswered(s, n)[i] = IF i < n THEN s[i] ELSE s[i + 1]
<1> DEFINE a == SubSeq(s, 1, n - 1)
           b == SubSeq(s, n + 1, Len(s))
<1>1. Len(s) \in Nat /\ n \in 1 .. Len(s) /\ n - 1 \in Int /\ n + 1 \in Int /\ 1 \in Int /\ Len(s) \in Int
  OBVIOUS
<1>2. (\A i \in 1 .. n - 1 : s[i] \in C) /\ \A i \in n + 1 .. Len(s) : s[i] \in C
  BY <1>1
<1>3. /\ a \in Seq(C) /\ Len(a) = IF 1 <= n - 1 THEN n - 1 - 1 + 1 ELSE 0
      /\ \A i \in 1 .. n - 1 - 1 + 1 : a[i] = s[1 + i - 1]
  BY <1>1, <1>2, SubSeqProperties
<1>4. /\ b \in Seq(C) /\ Len(b) = IF n + 1 <= Len(s) THEN Len(s) - (n + 1) + 1 ELSE 0
      /\ \A i \in 1 .. Len(s) - (n + 1) + 1 : b[i] = s[n + 1 + i - 1]
  BY <1>1, <1>2, SubSeqProperties
<1>5. Unanswered(s, n) = a \o b
  BY DEF Unanswered
<1> HIDE DEF a, b
<1>6. /\ Len(a) = n - 1 /\ Len(b) = Len(s) - n
      /\ \A i \in 1 .. n - 1 : a[i] = s[i]
      /\ \A i \in 1 .. Len(s) - n : b[i] = s[n + i]
  BY <1>1, <1>3, <1>4
<1>7. /\ a \o b \in Seq(C) /\ Len(a \o b) = Len(a) + Len(b)
      /\ \A i \in 1 .. Len(a) + Len(b) : (a \o b)[i] = IF i <= Len(a) THEN a[i] ELSE b[i - Len(a)]
  BY <1>3, <1>4, ConcatProperties
<1>8. ASSUME NEW i \in 1 .. Len(s) - 1
      PROVE  (a \o b)[i] = IF i < n THEN s[i] ELSE s[i + 1]
  <2>1. CASE i < n
    BY <1>1, <1>6, <1>7, <2>1
  <2>2. CASE ~(i < n)
    <3>1. i - Len(a) \in 1 .. Len(s) - n /\ n + (i - Len(a)) = i + 1 /\ ~(i <= Len(a))
      BY <1>1, <1>6, <2>2
    <3> QED
      BY <1>1, <1>6, <1>7, <2>2, <3>1
  <2> QED
    BY <2>1, <2>2
<1> QED
  BY <1>1, <1>5, <1>6, <1>7, <1>8

\* t is rest, followed by more.
Joined(rest, more, t) ==
  /\ Len(t) = Len(rest) + Len(more)
  /\ \A i \in 1 .. Len(t) : t[i] = IF i <= Len(rest) THEN rest[i] ELSE more[i - Len(rest)]

\* rest is s without its n-th element, and s itself when n is 0.
Without(s, n, rest) ==
  /\ Len(rest) = IF n = 0 THEN Len(s) ELSE Len(s) - 1
  /\ \A i \in 1 .. Len(rest) : rest[i] = IF n = 0 \/ i < n THEN s[i] ELSE s[i + 1]

\* The requests in t are those of s but for n, and more; and where the last one
\* of a kind comes from.
Replaced(s, n, more, t) ==
  /\ \A i \in 1 .. Len(t) :
       \/ \E j \in 1 .. Len(s) : j # n /\ t[i] = s[j]
       \/ \E j \in 1 .. Len(more) : t[i] = more[j]
  /\ \A j \in 1 .. Len(s) : j # n => \E i \in 1 .. Len(t) : t[i] = s[j]
  /\ \A j \in 1 .. Len(more) : \E i \in 1 .. Len(t) : t[i] = more[j]
  /\ \A k : Twice(t, k) => Has(more, k) \/ Twice(s, k)
  /\ n # 0 => \A k : s[n].kind = k /\ Has(t, k) => Has(more, k) \/ Twice(s, k)
  /\ \A k, i : Latest(t, k, i) =>
       \/ \E j : Latest(more, k, j) /\ t[i] = more[j]
       \/ /\ ~Has(more, k)
          /\ \E j \in 1 .. Len(s) :
               /\ j # n /\ t[i] = s[j] /\ s[j].kind = k
               /\ Latest(s, k, j) \/ (n # 0 /\ j < n /\ s[n].kind = k)

\* Without and Joined make Replaced.
LEMMA Spliced ==
  ASSUME NEW C, NEW s \in Seq(C), NEW n \in 0 .. Len(s), NEW more \in Seq(C),
         NEW rest \in Seq(C), NEW t \in Seq(C),
         Without(s, n, rest), Joined(rest, more, t)
  PROVE  Replaced(s, n, more, t)
<1> DEFINE from(i) == IF n = 0 \/ i < n THEN i ELSE i + 1
<1>0. /\ Len(s) \in Nat /\ n \in Nat /\ n <= Len(s)
      /\ Len(rest) \in Nat /\ Len(more) \in Nat
  OBVIOUS
<1>1. /\ Len(rest) = IF n = 0 THEN Len(s) ELSE Len(s) - 1
      /\ \A i \in 1 .. Len(rest) : rest[i] = s[from(i)]
  BY DEF Without
<1>3. /\ Len(t) = Len(rest) + Len(more)
      /\ \A i \in 1 .. Len(t) : t[i] = IF i <= Len(rest) THEN rest[i] ELSE more[i - Len(rest)]
  BY DEF Joined
<1> HIDE DEF from
<1>4. Len(t) \in Nat
  BY <1>3
<1>5. \A i \in 1 .. Len(rest) : /\ from(i) \in 1 .. Len(s) /\ from(i) # n
                                /\ i \in 1 .. Len(t) /\ t[i] = s[from(i)]
  BY <1>0, <1>1, <1>3, <1>4 DEF from
<1>6. \A j \in 1 .. Len(s) : j # n => \E i \in 1 .. Len(rest) : from(i) = j
  <2> TAKE j \in 1 .. Len(s)
  <2> HAVE j # n
  <2>1. CASE n = 0 \/ j < n
    BY <1>0, <1>1, <2>1 DEF from
  <2>2. CASE ~(n = 0 \/ j < n)
    <3>1. j - 1 \in 1 .. Len(rest) /\ from(j - 1) = j
      BY <1>0, <1>1, <2>2 DEF from
    <3> QED
      BY <3>1
  <2> QED
    BY <2>1, <2>2
<1>7. \A j \in 1 .. Len(more) : Len(rest) + j \in 1 .. Len(t) /\ t[Len(rest) + j] = more[j]
  <2> TAKE j \in 1 .. Len(more)
  <2> DEFINE i == Len(rest) + j
  <2>1. i \in 1 .. Len(t) /\ ~(i <= Len(rest)) /\ i - Len(rest) = j
    BY <1>0, <1>3
  <2> HIDE DEF i
  <2>2. t[i] = more[j]
    BY <1>3, <2>1
  <2> QED
    BY <2>1, <2>2 DEF i
<1>8. \A i \in 1 .. Len(t) : i \in 1 .. Len(rest) \/ \E j \in 1 .. Len(more) : i = Len(rest) + j
  <2> TAKE i \in 1 .. Len(t)
  <2>1. CASE i <= Len(rest)
    BY <1>3, <1>4, <2>1
  <2>2. CASE ~(i <= Len(rest))
    <3>1. i - Len(rest) \in 1 .. Len(more) /\ i = Len(rest) + (i - Len(rest))
      BY <1>3, <1>4, <2>2
    <3> QED
      BY <3>1
  <2> QED
    BY <2>1, <2>2
<1>9. ASSUME NEW k, NEW i, Latest(t, k, i)
      PROVE  \/ \E j : Latest(more, k, j) /\ t[i] = more[j]
             \/ /\ ~Has(more, k)
                /\ \E j \in 1 .. Len(s) :
                     /\ j # n /\ t[i] = s[j] /\ s[j].kind = k
                     /\ Latest(s, k, j) \/ (n # 0 /\ j < n /\ s[n].kind = k)
  <2>1. /\ i \in 1 .. Len(t) /\ t[i].kind = k
        /\ \A m \in 1 .. Len(t) : m > i => t[m].kind # k
    BY <1>9 DEF Latest
  <2>2. CASE i \in 1 .. Len(rest)
    <3>1. ~Has(more, k)
      BY <1>3, <1>4, <1>7, <2>1, <2>2 DEF Has
    <3>2. from(i) \in 1 .. Len(s) /\ from(i) # n /\ t[i] = s[from(i)] /\ s[from(i)].kind = k
      BY <1>5, <2>1, <2>2
    <3>3. \A m \in 1 .. Len(s) : m > from(i) /\ m # n => s[m].kind # k
      <4> TAKE m \in 1 .. Len(s)
      <4> HAVE m > from(i) /\ m # n
      <4>1. PICK l \in 1 .. Len(rest) : from(l) = m
        BY <1>6
      <4>2. l > i
        BY <1>0, <1>1, <2>2, <4>1 DEF from
      <4> QED
        BY <1>5, <2>1, <4>1, <4>2
    <3>4. Latest(s, k, from(i)) \/ (n # 0 /\ from(i) < n /\ s[n].kind = k)
      <4>1. CASE n \in 1 .. Len(s) /\ n > from(i) /\ s[n].kind = k
        BY <1>0, <4>1
      <4>2. CASE ~(n \in 1 .. Len(s) /\ n > from(i) /\ s[n].kind = k)
        BY <3>2, <3>3, <4>2 DEF Latest
      <4> QED
        BY <4>1, <4>2
    <3> QED
      BY <3>1, <3>2, <3>4
  <2>3. ASSUME NEW j \in 1 .. Len(more), i = Len(rest) + j
        PROVE  Latest(more, k, j) /\ t[i] = more[j]
    <3>1. t[i] = more[j] /\ more[j].kind = k
      BY <1>7, <2>1, <2>3
    <3>2. \A m \in 1 .. Len(more) : m > j => more[m].kind # k
      <4> TAKE m \in 1 .. Len(more)
      <4> HAVE m > j
      <4>1. Len(rest) + m \in 1 .. Len(t) /\ t[Len(rest) + m] = more[m] /\ Len(rest) + m > i
        BY <1>3, <1>4, <1>7, <2>3
      <4> QED
        BY <2>1, <4>1
    <3> QED
      BY <3>1, <3>2 DEF Latest
  <2> QED
    BY <1>8, <2>1, <2>2, <2>3
<1>10. ASSUME NEW k, Twice(t, k), ~Has(more, k)
       PROVE  Twice(s, k)
  <2>1. PICK i1 \in 1 .. Len(t), i2 \in 1 .. Len(t) : i1 # i2 /\ t[i1].kind = k /\ t[i2].kind = k
    BY <1>10 DEF Twice
  <2>2. i1 \in 1 .. Len(rest) /\ i2 \in 1 .. Len(rest)
    <3>1. ASSUME NEW i \in 1 .. Len(t), t[i].kind = k PROVE i \in 1 .. Len(rest)
      <4>1. \A j \in 1 .. Len(more) : i # Len(rest) + j
        BY <1>7, <1>10, <3>1, Zenon DEF Has
      <4> QED
        BY <1>8, <4>1
    <3> QED
      BY <2>1, <3>1
  <2>3. from(i1) # from(i2)
    BY <1>0, <1>1, <2>1, <2>2 DEF from
  <2>4. /\ from(i1) \in 1 .. Len(s) /\ s[from(i1)].kind = k
        /\ from(i2) \in 1 .. Len(s) /\ s[from(i2)].kind = k
    BY <1>5, <2>1, <2>2
  <2> QED
    BY <2>3, <2>4, Zenon DEF Twice
<1>11. ASSUME n # 0, NEW k, s[n].kind = k, Has(t, k), ~Has(more, k)
       PROVE  Twice(s, k)
  <2>1. PICK i \in 1 .. Len(t) : t[i].kind = k
    BY <1>11 DEF Has
  <2>2. \A j \in 1 .. Len(more) : i # Len(rest) + j
    BY <1>7, <1>11, <2>1, Zenon DEF Has
  <2>3. i \in 1 .. Len(rest)
    BY <1>8, <2>2
  <2>4. from(i) \in 1 .. Len(s) /\ from(i) # n /\ s[from(i)].kind = k /\ n \in 1 .. Len(s)
    BY <1>0, <1>5, <1>11, <2>1, <2>3
  <2> QED
    BY <1>11, <2>4, Zenon DEF Twice
<1> QED
  <2>1. \A i \in 1 .. Len(t) : \/ \E j \in 1 .. Len(s) : j # n /\ t[i] = s[j]
                              \/ \E j \in 1 .. Len(more) : t[i] = more[j]
    <3> TAKE i \in 1 .. Len(t)
    <3>1. CASE i \in 1 .. Len(rest)
      BY <1>5, <3>1, Zenon
    <3>2. CASE \E j \in 1 .. Len(more) : i = Len(rest) + j
      BY <1>7, <3>2, Zenon
    <3>3. i \in 1 .. Len(rest) \/ \E j \in 1 .. Len(more) : i = Len(rest) + j
      BY <1>8
    <3> QED
      BY <3>1, <3>2, <3>3, Zenon
  <2>2. \A j \in 1 .. Len(s) : j # n => \E i \in 1 .. Len(t) : t[i] = s[j]
    <3> TAKE j \in 1 .. Len(s)
    <3> HAVE j # n
    <3>1. PICK i \in 1 .. Len(rest) : from(i) = j
      BY <1>6
    <3> QED
      BY <1>5, <3>1
  <2>3. \A j \in 1 .. Len(more) : \E i \in 1 .. Len(t) : t[i] = more[j]
    BY <1>7
  <2> QED
    BY <1>9, <1>10, <1>11, <2>1, <2>2, <2>3, Zenon DEF Replaced

\* Request n, if any, leaves the list, and some more are added at its end.
LEMMA TurnedList ==
  ASSUME NEW C, NEW s \in Seq(C), NEW n \in 0 .. Len(s), NEW more \in Seq(C),
         NEW t, t = Unanswered(s, n) \o more
  PROVE  /\ t \in Seq(C) /\ Replaced(s, n, more, t)
         /\ n = 0 => Joined(s, more, t)
<1> DEFINE rest == Unanswered(s, n)
<1>1. rest \in Seq(C) /\ Without(s, n, rest) /\ (n = 0 => rest = s)
  <2>1. CASE n = 0
    <3>1. SubSeq(s, 1, n - 1) = <<>> /\ SubSeq(s, n + 1, Len(s)) = s
      BY <2>1
    <3>2. rest = <<>> \o s
      BY <3>1, Zenon DEF Unanswered
    <3>3. <<>> \o s = s
      OBVIOUS
    <3> HIDE DEF rest
    <3>4. rest = s
      BY <3>2, <3>3
    <3> QED
      BY <2>1, <3>4 DEF Without
  <2>2. CASE n # 0
    BY <2>2, Removed DEF Without
  <2> QED
    BY <2>1, <2>2
<1> HIDE DEF rest
<1>2. t \in Seq(C) /\ Joined(rest, more, t)
  <2>1. t = rest \o more
    BY DEF rest
  <2> QED
    BY <1>1, <2>1, ConcatProperties DEF Joined
<1> QED
  BY <1>1, <1>2, Spliced, Zenon

=============================================================================
