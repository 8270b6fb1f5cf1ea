---------------------------- MODULE DesktopProofs ----------------------------
(***************************************************************************)
(* What TLAPS proves of Desktop: the types, that the console's writer      *)
(* shows the end of all text that was put, that Draw() leaves the          *)
(* uppermost window at each place of the screen, and that the layers'      *)
(* stack keeps its order.                                                  *)
(*                                                                         *)
(* Recursion over a string and over the stack comes first, then stack,     *)
(* console, text and drawing, each by itself, and last the invariant.      *)
(***************************************************************************)
EXTENDS Desktop, SequenceTheorems, FiniteSetTheorems, TLAPS

-----------------------------------------------------------------------------
(* Recursion over the characters of a string and the layers of the stack.  *)

\* Induction: the first step at which something fails.
LEMMA LeastNat ==
  ASSUME NEW S \in SUBSET Nat, S # {}
  PROVE  \E m \in S : \A n \in S : m <= n
<1> DEFINE T == {0 .. n : n \in S}
           R == StrictSubsetOrdering(Nat)
<1>1. IsWellFoundedOn(R, FiniteSubsetsOf(Nat))
  BY FS_StrictSubsetOrderingWellFounded
<1>2. T \subseteq FiniteSubsetsOf(Nat) /\ T # {}
  <2>1. \A n \in S : IsFiniteSet(0 .. n) /\ 0 .. n \subseteq Nat
    BY FS_Interval
  <2> QED
    BY <2>1 DEF FiniteSubsetsOf
<1>3. PICK i \in T : \A j \in T : ~(<<j, i>> \in R)
  <2> HIDE DEF T, R
  <2> QED
    BY <1>1, <1>2, WFMin
<1>4. PICK m \in S : i = 0 .. m
  OBVIOUS
<1>5. ASSUME NEW n \in S, n < m PROVE FALSE
  <2>1. 0 .. n \subseteq 0 .. m /\ m \in 0 .. m /\ m \notin 0 .. n
    BY <1>5
  <2>2. <<0 .. n, 0 .. m>> \in R
    BY <2>1 DEF StrictSubsetOrdering
  <2> QED
    BY <2>2, <1>3, <1>4
<1> QED
  BY <1>5

LEMMA GreatestNat ==
  ASSUME NEW b \in Nat, NEW S \in SUBSET (0 .. b), S # {}
  PROVE  \E m \in S : \A n \in S : n <= m
<1> DEFINE T == {b - n : n \in S}
<1>1. T \in SUBSET Nat /\ T # {}
  <2>1. \A n \in S : b - n \in Nat
    OBVIOUS
  <2> QED
    BY <2>1
<1>2. PICK t \in T : \A n \in T : t <= n
  <2> HIDE DEF T
  <2> QED
    BY <1>1, LeastNat
<1>3. PICK m \in S : t = b - m
  OBVIOUS
<1>4. \A n \in S : n <= m
  <2> TAKE n \in S
  <2>1. b - m <= b - n
    BY <1>2, <1>3
  <2> QED
    BY <2>1
<1> QED
  BY <1>4

\* A loop over 1 .. n that starts with v and takes val[k] in the turns of W.
Turns(n, W, v, val, f) ==
  f = [k \in 0 .. n |-> IF k = 0 THEN v ELSE IF k \notin W THEN f[k - 1] ELSE val[k]]

\* There is such a function, and it ends with the value of the last turn.
LEMMA LastOfThem ==
  ASSUME NEW n \in Nat, NEW W \in SUBSET (1 .. n), NEW v, NEW val
  PROVE  /\ \E f : Turns(n, W, v, val, f)
         /\ \A f : Turns(n, W, v, val, f) =>
              /\ W = {} => f[n] = v
              /\ W # {} => \E m \in W : (\A j \in W : j <= m) /\ f[n] = val[m]
<1> DEFINE Loop(f) == Turns(n, W, v, val, f)
           Upto(k) == {j \in W : j <= k}
           Greatest(k) == CHOOSE m \in Upto(k) : \A j \in Upto(k) : j <= m
           r == [k \in 0 .. n |-> IF Upto(k) = {} THEN v ELSE val[Greatest(k)]]
<1>0. \A j \in W : j \in Nat /\ j >= 1 /\ j <= n
  <2>1. \A j \in W : j \in 1 .. n
    OBVIOUS
  <2>2. \A j \in 1 .. n : j \in Nat /\ j >= 1 /\ j <= n
    OBVIOUS
  <2> QED
    BY <2>1, <2>2
<1>1. ASSUME NEW k \in 0 .. n, Upto(k) # {}
      PROVE  Greatest(k) \in Upto(k) /\ \A j \in Upto(k) : j <= Greatest(k)
  <2>1. Upto(k) \in SUBSET (0 .. n)
    <3>1. \A j \in Upto(k) : j \in 0 .. n
      BY <1>0
    <3> QED
      BY <3>1
  <2> HIDE DEF Upto
  <2> QED
    BY <1>1, <2>1, GreatestNat
<1>2. ASSUME NEW k \in 0 .. n
      PROVE  r[k] = IF k = 0 THEN v ELSE IF k \notin W THEN r[k - 1] ELSE val[k]
  <2>1. CASE k = 0
    <3>1. Upto(k) = {}
      <4>1. \A j \in W : ~(j <= 0)
        BY <1>0
      <4> QED
        BY <2>1, <4>1
    <3> QED
      BY <2>1, <3>1
  <2>2. CASE k # 0 /\ k \notin W
    <3>1. k - 1 \in 0 .. n /\ Upto(k) = Upto(k - 1)
      <4>1. \A j \in W : j <= k <=> j <= k - 1
        <5> TAKE j \in W
        <5>1. j \in Nat /\ j # k
          BY <1>0, <2>2
        <5> QED
          BY <5>1
      <4> DEFINE A == {j \in W : j <= k}
                 B == {j \in W : j <= k - 1}
      <4>2. A = B
        BY <4>1
      <4>3. k - 1 \in 0 .. n
        BY <2>2
      <4> QED
        BY <4>2, <4>3
    <3> HIDE DEF Upto
    <3>2. Greatest(k) = Greatest(k - 1)
      BY <3>1
    <3> HIDE DEF Greatest
    <3> QED
      BY <2>2, <3>1, <3>2
  <2>3. CASE k # 0 /\ k \in W
    <3>1. k \in Upto(k) /\ \A j \in Upto(k) : j <= k /\ j \in Nat
      BY <2>3
    <3> HIDE DEF Upto
    <3>2. Greatest(k) \in Upto(k) /\ \A j \in Upto(k) : j <= Greatest(k)
      BY <1>1, <3>1
    <3> HIDE DEF Greatest
    <3>3. Greatest(k) = k
      BY <3>1, <3>2
    <3> QED
      BY <2>3, <3>1, <3>3
  <2> QED
    BY <2>1, <2>2, <2>3
<1>3. Loop(r)
  <2> HIDE DEF r
  <2>1. r = [k \in 0 .. n |-> r[k]]
    BY DEF r
  <2> QED
    BY <1>2, <2>1 DEF Turns
<1>4. ASSUME NEW f, Loop(f) PROVE \A k \in 0 .. n : f[k] = r[k]
  <2> DEFINE Bad == {k \in 0 .. n : f[k] # r[k]}
  <2> HIDE DEF r
  <2>1. \A k \in 0 .. n : f[k] = IF k = 0 THEN v ELSE IF k \notin W THEN f[k - 1] ELSE val[k]
    BY <1>4 DEF Turns
  <2> SUFFICES ASSUME Bad # {} PROVE FALSE
    OBVIOUS
  <2>2. PICK k \in Bad : \A j \in Bad : k <= j
    <3>1. Bad \in SUBSET Nat
      OBVIOUS
    <3> HIDE DEF Bad
    <3> QED
      BY <3>1, LeastNat
  <2>3. k \in 0 .. n /\ f[k] # r[k]
    OBVIOUS
  <2>4. k # 0 => k - 1 \in 0 .. n /\ f[k - 1] = r[k - 1]
    <3> SUFFICES ASSUME k # 0 PROVE k - 1 \in 0 .. n /\ f[k - 1] = r[k - 1]
      OBVIOUS
    <3>1. k - 1 \in 0 .. n /\ ~(k <= k - 1)
      BY <2>3
    <3> QED
      BY <2>2, <3>1
  <2> HIDE DEF Bad, Loop
  <2> QED
    BY <1>2, <2>1, <2>3, <2>4
<1>5. ASSUME NEW f, Loop(f)
      PROVE  /\ W = {} => f[n] = v
             /\ W # {} => \E m \in W : (\A j \in W : j <= m) /\ f[n] = val[m]
  <2>1. f[n] = r[n] /\ n \in 0 .. n
    BY <1>4, <1>5
  <2>2. Upto(n) = W
    BY <1>0
  <2>3. f[n] = IF W = {} THEN v ELSE val[Greatest(n)]
    BY <2>1, <2>2
  <2>4. W # {} => Greatest(n) \in W /\ \A j \in W : j <= Greatest(n)
    <3> HIDE DEF Greatest, Upto
    <3> QED
      BY <1>1, <2>1, <2>2
  <2> HIDE DEF Greatest, Loop, r, Upto
  <2> QED
    BY <2>3, <2>4
<1> QED
  BY <1>3, <1>5

-----------------------------------------------------------------------------
(* The stack of layers.                                                    *)

\* RemoveAt and InsertAt, place by place.
LEMMA RemovedAt ==
  ASSUME NEW S, NEW s \in Seq(S), NEW i \in 1 .. Len(s)
  PROVE  /\ RemoveAt(s, i) \in Seq(S) /\ Len(RemoveAt(s, i)) = Len(s) - 1
         /\ \A j \in 1 .. Len(s) - 1 : RemoveAt(s, i)[j] = IF j < i THEN s[j] ELSE s[j + 1]
<1> DEFINE n == Len(s)
           a == SubSeq(s, 1, i - 1)
           b == SubSeq(s, i + 1, n)
<1>1. n \in Nat /\ i \in 1 .. n /\ \A j \in 1 .. n : s[j] \in S
  OBVIOUS
<1> HIDE DEF n
<1>2. a \in Seq(S) /\ Len(a) = i - 1 /\ \A j \in 1 .. i - 1 : a[j] = s[j]
  <2>1. \A j \in 1 .. i - 1 : s[j] \in S
    BY <1>1
  <2>2. /\ a \in Seq(S) /\ Len(a) = (IF 1 <= i - 1 THEN i - 1 - 1 + 1 ELSE 0)
        /\ \A j \in 1 .. i - 1 - 1 + 1 : a[j] = s[1 + j - 1]
    BY <1>1, <2>1, SubSeqProperties
  <2> HIDE DEF a
  <2> QED
    BY <1>1, <2>2
<1>3. b \in Seq(S) /\ Len(b) = n - i /\ \A j \in 1 .. n - i : b[j] = s[i + j]
  <2>1. \A j \in i + 1 .. n : s[j] \in S
    BY <1>1
  <2>2. /\ b \in Seq(S) /\ Len(b) = (IF i + 1 <= n THEN n - (i + 1) + 1 ELSE 0)
        /\ \A j \in 1 .. n - (i + 1) + 1 : b[j] = s[i + 1 + j - 1]
    BY <1>1, <2>1, SubSeqProperties
  <2> HIDE DEF b
  <2> QED
    BY <1>1, <2>2
<1> HIDE DEF a, b
<1>4. /\ a \o b \in Seq(S) /\ Len(a \o b) = n - 1
      /\ \A j \in 1 .. n - 1 : (a \o b)[j] = IF j <= i - 1 THEN a[j] ELSE b[j - (i - 1)]
  <2>1. Len(a) + Len(b) = n - 1
    BY <1>1, <1>2, <1>3
  <2> QED
    BY <1>2, <1>3, <2>1, ConcatProperties
<1>5. \A j \in 1 .. n - 1 : (a \o b)[j] = IF j < i THEN s[j] ELSE s[j + 1]
  <2> TAKE j \in 1 .. n - 1
  <2>1. CASE j < i
    BY <1>1, <1>2, <1>4, <2>1
  <2>2. CASE ~(j < i)
    <3>1. j - (i - 1) \in 1 .. n - i /\ i + (j - (i - 1)) = j + 1 /\ ~(j <= i - 1)
      BY <1>1, <2>2
    <3> QED
      BY <1>3, <1>4, <2>2, <3>1
  <2> QED
    BY <2>1, <2>2
<1>6. RemoveAt(s, i) = a \o b
  BY DEF RemoveAt, a, b, n
<1> QED
  BY <1>4, <1>5, <1>6 DEF n

LEMMA InsertedAt ==
  ASSUME NEW S, NEW s \in Seq(S), NEW i \in 1 .. Len(s) + 1, NEW e \in S
  PROVE  /\ InsertAt(s, i, e) \in Seq(S) /\ Len(InsertAt(s, i, e)) = Len(s) + 1
         /\ \A j \in 1 .. Len(s) + 1 :
              InsertAt(s, i, e)[j] = IF j < i THEN s[j] ELSE IF j = i THEN e ELSE s[j - 1]
<1> DEFINE n == Len(s)
           a == SubSeq(s, 1, i - 1)
           b == SubSeq(s, i, n)
<1>1. n \in Nat /\ i \in 1 .. n + 1 /\ \A j \in 1 .. n : s[j] \in S
  OBVIOUS
<1> HIDE DEF n
<1>2. a \in Seq(S) /\ Len(a) = i - 1 /\ \A j \in 1 .. i - 1 : a[j] = s[j]
  <2>1. \A j \in 1 .. i - 1 : s[j] \in S
    BY <1>1
  <2>2. /\ a \in Seq(S) /\ Len(a) = (IF 1 <= i - 1 THEN i - 1 - 1 + 1 ELSE 0)
        /\ \A j \in 1 .. i - 1 - 1 + 1 : a[j] = s[1 + j - 1]
    BY <1>1, <2>1, SubSeqProperties
  <2> HIDE DEF a
  <2> QED
    BY <1>1, <2>2
<1>3. b \in Seq(S) /\ Len(b) = n - i + 1 /\ \A j \in 1 .. n - i + 1 : b[j] = s[i + j - 1]
  <2>1. \A j \in i .. n : s[j] \in S
    BY <1>1
  <2>2. /\ b \in Seq(S) /\ Len(b) = (IF i <= n THEN n - i + 1 ELSE 0)
        /\ \A j \in 1 .. n - i + 1 : b[j] = s[i + j - 1]
    BY <1>1, <2>1, SubSeqProperties
  <2> HIDE DEF b
  <2> QED
    BY <1>1, <2>2
<1>4. <<e>> \in Seq(S) /\ Len(<<e>>) = 1 /\ <<e>>[1] = e
  OBVIOUS
<1> DEFINE m == a \o <<e>>
<1> HIDE DEF a, b
<1>5. m \in Seq(S) /\ Len(m) = i /\ \A j \in 1 .. i : m[j] = IF j <= i - 1 THEN a[j] ELSE e
  <2>1. /\ m \in Seq(S) /\ Len(m) = Len(a) + 1
        /\ \A j \in 1 .. Len(a) + 1 : m[j] = IF j <= Len(a) THEN a[j] ELSE <<e>>[j - Len(a)]
    BY <1>2, <1>4, ConcatProperties
  <2>2. Len(a) + 1 = i
    BY <1>1, <1>2
  <2>3. \A j \in 1 .. i : ~(j <= i - 1) => j - (i - 1) = 1
    BY <1>1
  <2> HIDE DEF m
  <2> QED
    BY <1>2, <1>4, <2>1, <2>2, <2>3
<1> HIDE DEF m
<1>6. /\ m \o b \in Seq(S) /\ Len(m \o b) = n + 1
      /\ \A j \in 1 .. n + 1 : (m \o b)[j] = IF j <= i THEN m[j] ELSE b[j - i]
  <2>1. Len(m) + Len(b) = n + 1
    BY <1>1, <1>3, <1>5
  <2>2. /\ m \o b \in Seq(S) /\ Len(m \o b) = Len(m) + Len(b)
        /\ \A j \in 1 .. Len(m) + Len(b) :
             (m \o b)[j] = IF j <= Len(m) THEN m[j] ELSE b[j - Len(m)]
    BY <1>3, <1>5, ConcatProperties
  <2> QED
    BY <1>5, <2>1, <2>2
<1>7. \A j \in 1 .. n + 1 :
        (m \o b)[j] = IF j < i THEN s[j] ELSE IF j = i THEN e ELSE s[j - 1]
  <2> TAKE j \in 1 .. n + 1
  <2>1. CASE j < i
    <3>1. j \in 1 .. i /\ j <= i /\ j \in 1 .. i - 1
      BY <1>1, <2>1
    <3>2. (m \o b)[j] = m[j] /\ m[j] = a[j] /\ a[j] = s[j]
      BY <1>2, <1>5, <1>6, <3>1
    <3> QED
      BY <2>1, <3>2
  <2>2. CASE j = i
    <3>1. j \in 1 .. i /\ j <= i /\ ~(j <= i - 1) /\ ~(j < i)
      BY <1>1, <2>2
    <3> QED
      BY <1>5, <1>6, <2>2, <3>1
  <2>3. CASE ~(j < i) /\ j # i
    <3>1. j - i \in 1 .. n - i + 1 /\ i + (j - i) - 1 = j - 1 /\ ~(j <= i) /\ ~(j < i) /\ j # i
      BY <1>1, <2>3
    <3> QED
      BY <1>3, <1>6, <3>1
  <2> QED
    BY <2>1, <2>2, <2>3
<1>8. InsertAt(s, i, e) = m \o b
  BY DEF InsertAt, a, b, m, n
<1> QED
  BY <1>6, <1>7, <1>8 DEF n

(* A layer taken out. *)
LEMMA HiddenOut ==
  ASSUME NEW S, NEW s \in Seq(S), IsInjective(s), NEW l
  PROVE  /\ Hidden(s, l) \in Seq(S) /\ IsInjective(Hidden(s, l)) /\ ~InStack(Hidden(s, l), l)
         /\ InStack(s, l) => Len(Hidden(s, l)) = Len(s) - 1 /\ Len(s) >= 1
         /\ ~InStack(s, l) => Hidden(s, l) = s
         /\ Hidden(Hidden(s, l), l) = Hidden(s, l)
<1> DEFINE i == IndexIn(s, l)
           h == RemoveAt(s, i)
<1>1. CASE ~InStack(s, l)
  BY <1>1 DEF Hidden
<1>2. CASE InStack(s, l)
  <2>1. DOMAIN s = 1 .. Len(s) /\ Len(s) \in Nat
    OBVIOUS
  <2>2. i \in 1 .. Len(s) /\ s[i] = l
    BY <1>2, <2>1 DEF InStack, IndexIn
  <2> HIDE DEF i
  <2>3. /\ h \in Seq(S) /\ Len(h) = Len(s) - 1
        /\ \A j \in 1 .. Len(s) - 1 : h[j] = IF j < i THEN s[j] ELSE s[j + 1]
    BY <2>2, RemovedAt
  <2>4. Hidden(s, l) = h
    BY <1>2 DEF Hidden, i
  <2> HIDE DEF h
  <2>5. DOMAIN h = 1 .. Len(s) - 1
    <3>1. DOMAIN h = 1 .. Len(h)
      BY <2>3
    <3> QED
      BY <2>3, <3>1
  <2>6. \A j \in 1 .. Len(s) - 1 : \E k \in 1 .. Len(s) :
          h[j] = s[k] /\ k # i /\ k = IF j < i THEN j ELSE j + 1
    <3> TAKE j \in 1 .. Len(s) - 1
    <3>1. CASE j < i
      <4>1. j \in 1 .. Len(s) /\ j # i
        BY <2>1, <2>2, <3>1
      <4> QED
        BY <2>3, <3>1, <4>1
    <3>2. CASE ~(j < i)
      <4>1. j + 1 \in 1 .. Len(s) /\ j + 1 # i
        BY <2>1, <2>2, <3>2
      <4> QED
        BY <2>3, <3>2, <4>1
    <3> QED
      BY <3>1, <3>2
  <2>7. \A j, k \in 1 .. Len(s) : s[j] = s[k] => j = k
    BY <2>1 DEF IsInjective
  <2>8. ~InStack(h, l)
    BY <2>2, <2>5, <2>6, <2>7 DEF InStack
  <2>9. IsInjective(h)
    <3> SUFFICES ASSUME NEW j \in 1 .. Len(s) - 1, NEW k \in 1 .. Len(s) - 1, h[j] = h[k]
                 PROVE  j = k
      BY <2>5 DEF IsInjective
    <3>1. PICK jj \in 1 .. Len(s) : h[j] = s[jj] /\ jj = IF j < i THEN j ELSE j + 1
      BY <2>6
    <3>2. PICK kk \in 1 .. Len(s) : h[k] = s[kk] /\ kk = IF k < i THEN k ELSE k + 1
      BY <2>6
    <3>3. jj = kk
      BY <2>7, <3>1, <3>2
    <3> QED
      BY <2>1, <2>2, <3>1, <3>2, <3>3
  <2>10. Hidden(h, l) = h
    BY <2>8 DEF Hidden
  <2>11. Len(s) >= 1
    BY <2>1, <2>2
  <2> QED
    BY <1>2, <2>3, <2>4, <2>8, <2>9, <2>10, <2>11
<1> QED
  BY <1>1, <1>2

(* A layer put in that was not there. *)
LEMMA PutIn ==
  ASSUME NEW S, NEW s \in Seq(S), IsInjective(s), NEW l \in S, ~InStack(s, l),
         NEW i \in 1 .. Len(s) + 1
  PROVE  LET t == InsertAt(s, i, l) IN
           /\ t \in Seq(S) /\ Len(t) = Len(s) + 1 /\ IsInjective(t)
           /\ InStack(t, l) /\ IndexIn(t, l) = i /\ t[i] = l
           /\ Hidden(t, l) = s
<1> DEFINE t == InsertAt(s, i, l)
           n == Len(s)
<1>1. /\ t \in Seq(S) /\ Len(t) = n + 1
      /\ \A j \in 1 .. n + 1 : t[j] = IF j < i THEN s[j] ELSE IF j = i THEN l ELSE s[j - 1]
  BY InsertedAt
<1>2. n \in Nat /\ i \in 1 .. n + 1 /\ DOMAIN s = 1 .. n
  OBVIOUS
<1> HIDE DEF t
<1>3. DOMAIN t = 1 .. n + 1
  BY <1>1
<1>4. \A j \in 1 .. n : s[j] # l
  BY <1>2 DEF InStack
<1>5. \A j, k \in 1 .. n : s[j] = s[k] => j = k
  BY <1>2 DEF IsInjective
<1> HIDE DEF n
<1>6. t[i] = l
  BY <1>1, <1>2
<1>7. \A j \in 1 .. n + 1 : j # i => \E k \in 1 .. n : t[j] = s[k] /\ k = IF j < i THEN j ELSE j - 1
  <2> TAKE j \in 1 .. n + 1
  <2> HAVE j # i
  <2>1. CASE j < i
    <3>1. j \in 1 .. n
      BY <1>2, <2>1
    <3> QED
      BY <1>1, <2>1, <3>1
  <2>2. CASE ~(j < i)
    <3>1. j - 1 \in 1 .. n
      BY <1>2, <2>2
    <3> QED
      BY <1>1, <2>2, <3>1
  <2> QED
    BY <2>1, <2>2
<1>8. \A j \in 1 .. n + 1 : t[j] = l => j = i
  BY <1>4, <1>7
<1>9. InStack(t, l) /\ IndexIn(t, l) = i
  BY <1>2, <1>3, <1>6, <1>8 DEF InStack, IndexIn
<1>10. IsInjective(t)
  <2> SUFFICES ASSUME NEW j \in 1 .. n + 1, NEW k \in 1 .. n + 1, t[j] = t[k]
               PROVE  j = k
    BY <1>3 DEF IsInjective
  <2>1. CASE j = i \/ k = i
    BY <1>6, <1>8, <2>1
  <2>2. CASE j # i /\ k # i
    <3>1. PICK jj \in 1 .. n : t[j] = s[jj] /\ jj = IF j < i THEN j ELSE j - 1
      BY <1>7, <2>2
    <3>2. PICK kk \in 1 .. n : t[k] = s[kk] /\ kk = IF k < i THEN k ELSE k - 1
      BY <1>7, <2>2
    <3>3. jj = kk
      BY <1>5, <3>1, <3>2
    <3> QED
      BY <1>2, <2>2, <3>1, <3>2, <3>3
  <2> QED
    BY <2>1, <2>2
<1>11. Hidden(t, l) = s
  <2>1. Hidden(t, l) = RemoveAt(t, i)
    BY <1>9 DEF Hidden
  <2>2. /\ RemoveAt(t, i) \in Seq(S) /\ Len(RemoveAt(t, i)) = n
        /\ \A j \in 1 .. n : RemoveAt(t, i)[j] = IF j < i THEN t[j] ELSE t[j + 1]
    <3>1. i \in 1 .. Len(t) /\ Len(t) - 1 = n
      BY <1>1, <1>2
    <3>2. /\ RemoveAt(t, i) \in Seq(S) /\ Len(RemoveAt(t, i)) = Len(t) - 1
          /\ \A j \in 1 .. Len(t) - 1 : RemoveAt(t, i)[j] = IF j < i THEN t[j] ELSE t[j + 1]
      BY <1>1, <3>1, RemovedAt
    <3> QED
      BY <3>1, <3>2
  <2>3. \A j \in 1 .. n : RemoveAt(t, i)[j] = s[j]
    <3> TAKE j \in 1 .. n
    <3>1. CASE j < i
      <4>1. j \in 1 .. n + 1
        BY <1>2
      <4> QED
        BY <1>1, <2>2, <3>1, <4>1
    <3>2. CASE ~(j < i)
      <4>1. j + 1 \in 1 .. n + 1 /\ ~(j + 1 < i) /\ j + 1 # i /\ j + 1 - 1 = j
        BY <1>2, <3>2
      <4> QED
        BY <1>1, <2>2, <3>2, <4>1
    <3> QED
      BY <3>1, <3>2
  <2> QED
    BY <2>1, <2>2, <2>3, SeqEqual DEF n
<1> QED
  BY <1>1, <1>6, <1>9, <1>10, <1>11 DEF t, n

(* UpDown and Hide, of a stack without a layer in it twice. *)
LEMMA RaisedTo ==
  ASSUME NEW S, NEW s \in Seq(S), IsInjective(s), NEW l \in S, NEW height \in Int
  PROVE  LET t == Raised(s, l, height) IN
           /\ t \in Seq(S) /\ IsInjective(t) /\ Hidden(t, l) = Hidden(s, l)
           /\ height < 0 => ~InStack(t, l)
           /\ height >= 0 => \/ InStack(t, l) /\ IndexIn(t, l) = height + 1
                             \/ height >= Len(t) /\ Last(t) = l
           /\ height >= 0 => InStack(t, l)
<1> DEFINE t == Raised(s, l, height)
           N == Len(s)
           n == IF height > N THEN N ELSE height
<1>1. N \in Nat
  OBVIOUS
<1>2. CASE height < 0
  <2>1. t = Hidden(s, l)
    BY <1>2 DEF Raised
  <2> QED
    BY <1>2, <2>1, HiddenOut
<1>3. CASE height >= 0 /\ ~InStack(s, l)
  <2>1. t = InsertAt(s, n + 1, l)
    BY <1>3 DEF Raised
  <2>2. n + 1 \in 1 .. N + 1
    BY <1>1, <1>3
  <2>3. Hidden(s, l) = s
    BY <1>3 DEF Hidden
  <2> DEFINE i == n + 1
  <2> HIDE DEF n, t
  <2>4. /\ t \in Seq(S) /\ Len(t) = N + 1 /\ IsInjective(t) /\ InStack(t, l)
        /\ IndexIn(t, l) = n + 1 /\ t[n + 1] = l /\ Hidden(t, l) = s
    <3> HIDE DEF N
    <3> QED
      BY <1>3, <2>1, <2>2, PutIn DEF N
  <2>5. CASE height <= N
    BY <1>1, <1>3, <2>3, <2>4, <2>5 DEF n, t
  <2>6. CASE height > N
    <3>1. n = N /\ height >= N + 1
      BY <1>1, <2>6 DEF n
    <3>2. Last(t) = l
      BY <2>4, <3>1 DEF Last
    <3> QED
      BY <1>3, <2>3, <2>4, <3>1, <3>2 DEF t
  <2> QED
    BY <1>1, <2>5, <2>6
<1>4. CASE height >= 0 /\ InStack(s, l)
  <2> DEFINE h == Hidden(s, l)
             i == (IF n = N THEN n - 1 ELSE n) + 1
  <2>1. t = InsertAt(h, i, l)
    BY <1>1, <1>4 DEF Raised
  <2>2. h \in Seq(S) /\ IsInjective(h) /\ ~InStack(h, l) /\ Len(h) = N - 1 /\ N >= 1
    BY <1>4, HiddenOut
  <2>3. i \in 1 .. Len(h) + 1
    BY <1>1, <1>4, <2>2
  <2> HIDE DEF t, h, i
  <2>4. /\ t \in Seq(S) /\ Len(t) = Len(h) + 1 /\ IsInjective(t) /\ InStack(t, l)
        /\ IndexIn(t, l) = i /\ t[i] = l /\ Hidden(t, l) = h
    <3> HIDE DEF N, n
    <3> QED
      BY <2>1, <2>2, <2>3, PutIn
  <2>5. Len(t) = N
    BY <1>1, <2>2, <2>4
  <2>6. CASE height < N
    <3>1. i = height + 1
      BY <1>1, <2>6 DEF i
    <3> QED
      BY <1>4, <2>4, <3>1 DEF t, h
  <2>7. CASE height >= N
    <3>1. i = N
      BY <1>1, <2>7 DEF i
    <3>2. Last(t) = l
      BY <2>4, <2>5, <3>1 DEF Last
    <3> QED
      BY <1>4, <2>4, <2>5, <2>7, <3>2 DEF t, h
  <2> QED
    BY <1>1, <2>6, <2>7
<1> QED
  BY <1>2, <1>3, <1>4

-----------------------------------------------------------------------------
(* The console, as a record of what PutString changes of it.               *)

Symbol == Char \cup {NewlineChar}

Console == [pixels : [Place -> Pixel],
            buffer : [0 .. kRows - 1 -> [0 .. kColumns - 1 -> Char \cup {NUL}]],
            row : 0 .. kRows - 1, column : 0 .. kColumns]

Blank(c, xy) == c.buffer[xy[2]][xy[1]] = NUL

\* The characters of a row lie side by side, in the last one up to the cursor.
BufferOK(c) ==
  /\ \A xy \in Cell : ~Blank(c, xy) => \A i \in 0 .. xy[1] : ~Blank(c, <<i, xy[2]>>)
  /\ \A xy \in Cell : xy[2] = c.row => (Blank(c, xy) <=> xy[1] >= c.column)
  /\ \A xy \in Cell : xy[2] > c.row => Blank(c, xy)

\* Each cell shows its character alone, and nothing is written beside the grid.
InkOK(c) ==
  \A xy \in Place :
    c.pixels[xy].ink = IF xy \in Cell /\ ~Blank(c, xy) THEN {c.buffer[xy[2]][xy[1]]} ELSE {}

ColourOK(c) == \A xy \in Place : c.pixels[xy].colour = DesktopColour(xy)

\* Cursor and buffer are those of the text t.
TextOK(c, t) ==
  /\ c.column = Column(t, Len(t) + 1)
  /\ c.row = Row(t, Len(t) + 1) - Scrolled(t)
  /\ \A xy \in Cell : Laid(t, xy) = IF Blank(c, xy) THEN {} ELSE {c.buffer[xy[2]][xy[1]]}

\* The grid lies on the screen, above the task bar.
LEMMA GridSizes ==
  /\ kRows \in Nat /\ kRows >= 1 /\ kColumns \in Nat /\ kColumns >= 1
  /\ Width \in Nat /\ Height \in Nat /\ Stride \in Nat /\ Stride >= Width
  /\ TaskBar \in Nat /\ Width >= 1 /\ Height >= 1
  /\ Cell \subseteq Place /\ \A xy \in Cell : DesktopColour(xy) = "blue"
  /\ NewlineChar \notin Char /\ NUL \notin Char
<1>1. /\ kRows \in Nat /\ kRows >= 1 /\ kColumns \in Nat /\ kColumns >= 1
      /\ kColumns <= Width /\ kRows <= Height - TaskBar
      /\ NewlineChar \notin Char /\ NUL \notin Char
  BY ConsoleAssumption
<1>2. /\ Width \in Nat /\ Height \in Nat /\ Stride \in Nat /\ Stride >= Width
      /\ TaskBar \in Nat /\ Width >= 1 /\ Height >= 1
  BY LayersAssumption
<1>3. Cell \subseteq Place
  <2>1. 0 .. kColumns - 1 \subseteq 0 .. Width - 1 /\ 0 .. kRows - 1 \subseteq 0 .. Height - 1
    BY <1>1, <1>2
  <2> QED
    BY <2>1 DEF Cell, Place
<1>4. ASSUME NEW xy \in Cell PROVE DesktopColour(xy) = "blue"
  <2>1. xy[2] \in 0 .. kRows - 1
    BY DEF Cell
  <2>2. xy[2] < Height - TaskBar
    BY <1>1, <1>2, <2>1
  <2> QED
    BY <2>2 DEF DesktopColour
<1> QED
  BY <1>1, <1>2, <1>3, <1>4

LEMMA Cells ==
  /\ \A xy \in Cell : xy[1] \in 0 .. kColumns - 1 /\ xy[2] \in 0 .. kRows - 1 /\ xy = <<xy[1], xy[2]>>
  /\ \A x \in 0 .. kColumns - 1, y \in 0 .. kRows - 1 : <<x, y>> \in Cell
  BY DEF Cell

\* A line break in the middle of the grid.
LEMMA NewlineMoves ==
  ASSUME NEW c \in Console, c.row + 1 < kRows
  PROVE  LET d == Newline(c) IN
           /\ d \in Console /\ d.row = c.row + 1 /\ d.column = 0
           /\ d.buffer = c.buffer /\ d.pixels = c.pixels
<1>1. Newline(c) = [c EXCEPT !.row = @ + 1, !.column = 0]
  BY DEF Newline
<1>2. c.row + 1 \in 0 .. kRows - 1 /\ 0 \in 0 .. kColumns
  BY GridSizes DEF Console
<1> QED
  BY <1>1, <1>2 DEF Console

\* A line break in its last line.
MovedUp(b) ==
  [r \in 0 .. kRows - 1 |-> IF r < kRows - 1 THEN b[r + 1] ELSE [i \in 0 .. kColumns - 1 |-> NUL]]

LEMMA NewlineScrolls ==
  ASSUME NEW c \in Console, ~(c.row + 1 < kRows)
  PROVE  LET d == Newline(c) IN
           /\ d \in Console /\ d.row = c.row /\ c.row = kRows - 1 /\ d.column = 0
           /\ d.buffer = MovedUp(c.buffer)
           /\ \A xy \in Place :
                d.pixels[xy] =
                  IF xy \in Cell
                    THEN IF xy[2] < kRows - 1 /\ \A i \in 0 .. xy[1] : d.buffer[xy[2]][i] # NUL
                           THEN [colour |-> "blue", ink |-> {d.buffer[xy[2]][xy[1]]}]
                           ELSE Plain("blue")
                    ELSE c.pixels[xy]
<1> DEFINE b == MovedUp(c.buffer)
           cleared == [xy \in Place |-> IF xy \in Cell THEN Plain("blue") ELSE c.pixels[xy]]
           p == WriteRows(cleared, b, 0 .. kRows - 2)
<1>1. c.row = kRows - 1
  BY GridSizes DEF Console
<1>2. b \in [0 .. kRows - 1 -> [0 .. kColumns - 1 -> Char \cup {NUL}]]
  <2>1. \A r \in 0 .. kRows - 1 : r < kRows - 1 => r + 1 \in 0 .. kRows - 1
    BY GridSizes
  <2> QED
    BY <2>1 DEF Console, MovedUp
<1> HIDE DEF b
<1>3. cleared \in [Place -> Pixel]
  <2>1. Plain("blue") \in Pixel
    BY DEF Plain, Pixel, Colour
  <2> QED
    BY <2>1 DEF Console
<1>4. ASSUME NEW xy \in Cell
      PROVE  /\ b[xy[2]][xy[1]] \in Char \cup {NUL} /\ xy \in Place /\ xy[1] \in 0 .. xy[1]
             /\ xy[2] \in 0 .. kRows - 2 <=> xy[2] < kRows - 1
  <2>1. xy[1] \in 0 .. kColumns - 1 /\ xy[2] \in 0 .. kRows - 1
    BY Cells
  <2>2. xy[1] \in 0 .. xy[1] /\ (xy[2] \in 0 .. kRows - 2 <=> xy[2] < kRows - 1)
    BY <2>1, GridSizes
  <2> QED
    BY <1>2, <2>1, <2>2, GridSizes
<1>5. ASSUME NEW xy \in Place
      PROVE  p[xy] =
               IF xy \in Cell
                 THEN IF xy[2] < kRows - 1 /\ \A i \in 0 .. xy[1] : b[xy[2]][i] # NUL
                        THEN [colour |-> "blue", ink |-> {b[xy[2]][xy[1]]}]
                        ELSE Plain("blue")
                 ELSE c.pixels[xy]
  <2>1. p[xy] = IF xy \in Cell /\ xy[2] \in 0 .. kRows - 2 /\ \A i \in 0 .. xy[1] : b[xy[2]][i] # NUL
                  THEN WriteAscii(cleared, xy, b[xy[2]][xy[1]])[xy] ELSE cleared[xy]
    BY DEF WriteRows
  <2>2. CASE xy \in Cell
    <3>1. cleared[xy] = [colour |-> "blue", ink |-> {}] /\ xy \in DOMAIN cleared
      BY <2>2 DEF Plain
    <3> HIDE DEF cleared
    <3>2. \A e : WriteAscii(cleared, xy, e)[xy] = [colour |-> "blue", ink |-> {e}]
      BY <3>1 DEF WriteAscii
    <3> QED
      <4> DEFINE all == \A i \in 0 .. xy[1] : b[xy[2]][i] # NUL
      <4> HIDE DEF all, p
      <4>1. p[xy] = IF xy[2] < kRows - 1 /\ all
                      THEN [colour |-> "blue", ink |-> {b[xy[2]][xy[1]]}]
                      ELSE [colour |-> "blue", ink |-> {}]
        BY <1>4, <2>1, <2>2, <3>1, <3>2 DEF all
      <4> QED
        BY <2>2, <4>1 DEF Plain, all
  <2>3. CASE xy \notin Cell
    BY <2>1, <2>3
  <2> QED
    BY <2>2, <2>3
<1>6. p \in [Place -> Pixel]
  <2>1. p = [xy \in Place |-> p[xy]]
    BY DEF WriteRows
  <2>2. ASSUME NEW xy \in Place PROVE p[xy] \in Pixel
    <3> HIDE DEF p, cleared
    <3>1. CASE xy \notin Cell
      BY <1>5, <3>1 DEF Console
    <3>2. CASE xy \in Cell
      <4>1. (\A i \in 0 .. xy[1] : b[xy[2]][i] # NUL) => b[xy[2]][xy[1]] \in Char
        BY <1>4, <3>2
      <4> QED
        <5> DEFINE all == \A i \in 0 .. xy[1] : b[xy[2]][i] # NUL
                   e == b[xy[2]][xy[1]]
        <5>1. (p[xy] = [colour |-> "blue", ink |-> {e}] /\ all)
              \/ p[xy] = [colour |-> "blue", ink |-> {}]
          <6> HIDE DEF all
          <6> QED
            BY <1>5, <3>2 DEF Plain, all
        <5>2. all => e \in Char
          BY <4>1
        <5> HIDE DEF all, e
        <5> QED
          BY <5>1, <5>2 DEF Pixel, Colour
    <3> QED
      BY <3>1, <3>2
  <2> HIDE DEF p
  <2> QED
    BY <2>1, <2>2
<1>7. Newline(c) = [c EXCEPT !.column = 0, !.buffer = b, !.pixels = p]
  BY DEF Newline, b, MovedUp
<1> HIDE DEF p, cleared
<1>8. /\ Newline(c) \in Console /\ Newline(c).row = c.row /\ Newline(c).column = 0
      /\ Newline(c).buffer = b /\ Newline(c).pixels = p
  <2>1. 0 \in 0 .. kColumns
    BY GridSizes
  <2> QED
    BY <1>2, <1>6, <1>7, <2>1 DEF Console
<1> QED
  BY <1>1, <1>5, <1>8 DEF b

\* A character that has a column.
LEMMA CharPut ==
  ASSUME NEW c \in Console, NEW s \in Char, c.column < kColumns
  PROVE  LET d == PutChar(c, s) IN
           /\ d \in Console /\ d.row = c.row /\ d.column = c.column + 1
           /\ <<c.column, c.row>> \in Cell
           /\ \A xy \in Cell :
                d.buffer[xy[2]][xy[1]] =
                  IF xy = <<c.column, c.row>> THEN s ELSE c.buffer[xy[2]][xy[1]]
           /\ \A xy \in Place :
                d.pixels[xy] =
                  IF xy = <<c.column, c.row>>
                    THEN [colour |-> c.pixels[xy].colour, ink |-> c.pixels[xy].ink \cup {s}]
                    ELSE c.pixels[xy]
<1> DEFINE x == c.column
           y == c.row
           p == WriteAscii(c.pixels, <<x, y>>, s)
           b == [c.buffer EXCEPT ![y][x] = s]
<1>1. /\ x \in 0 .. kColumns - 1 /\ y \in 0 .. kRows - 1 /\ x + 1 \in 0 .. kColumns
      /\ <<x, y>> \in Cell /\ <<x, y>> \in Place
  <2>1. x \in 0 .. kColumns - 1 /\ y \in 0 .. kRows - 1 /\ x + 1 \in 0 .. kColumns
    BY GridSizes DEF Console
  <2> QED
    BY <2>1, Cells, GridSizes
<1>2. /\ c.pixels \in [Place -> Pixel]
      /\ c.buffer \in [0 .. kRows - 1 -> [0 .. kColumns - 1 -> Char \cup {NUL}]]
  BY DEF Console
<1>3. PutChar(c, s) = [c EXCEPT !.pixels = p, !.buffer = b, !.column = x + 1]
  <2>1. ~(s = NewlineChar \/ c.column >= kColumns)
    <3>1. s # NewlineChar
      BY GridSizes
    <3>2. ~(c.column >= kColumns)
      BY GridSizes DEF Console
    <3> QED
      BY <3>1, <3>2
  <2> QED
    BY <2>1 DEF PutChar
<1>4. /\ p \in [Place -> Pixel]
      /\ \A xy \in Place :
           p[xy] = IF xy = <<x, y>>
                     THEN [colour |-> c.pixels[xy].colour, ink |-> c.pixels[xy].ink \cup {s}]
                     ELSE c.pixels[xy]
  <2> DEFINE q == c.pixels
  <2> HIDE DEF q, x, y
  <2>1. p = [q EXCEPT ![<<x, y>>] = [q[<<x, y>>] EXCEPT !.ink = @ \cup {s}]]
    BY DEF WriteAscii, q
  <2>2. q[<<x, y>>] \in Pixel /\ q \in [Place -> Pixel]
    BY <1>1, <1>2 DEF q
  <2>3. /\ [q[<<x, y>>] EXCEPT !.ink = @ \cup {s}]
             = [colour |-> q[<<x, y>>].colour, ink |-> q[<<x, y>>].ink \cup {s}]
        /\ [q[<<x, y>>] EXCEPT !.ink = @ \cup {s}] \in Pixel
    <3> DEFINE o == q[<<x, y>>]
    <3> HIDE DEF o
    <3>1. o \in [colour : Colour, ink : SUBSET Char]
      BY <2>2 DEF o, Pixel
    <3>2. o.ink \cup {s} \in SUBSET Char /\ o.colour \in Colour
      BY <3>1
    <3>3. [o EXCEPT !.ink = @ \cup {s}] = [colour |-> o.colour, ink |-> o.ink \cup {s}]
      BY <3>1
    <3> QED
      BY <3>2, <3>3 DEF o, Pixel
  <2> DEFINE w == [q[<<x, y>>] EXCEPT !.ink = @ \cup {s}]
             at == <<x, y>>
  <2> HIDE DEF p, w, at
  <2>4. p = [q EXCEPT ![at] = w] /\ w \in Pixel /\ at \in Place
    <3>1. p = [q EXCEPT ![at] = w]
      BY <2>1 DEF w, at
    <3>2. w \in Pixel
      BY <2>3 DEF w
    <3>3. at \in Place
      BY <1>1 DEF at, x, y
    <3> QED
      BY <3>1, <3>2, <3>3
  <2>5. p \in [Place -> Pixel] /\ \A xy \in Place : p[xy] = IF xy = at THEN w ELSE q[xy]
    BY <2>2, <2>4
  <2> QED
    BY <2>3, <2>5 DEF q, w, at
<1>5. /\ b \in [0 .. kRows - 1 -> [0 .. kColumns - 1 -> Char \cup {NUL}]]
      /\ \A i \in 0 .. kColumns - 1, j \in 0 .. kRows - 1 :
           b[j][i] = IF i = x /\ j = y THEN s ELSE c.buffer[j][i]
  BY <1>1, <1>2
<1> HIDE DEF p, b, x, y
<1>6. LET d == PutChar(c, s) IN
        /\ d \in Console /\ d.row = c.row /\ d.column = x + 1 /\ d.buffer = b /\ d.pixels = p
  BY <1>1, <1>3, <1>4, <1>5 DEF Console
<1>7. \A xy \in Cell :
        b[xy[2]][xy[1]] = IF xy = <<x, y>> THEN s ELSE c.buffer[xy[2]][xy[1]]
  <2> TAKE xy \in Cell
  <2>1. /\ xy[1] \in 0 .. kColumns - 1 /\ xy[2] \in 0 .. kRows - 1
        /\ xy = <<x, y>> <=> xy[1] = x /\ xy[2] = y
    BY Cells
  <2> QED
    BY <1>5, <2>1
<1> QED
  BY <1>1, <1>4, <1>6, <1>7 DEF x, y

\* One of the three: what PutChar does is a line break or a character.
LEMMA PutCharCases ==
  ASSUME NEW c \in Console, NEW s \in Symbol
  PROVE  /\ s = NewlineChar \/ c.column = kColumns => PutChar(c, s) = Newline(c)
         /\ ~(s = NewlineChar \/ c.column = kColumns) => s \in Char /\ c.column < kColumns
<1>1. c.column \in 0 .. kColumns /\ kColumns \in Nat
  BY GridSizes DEF Console
<1>2. c.column >= kColumns <=> c.column = kColumns
  BY <1>1
<1>3. c.column # kColumns => c.column < kColumns
  BY <1>1
<1> QED
  BY <1>2, <1>3 DEF PutChar, Symbol

\* PutChar, from a line break or a character at a time.
LEMMA BufferKept ==
  ASSUME NEW c \in Console, NEW s \in Symbol, BufferOK(c)
  PROVE  PutChar(c, s) \in Console /\ BufferOK(PutChar(c, s))
<1> DEFINE d == PutChar(c, s)
<1>1. /\ \A xy \in Cell : ~Blank(c, xy) => \A i \in 0 .. xy[1] : ~Blank(c, <<i, xy[2]>>)
      /\ \A xy \in Cell : xy[2] = c.row => (Blank(c, xy) <=> xy[1] >= c.column)
      /\ \A xy \in Cell : xy[2] > c.row => Blank(c, xy)
  BY DEF BufferOK
<1>2. /\ c.row \in 0 .. kRows - 1 /\ c.column \in 0 .. kColumns
      /\ kRows \in Nat /\ kColumns \in Nat
  BY GridSizes DEF Console
<1>3. CASE (s = NewlineChar \/ c.column = kColumns) /\ c.row + 1 < kRows
  <2>1. /\ d \in Console /\ d.row = c.row + 1 /\ d.column = 0
        /\ d.buffer = c.buffer
    BY <1>3, NewlineMoves, PutCharCases
  <2> HIDE DEF d
  <2>2. \A xy : Blank(d, xy) <=> Blank(c, xy)
    BY <2>1 DEF Blank
  <2>3. \A xy \in Cell : /\ xy[2] = d.row => xy[2] > c.row
                         /\ xy[2] > d.row => xy[2] > c.row
                         /\ xy[1] >= 0
    <3> TAKE xy \in Cell
    <3>1. xy[1] \in 0 .. kColumns - 1 /\ xy[2] \in 0 .. kRows - 1
      BY Cells
    <3> QED
      BY <1>2, <2>1, <3>1
  <2> QED
    BY <1>1, <2>1, <2>2, <2>3 DEF BufferOK, d
<1>4. CASE (s = NewlineChar \/ c.column = kColumns) /\ ~(c.row + 1 < kRows)
  <2>1. /\ d \in Console /\ d.row = c.row /\ c.row = kRows - 1 /\ d.column = 0
        /\ d.buffer = MovedUp(c.buffer)
    BY <1>4, NewlineScrolls, PutCharCases
  <2> HIDE DEF d
  <2>2. ASSUME NEW x \in 0 .. kColumns - 1, NEW y \in 0 .. kRows - 1
        PROVE  /\ y < kRows - 1 => (Blank(d, <<x, y>>) <=> Blank(c, <<x, y + 1>>)) /\ <<x, y + 1>> \in Cell
               /\ ~(y < kRows - 1) => Blank(d, <<x, y>>)
    <3>1. y < kRows - 1 => y + 1 \in 0 .. kRows - 1
      BY <1>2
    <3> QED
      BY <2>1, <3>1, Cells DEF MovedUp, Blank
  <2>3. ASSUME NEW xy \in Cell, ~Blank(d, xy), NEW i \in 0 .. xy[1]
        PROVE  ~Blank(d, <<i, xy[2]>>)
    <3>1. xy[1] \in 0 .. kColumns - 1 /\ xy[2] \in 0 .. kRows - 1 /\ xy = <<xy[1], xy[2]>>
      BY Cells
    <3>2. i \in 0 .. kColumns - 1
      BY <1>2, <3>1
    <3>3. xy[2] < kRows - 1 /\ ~Blank(c, <<xy[1], xy[2] + 1>>) /\ <<xy[1], xy[2] + 1>> \in Cell
      BY <2>2, <2>3, <3>1
    <3>4. ~Blank(c, <<i, xy[2] + 1>>)
      BY <1>1, <3>3
    <3> QED
      BY <2>2, <3>1, <3>2, <3>3, <3>4
  <2>4. ASSUME NEW xy \in Cell
        PROVE  /\ xy[2] = d.row => (Blank(d, xy) <=> xy[1] >= d.column)
               /\ ~(xy[2] > d.row)
    <3>1. xy[1] \in 0 .. kColumns - 1 /\ xy[2] \in 0 .. kRows - 1 /\ xy = <<xy[1], xy[2]>>
      BY Cells
    <3>2. xy[1] >= d.column /\ ~(xy[2] > d.row) /\ (xy[2] = d.row => ~(xy[2] < kRows - 1))
      BY <1>2, <2>1, <3>1
    <3> QED
      BY <2>2, <3>1, <3>2
  <2> QED
    BY <2>1, <2>3, <2>4 DEF BufferOK, d
<1>5. CASE ~(s = NewlineChar \/ c.column = kColumns)
  <2>1. s \in Char /\ c.column < kColumns
    BY <1>5, PutCharCases
  <2>2. /\ d \in Console /\ d.row = c.row /\ d.column = c.column + 1
        /\ \A xy \in Cell : d.buffer[xy[2]][xy[1]] =
             IF xy = <<c.column, c.row>> THEN s ELSE c.buffer[xy[2]][xy[1]]
    BY <2>1, CharPut
  <2> HIDE DEF d
  <2>3. s # NUL
    BY <2>1, GridSizes
  <2>4. \A xy \in Cell : Blank(d, xy) <=> Blank(c, xy) /\ xy # <<c.column, c.row>>
    BY <2>2, <2>3 DEF Blank
  <2>5. ASSUME NEW xy \in Cell, ~Blank(d, xy), NEW i \in 0 .. xy[1]
        PROVE  ~Blank(d, <<i, xy[2]>>)
    <3>1. xy[1] \in 0 .. kColumns - 1 /\ xy[2] \in 0 .. kRows - 1 /\ xy = <<xy[1], xy[2]>>
      BY Cells
    <3>2. i \in 0 .. kColumns - 1 /\ <<i, xy[2]>> \in Cell /\ i <= xy[1]
      BY <1>2, <3>1, Cells
    <3>3. CASE ~Blank(c, xy)
      BY <1>1, <2>4, <3>2, <3>3
    <3>4. CASE xy = <<c.column, c.row>>
      <4>1. i = c.column \/ ~(i >= c.column)
        BY <1>2, <3>2, <3>4
      <4> QED
        BY <1>1, <2>4, <3>2, <3>4, <4>1
    <3> QED
      BY <2>4, <2>5, <3>3, <3>4
  <2>6. ASSUME NEW xy \in Cell
        PROVE  /\ xy[2] = d.row => (Blank(d, xy) <=> xy[1] >= d.column)
               /\ xy[2] > d.row => Blank(d, xy)
    <3>1. xy[1] \in 0 .. kColumns - 1 /\ xy[2] \in 0 .. kRows - 1 /\ xy = <<xy[1], xy[2]>>
      BY Cells
    <3>2. xy[1] >= c.column + 1 <=> xy[1] >= c.column /\ xy[1] # c.column
      BY <1>2, <3>1
    <3>3. xy[2] > c.row => xy[2] # c.row
      BY <1>2, <3>1
    <3>4. xy[2] = c.row => (Blank(d, xy) <=> xy[1] >= c.column + 1)
      <4> HAVE xy[2] = c.row
      <4>1. xy = <<c.column, c.row>> <=> xy[1] = c.column
        BY <3>1
      <4> QED
        BY <1>1, <2>4, <3>2, <4>1
    <3>5. xy[2] > c.row => Blank(d, xy)
      <4> HAVE xy[2] > c.row
      <4>1. xy # <<c.column, c.row>>
        BY <3>1, <3>3
      <4> QED
        BY <1>1, <2>4, <4>1
    <3> QED
      BY <2>2, <3>4, <3>5
  <2> QED
    BY <2>2, <2>5, <2>6 DEF BufferOK, d
<1> QED
  BY <1>3, <1>4, <1>5

\* A character is written where nothing was, a line break clears what it moves.
LEMMA InkKept ==
  ASSUME NEW c \in Console, NEW s \in Symbol, BufferOK(c), InkOK(c)
  PROVE  InkOK(PutChar(c, s))
<1> DEFINE d == PutChar(c, s)
<1>1. d \in Console /\ BufferOK(d)
  BY BufferKept
<1>2. CASE (s = NewlineChar \/ c.column = kColumns) /\ c.row + 1 < kRows
  <2>1. d.buffer = c.buffer /\ d.pixels = c.pixels
    BY <1>2, NewlineMoves, PutCharCases
  <2> HIDE DEF d
  <2> QED
    BY <2>1 DEF InkOK, Blank, d
<1>3. CASE (s = NewlineChar \/ c.column = kColumns) /\ ~(c.row + 1 < kRows)
  <2>1. /\ d.row = kRows - 1 /\ d.column = 0
        /\ \A xy \in Place :
             d.pixels[xy] =
               IF xy \in Cell
                 THEN IF xy[2] < kRows - 1 /\ \A i \in 0 .. xy[1] : d.buffer[xy[2]][i] # NUL
                        THEN [colour |-> "blue", ink |-> {d.buffer[xy[2]][xy[1]]}]
                        ELSE Plain("blue")
                 ELSE c.pixels[xy]
    BY <1>3, NewlineScrolls, PutCharCases
  <2> HIDE DEF d
  <2>2. ASSUME NEW xy \in Cell
        PROVE  (xy[2] < kRows - 1 /\ \A i \in 0 .. xy[1] : d.buffer[xy[2]][i] # NUL) <=> ~Blank(d, xy)
    <3>1. xy[1] \in 0 .. kColumns - 1 /\ xy[2] \in 0 .. kRows - 1
      BY Cells
    <3>2. xy[1] \in 0 .. xy[1] /\ xy[1] >= 0 /\ (xy[2] < kRows - 1 \/ xy[2] = kRows - 1)
      BY <3>1, GridSizes
    <3>3. ~Blank(d, xy) => \A i \in 0 .. xy[1] : d.buffer[xy[2]][i] # NUL
      BY <1>1 DEF BufferOK, Blank
    <3>4. xy[2] = kRows - 1 => Blank(d, xy)
      BY <1>1, <2>1, <3>2 DEF BufferOK
    <3> QED
      BY <3>2, <3>3, <3>4 DEF Blank
  <2>3. ASSUME NEW xy \in Place
        PROVE  d.pixels[xy].ink = IF xy \in Cell /\ ~Blank(d, xy) THEN {d.buffer[xy[2]][xy[1]]} ELSE {}
    <3>1. CASE xy \in Cell
      <4>1. d.pixels[xy] = IF ~Blank(d, xy) THEN [colour |-> "blue", ink |-> {d.buffer[xy[2]][xy[1]]}]
                           ELSE Plain("blue")
        BY <2>1, <2>2, <3>1
      <4> QED
        BY <3>1, <4>1 DEF Plain
    <3>2. CASE xy \notin Cell
      BY <2>1, <3>2 DEF InkOK
    <3> QED
      BY <3>1, <3>2
  <2> QED
    BY <2>3 DEF InkOK, d
<1>4. CASE ~(s = NewlineChar \/ c.column = kColumns)
  <2>1. s \in Char /\ c.column < kColumns
    BY <1>4, PutCharCases
  <2> DEFINE at == <<c.column, c.row>>
  <2>2. /\ at \in Cell /\ at[2] = c.row /\ at[1] = c.column
        /\ \A xy \in Cell : d.buffer[xy[2]][xy[1]] = IF xy = at THEN s ELSE c.buffer[xy[2]][xy[1]]
        /\ \A xy \in Place :
             d.pixels[xy] = IF xy = at
                              THEN [colour |-> c.pixels[xy].colour, ink |-> c.pixels[xy].ink \cup {s}]
                              ELSE c.pixels[xy]
    BY <2>1, CharPut
  <2>3. Blank(c, at) /\ s # NUL /\ at \in Place
    <3>1. c.column \in 0 .. kColumns /\ kColumns \in Nat
      BY GridSizes DEF Console
    <3>2. c.column >= c.column
      BY <3>1
    <3> QED
      BY <2>1, <2>2, <3>2, GridSizes DEF BufferOK
  <2> HIDE DEF d, at
  <2>4. ASSUME NEW xy \in Place
        PROVE  d.pixels[xy].ink = IF xy \in Cell /\ ~Blank(d, xy) THEN {d.buffer[xy[2]][xy[1]]} ELSE {}
    <3>1. CASE xy = at
      <4>1. c.pixels[xy].ink = {}
        BY <2>3, <3>1 DEF InkOK
      <4>2. d.pixels[xy] = [colour |-> c.pixels[xy].colour, ink |-> {} \cup {s}]
        BY <2>2, <3>1, <4>1
      <4>3. d.pixels[xy].ink = {s}
        BY <4>2
      <4> QED
        BY <2>2, <2>3, <3>1, <4>3 DEF Blank
    <3>2. CASE xy # at
      BY <2>2, <3>2 DEF InkOK, Blank
    <3> QED
      BY <3>1, <3>2
  <2> QED
    BY <2>4 DEF InkOK, d
<1> QED
  BY <1>2, <1>3, <1>4

\* The console writes on the colour of the desktop only.
LEMMA ColourKept ==
  ASSUME NEW c \in Console, NEW s \in Symbol, ColourOK(c)
  PROVE  ColourOK(PutChar(c, s))
<1> DEFINE d == PutChar(c, s)
<1>1. CASE (s = NewlineChar \/ c.column = kColumns) /\ c.row + 1 < kRows
  <2>1. d.pixels = c.pixels
    BY <1>1, NewlineMoves, PutCharCases
  <2> QED
    BY <2>1 DEF ColourOK
<1>2. CASE (s = NewlineChar \/ c.column = kColumns) /\ ~(c.row + 1 < kRows)
  <2>1. \A xy \in Place :
          d.pixels[xy] =
            IF xy \in Cell
              THEN IF xy[2] < kRows - 1 /\ \A i \in 0 .. xy[1] : d.buffer[xy[2]][i] # NUL
                     THEN [colour |-> "blue", ink |-> {d.buffer[xy[2]][xy[1]]}]
                     ELSE Plain("blue")
              ELSE c.pixels[xy]
    BY <1>2, NewlineScrolls, PutCharCases
  <2> HIDE DEF d
  <2>2. ASSUME NEW xy \in Place PROVE d.pixels[xy].colour = DesktopColour(xy)
    <3>1. CASE xy \in Cell
      <4>1. \/ d.pixels[xy] = [colour |-> "blue", ink |-> {d.buffer[xy[2]][xy[1]]}]
            \/ d.pixels[xy] = [colour |-> "blue", ink |-> {}]
        BY <2>1, <3>1 DEF Plain
      <4>2. d.pixels[xy].colour = "blue"
        BY <4>1
      <4> QED
        BY <3>1, <4>2, GridSizes
    <3>2. CASE xy \notin Cell
      BY <2>1, <3>2 DEF ColourOK
    <3> QED
      BY <3>1, <3>2
  <2> QED
    BY <2>2 DEF ColourOK, d
<1>3. CASE ~(s = NewlineChar \/ c.column = kColumns)
  <2>1. s \in Char /\ c.column < kColumns
    BY <1>3, PutCharCases
  <2>2. \A xy \in Place :
          d.pixels[xy] = IF xy = <<c.column, c.row>>
                           THEN [colour |-> c.pixels[xy].colour, ink |-> c.pixels[xy].ink \cup {s}]
                           ELSE c.pixels[xy]
    BY <2>1, CharPut
  <2> HIDE DEF d
  <2>3. ASSUME NEW xy \in Place PROVE d.pixels[xy].colour = c.pixels[xy].colour
    <3>1. CASE xy = <<c.column, c.row>>
      <4>1. d.pixels[xy] = [colour |-> c.pixels[xy].colour, ink |-> c.pixels[xy].ink \cup {s}]
        BY <2>2, <3>1
      <4> QED
        BY <4>1
    <3>2. CASE xy # <<c.column, c.row>>
      BY <2>2, <3>2
    <3> QED
      BY <3>1, <3>2
  <2> QED
    BY <2>3 DEF ColourOK, d
<1> QED
  BY <1>1, <1>2, <1>3

-----------------------------------------------------------------------------
(* The text, as it grows.                                                  *)

\* A quotient is larger by one only with a remainder smaller by m.
LEMMA OneRemainder ==
  ASSUME NEW m \in Nat, NEW p \in Nat, NEW q \in Nat, NEW r \in 0 .. m - 1, NEW s \in 0 .. m - 1,
         m * q + r = m * p + s
  PROVE  r = s /\ q = p
<1>1. ASSUME NEW a \in Nat, NEW b \in Nat, NEW u \in 0 .. m - 1, NEW v \in 0 .. m - 1,
             m * a + u = m * b + v, a > b
      PROVE  FALSE
  <2> DEFINE d == a - b - 1
  <2>1. d \in Nat /\ a = b + d + 1
    BY <1>1
  <2> HIDE DEF d
  <2>2. \A i, j \in Nat : i * j \in Nat
    OBVIOUS
  <2>3. m * d \in Nat /\ m * b \in Nat
    BY <2>1, <2>2
  <2>4. m * a = m * b + m * d + m
    BY <2>1
  <2> DEFINE e == m * d
             f == m * b
             g == m * a
  <2>5. g + u = f + v /\ g = f + e + m /\ e \in Nat /\ f \in Nat
    BY <1>1, <2>3, <2>4
  <2> HIDE DEF e, f, g
  <2> QED
    BY <2>5
<1>2. q = p
  BY <1>1
<1> QED
  BY <1>2

LEMMA NextColumn ==
  ASSUME NEW x \in Nat, NEW m \in Nat, m > 0
  PROVE  /\ x % m \in 0 .. m - 1 /\ 0 % m = 0
         /\ (x + 1) % m = IF x % m = m - 1 THEN 0 ELSE (x % m) + 1
<1>1. \A y \in Nat : y % m \in 0 .. m - 1 /\ y = m * (y \div m) + (y % m) /\ y \div m \in Int
  OBVIOUS
<1>2. \A y \in Nat : y \div m \in Nat
  OBVIOUS
<1>3. ASSUME NEW y \in Nat, NEW q \in Nat, NEW r \in 0 .. m - 1, y = m * q + r
      PROVE  y % m = r
  BY <1>1, <1>2, <1>3, OneRemainder
<1> DEFINE q == x \div m
           r == x % m
<1>4. q \in Nat /\ r \in 0 .. m - 1 /\ x = m * q + r
  BY <1>1, <1>2
<1> HIDE DEF q, r
<1>5. r = m - 1 => (x + 1) % m = 0
  <2> HAVE r = m - 1
  <2>1. x + 1 = m * (q + 1) + 0 /\ q + 1 \in Nat /\ 0 \in 0 .. m - 1 /\ x + 1 \in Nat
    BY <1>4
  <2> QED
    BY <1>3, <2>1
<1>6. r # m - 1 => (x + 1) % m = r + 1
  <2> HAVE r # m - 1
  <2>1. x + 1 = m * q + (r + 1) /\ r + 1 \in 0 .. m - 1 /\ x + 1 \in Nat
    BY <1>4
  <2> QED
    BY <1>3, <1>4, <2>1
<1>7. 0 % m = 0
  OBVIOUS
<1> QED
  BY <1>4, <1>5, <1>6, <1>7 DEF r

\* A newline is where the next line starts.
LEMMA LineStarts ==
  ASSUME NEW t, NEW i \in Nat, i >= 1
  PROVE  /\ LineStart(t, i) \in 0 .. i - 1
         /\ LineStart(t, 1) = 0
         /\ LineStart(t, i + 1) = IF t[i] = NewlineChar THEN i ELSE LineStart(t, i)
<1> DEFINE ends(n) == {j \in 1 .. n - 1 : t[j] = NewlineChar}
           greatest(S) == CHOOSE j \in S : \A k \in S : k <= j
<1>1. \A n : LineStart(t, n) = IF ends(n) = {} THEN 0 ELSE greatest(ends(n))
  BY DEF LineStart
<1>2. \A n \in Nat : ends(n) \in SUBSET (0 .. n) /\ \A j \in ends(n) : j \in 1 .. n - 1
  <2> TAKE n \in Nat
  <2>1. 1 .. n - 1 \subseteq 0 .. n
    OBVIOUS
  <2> QED
    BY <2>1
<1>3. ends(1) = {}
  <2>1. 1 .. 1 - 1 = {}
    OBVIOUS
  <2> QED
    BY <2>1
<1>4. t[i] # NewlineChar => ends(i + 1) = ends(i)
  <2> HAVE t[i] # NewlineChar
  <2>1. \A j \in 1 .. i : j = i \/ j \in 1 .. i - 1
    OBVIOUS
  <2>2. i + 1 - 1 = i /\ 1 .. i - 1 \subseteq 1 .. i
    OBVIOUS
  <2> QED
    BY <2>1, <2>2
<1>5. t[i] = NewlineChar => i \in ends(i + 1) /\ \A j \in ends(i + 1) : j <= i /\ j \in Nat
  <2> HAVE t[i] = NewlineChar
  <2>1. i + 1 - 1 = i /\ i \in 1 .. i /\ \A j \in 1 .. i : j <= i /\ j \in Nat
    OBVIOUS
  <2> QED
    BY <2>1
<1> HIDE DEF ends
<1>6. ASSUME NEW S, NEW j \in S, \A k \in S : k <= j /\ k \in Nat
      PROVE  greatest(S) = j
  <2>1. greatest(S) \in S /\ \A k \in S : k <= greatest(S)
    BY <1>6
  <2> HIDE DEF greatest
  <2> QED
    BY <1>6, <2>1
<1>7. ends(i) # {} => greatest(ends(i)) \in ends(i)
  <2> HAVE ends(i) # {}
  <2>1. \E m \in ends(i) : \A k \in ends(i) : k <= m
    BY <1>2, GreatestNat
  <2> QED
    BY <2>1
<1>8. t[i] = NewlineChar => greatest(ends(i + 1)) = i /\ ends(i + 1) # {}
  BY <1>5, <1>6
<1> HIDE DEF greatest
<1>9. LineStart(t, i) \in 0 .. i - 1
  <2>1. 0 \in 0 .. i - 1 /\ \A j \in 1 .. i - 1 : j \in 0 .. i - 1
    OBVIOUS
  <2> QED
    BY <1>1, <1>2, <1>7, <2>1
<1> QED
  BY <1>1, <1>3, <1>4, <1>8, <1>9

\* A line has room for kColumns characters, and one more breaks it.
LEMMA Columns ==
  ASSUME NEW t, NEW i \in Nat, i >= 1
  PROVE  /\ Column(t, i) \in 0 .. kColumns /\ Column(t, 1) = 0
         /\ Column(t, i + 1) = IF Breaks(t, i) THEN 0 ELSE Column(t, i) + 1
<1> DEFINE x == i - LineStart(t, i) - 1
           m == kColumns + 1
<1>1. m \in Nat /\ m > 0 /\ m - 1 = kColumns
  BY GridSizes
<1>2. x \in Nat /\ i + 1 - LineStart(t, i) - 1 = x + 1 /\ i + 1 - i - 1 = 0 /\ 1 - 0 - 1 = 0
  BY LineStarts
<1> HIDE DEF x, m
<1>3. x % m \in 0 .. kColumns /\ (x + 1) % m = (IF x % m = kColumns THEN 0 ELSE (x % m) + 1) /\ 0 % m = 0
  BY <1>1, <1>2, NextColumn
<1>4. Column(t, i) = x % m
  BY DEF Column, x, m
<1>5. Column(t, 1) = 0
  BY <1>2, <1>3, LineStarts DEF Column, m
<1>6. CASE t[i] = NewlineChar
  <2>1. Column(t, i + 1) = (i + 1 - i - 1) % m
    BY <1>6, LineStarts DEF Column, m
  <2> QED
    BY <1>2, <1>3, <1>4, <1>5, <1>6, <2>1 DEF Breaks
<1>7. CASE t[i] # NewlineChar
  <2>1. Column(t, i + 1) = (i + 1 - LineStart(t, i) - 1) % m
    BY <1>7, LineStarts DEF Column, m
  <2> QED
    BY <1>2, <1>3, <1>4, <1>5, <1>7, <2>1 DEF Breaks
<1> QED
  BY <1>6, <1>7

\* A line break is where the next row starts.
LEMMA Rows ==
  ASSUME NEW t, NEW i \in Nat, i >= 1
  PROVE  /\ Row(t, i) \in Nat /\ Row(t, 1) = 0
         /\ Row(t, i + 1) = Row(t, i) + (IF Breaks(t, i) THEN 1 ELSE 0)
         /\ \A j \in 1 .. i : Row(t, j) <= Row(t, i)
<1> DEFINE B(n) == {j \in 1 .. n - 1 : Breaks(t, j)}
<1>1. \A n \in Nat : IsFiniteSet(B(n)) /\ Cardinality(B(n)) \in Nat
  <2> TAKE n \in Nat
  <2>1. IsFiniteSet(1 .. n - 1)
    BY FS_Interval
  <2>2. IsFiniteSet(B(n))
    BY <2>1, FS_Subset
  <2> HIDE DEF B
  <2> QED
    BY <2>2, FS_CardinalityType
<1>2. B(1) = {}
  <2>1. 1 .. 1 - 1 = {}
    OBVIOUS
  <2> QED
    BY <2>1
<1>3. i \notin B(i) /\ B(i + 1) = IF Breaks(t, i) THEN B(i) \cup {i} ELSE B(i)
  <2>1. i + 1 - 1 = i /\ i \in 1 .. i /\ i \notin 1 .. i - 1
    OBVIOUS
  <2>2. \A j : j \in 1 .. i <=> j \in 1 .. i - 1 \/ j = i
    OBVIOUS
  <2> QED
    BY <2>1, <2>2
<1>4. \A j \in 1 .. i : B(j) \subseteq B(i) /\ j \in Nat
  <2> TAKE j \in 1 .. i
  <2>1. 1 .. j - 1 \subseteq 1 .. i - 1
    OBVIOUS
  <2> QED
    BY <2>1
<1>5. \A n : Row(t, n) = Cardinality(B(n))
  BY DEF Row
<1> HIDE DEF B
<1>6. Row(t, i + 1) = Row(t, i) + (IF Breaks(t, i) THEN 1 ELSE 0)
  BY <1>1, <1>3, <1>5, FS_AddElement
<1>7. \A j \in 1 .. i : Row(t, j) <= Row(t, i)
  BY <1>1, <1>4, <1>5, FS_Subset
<1>8. Row(t, 1) = 0
  BY <1>2, <1>5, FS_EmptySet
<1> QED
  BY <1>1, <1>5, <1>6, <1>7, <1>8

\* The cursor stays on the grid.
LEMMA ScrolledBy ==
  ASSUME NEW t, Len(t) \in Nat
  PROVE  LET R == Row(t, Len(t) + 1) IN
           /\ R \in Nat /\ Scrolled(t) \in Nat
           /\ R - Scrolled(t) = IF R < kRows THEN R ELSE kRows - 1
           /\ R < kRows => Scrolled(t) = 0
<1> DEFINE R == Row(t, Len(t) + 1)
<1>1. R \in Nat
  BY Rows
<1>2. Scrolled(t) = IF R < kRows THEN 0 ELSE R - (kRows - 1)
  BY DEF Scrolled
<1> HIDE DEF R
<1>3. kRows \in Nat /\ kRows >= 1
  BY GridSizes
<1> QED
  BY <1>1, <1>2, <1>3 DEF R

\* What was put before keeps its place.
LEMMA SameBefore ==
  ASSUME NEW t \in Seq(Symbol), NEW s \in Symbol
  PROVE  LET u == Append(t, s)
             n == Len(t)
         IN /\ u \in Seq(Symbol) /\ Len(u) = n + 1 /\ n \in Nat /\ u[n + 1] = s
            /\ \A i \in 1 .. n : u[i] = t[i] /\ (Breaks(u, i) <=> Breaks(t, i))
            /\ \A i \in 1 .. n + 1 : Column(u, i) = Column(t, i) /\ Row(u, i) = Row(t, i)
<1> DEFINE u == Append(t, s)
           n == Len(t)
<1>1. /\ u \in Seq(Symbol) /\ Len(u) = n + 1 /\ n \in Nat /\ u[n + 1] = s
      /\ \A i \in 1 .. n : u[i] = t[i]
  BY AppendProperties
<1> HIDE DEF u, n
<1>2. ASSUME NEW i \in 1 .. n + 1
      PROVE  Column(u, i) = Column(t, i)
  <2>1. 1 .. i - 1 \subseteq 1 .. n
    BY <1>1
  <2> DEFINE ends(w) == {j \in 1 .. i - 1 : w[j] = NewlineChar}
  <2>2. ends(u) = ends(t)
    BY <1>1, <2>1
  <2>3. \A w : LineStart(w, i) = IF ends(w) = {} THEN 0
                                ELSE CHOOSE j \in ends(w) : \A k \in ends(w) : k <= j
    BY DEF LineStart
  <2> HIDE DEF ends
  <2>4. LineStart(u, i) = LineStart(t, i)
    BY <2>2, <2>3
  <2> QED
    BY <2>4 DEF Column
<1>3. \A i \in 1 .. n : Breaks(u, i) <=> Breaks(t, i)
  <2> TAKE i \in 1 .. n
  <2>1. i \in 1 .. n + 1
    BY <1>1
  <2> QED
    BY <1>1, <1>2, <2>1 DEF Breaks
<1>4. ASSUME NEW i \in 1 .. n + 1
      PROVE  Row(u, i) = Row(t, i)
  <2>1. 1 .. i - 1 \subseteq 1 .. n
    BY <1>1
  <2>2. {j \in 1 .. i - 1 : Breaks(u, j)} = {j \in 1 .. i - 1 : Breaks(t, j)}
    BY <1>3, <2>1
  <2> QED
    BY <2>2 DEF Row
<1> QED
  BY <1>1, <1>2, <1>3, <1>4 DEF u, n

\* What lies at xy when k lines have left.
LaidFrom(t, xy, k) == {t[i] : i \in {j \in DOMAIN t : /\ ~Breaks(t, j) /\ Column(t, j) = xy[1]
                                                      /\ Row(t, j) - k = xy[2]}}

\* A character more on the grid, or none.
LEMMA LaidWith ==
  ASSUME NEW t \in Seq(Symbol), NEW s \in Symbol, NEW k, NEW xy
  PROVE  LET u == Append(t, s)
             n == Len(t)
         IN LaidFrom(u, xy, k) =
              IF ~Breaks(u, n + 1) /\ Column(t, n + 1) = xy[1] /\ Row(t, n + 1) - k = xy[2]
                THEN LaidFrom(t, xy, k) \cup {s} ELSE LaidFrom(t, xy, k)
<1> DEFINE u == Append(t, s)
           n == Len(t)
           there(w) == {j \in DOMAIN w : /\ ~Breaks(w, j) /\ Column(w, j) = xy[1]
                                         /\ Row(w, j) - k = xy[2]}
           last == ~Breaks(u, n + 1) /\ Column(t, n + 1) = xy[1] /\ Row(t, n + 1) - k = xy[2]
<1>1. /\ u \in Seq(Symbol) /\ Len(u) = n + 1 /\ n \in Nat /\ u[n + 1] = s
      /\ \A i \in 1 .. n : u[i] = t[i] /\ (Breaks(u, i) <=> Breaks(t, i))
      /\ \A i \in 1 .. n + 1 : Column(u, i) = Column(t, i) /\ Row(u, i) = Row(t, i)
  BY SameBefore
<1>2. DOMAIN t = 1 .. n
  OBVIOUS
<1> HIDE DEF u, n
<1>3. /\ DOMAIN u = 1 .. n + 1 /\ n + 1 \in 1 .. n + 1 /\ n + 1 \notin 1 .. n
      /\ \A i : i \in 1 .. n + 1 <=> i \in 1 .. n \/ i = n + 1
  BY <1>1
<1>4. \A i \in 1 .. n : i \in there(u) <=> i \in there(t)
  BY <1>1, <1>2, <1>3
<1>5. n + 1 \in there(u) <=> last
  BY <1>1, <1>3
<1>6. there(u) \subseteq 1 .. n + 1 /\ there(t) \subseteq 1 .. n
  BY <1>2, <1>3
<1>7. \A w : LaidFrom(w, xy, k) = {w[i] : i \in there(w)}
  BY DEF LaidFrom
<1> HIDE DEF there, last
<1>8. CASE last
  <2>1. there(u) = there(t) \cup {n + 1}
    BY <1>3, <1>4, <1>5, <1>6, <1>8
  <2>2. {u[i] : i \in there(u)} = {t[i] : i \in there(t)} \cup {s}
    BY <1>1, <1>6, <2>1
  <2> QED
    BY <1>7, <1>8, <2>2 DEF last, u, n
<1>9. CASE ~last
  <2>1. there(u) = there(t)
    BY <1>3, <1>4, <1>5, <1>6, <1>9
  <2>2. {u[i] : i \in there(u)} = {t[i] : i \in there(t)}
    BY <1>1, <1>6, <2>1
  <2> QED
    BY <1>7, <1>9, <2>2 DEF last, u, n
<1> QED
  BY <1>8, <1>9

\* A character put is a character more in the text.
LEMMA TextKept ==
  ASSUME NEW c \in Console, NEW s \in Symbol, NEW t \in Seq(Symbol), BufferOK(c), TextOK(c, t)
  PROVE  TextOK(PutChar(c, s), Append(t, s))
<1> DEFINE d == PutChar(c, s)
           u == Append(t, s)
           n == Len(t)
           R == Row(t, n + 1)
           shown(b, xy) == IF Blank(b, xy) THEN {} ELSE {b.buffer[xy[2]][xy[1]]}
<1>1. /\ u \in Seq(Symbol) /\ Len(u) = n + 1 /\ n \in Nat /\ u[n + 1] = s
      /\ Column(u, n + 1) = Column(t, n + 1) /\ Row(u, n + 1) = R
  <2>1. /\ u \in Seq(Symbol) /\ Len(u) = n + 1 /\ n \in Nat /\ u[n + 1] = s
        /\ \A i \in 1 .. n + 1 : Column(u, i) = Column(t, i) /\ Row(u, i) = Row(t, i)
    BY SameBefore
  <2>2. n + 1 \in 1 .. n + 1
    BY <2>1
  <2> HIDE DEF u, n
  <2> QED
    BY <2>1, <2>2 DEF R
<1>2. /\ c.column = Column(t, n + 1) /\ c.row = R - Scrolled(t)
      /\ \A xy \in Cell : Laid(t, xy) = shown(c, xy)
  BY DEF TextOK
<1>3. /\ R \in Nat /\ Scrolled(t) \in Nat /\ (R < kRows => Scrolled(t) = 0)
      /\ R - Scrolled(t) = IF R < kRows THEN R ELSE kRows - 1
  BY <1>1, ScrolledBy
<1>4. \A w, xy : Laid(w, xy) = LaidFrom(w, xy, Scrolled(w))
  BY DEF Laid, LaidFrom
<1> DEFINE B == Breaks(u, n + 1)
<1>5. B <=> s = NewlineChar \/ c.column = kColumns
  BY <1>1, <1>2 DEF Breaks
<1>6. /\ Column(u, n + 2) = IF B THEN 0 ELSE c.column + 1
      /\ Row(u, n + 2) = R + (IF B THEN 1 ELSE 0)
  <2>1. n + 1 \in Nat /\ n + 1 >= 1 /\ n + 1 + 1 = n + 2
    BY <1>1
  <2> HIDE DEF u, n
  <2>2. Column(u, n + 1 + 1) = IF B THEN 0 ELSE Column(u, n + 1) + 1
    BY <2>1, Columns
  <2>3. Row(u, n + 1 + 1) = Row(u, n + 1) + (IF B THEN 1 ELSE 0)
    BY <2>1, Rows
  <2> QED
    BY <1>1, <1>2, <2>1, <2>2, <2>3
<1>7. /\ Scrolled(u) = IF Row(u, n + 2) < kRows THEN 0 ELSE Row(u, n + 2) - (kRows - 1)
      /\ Scrolled(t) = IF R < kRows THEN 0 ELSE R - (kRows - 1)
  <2>1. Len(u) + 1 = n + 2
    BY <1>1
  <2> HIDE DEF u
  <2> QED
    BY <2>1 DEF Scrolled
<1>8. \A xy, k : LaidFrom(u, xy, k) =
        IF ~B /\ c.column = xy[1] /\ R - k = xy[2]
          THEN LaidFrom(t, xy, k) \cup {s} ELSE LaidFrom(t, xy, k)
  BY <1>2, LaidWith
<1>9. kRows \in Nat /\ kRows >= 1 /\ NUL \notin Symbol
  <2>1. NUL \notin Symbol
    BY ConsoleAssumption DEF Symbol
  <2> QED
    BY <2>1, GridSizes
<1>10. \A j \in DOMAIN t : Row(t, j) \in Nat /\ Row(t, j) <= R
  <2> TAKE j \in DOMAIN t
  <2>1. j \in 1 .. n + 1 /\ j \in Nat /\ j >= 1 /\ n + 1 \in Nat /\ n + 1 >= 1
    BY <1>1
  <2> HIDE DEF n
  <2> QED
    BY <2>1, Rows
<1>11. SUFFICES /\ d.column = Column(u, n + 2)
                /\ d.row = Row(u, n + 2) - Scrolled(u)
                /\ \A xy \in Cell : LaidFrom(u, xy, Scrolled(u)) = shown(d, xy)
  <2>1. Len(u) + 1 = n + 2
    BY <1>1
  <2> HIDE DEF u, d
  <2> QED
    BY <1>4, <2>1 DEF TextOK, u, d
<1> HIDE DEF R, n, u
<1>12. CASE B /\ R + 1 < kRows
  <2>1. c.row + 1 < kRows
    BY <1>2, <1>3, <1>9, <1>12
  <2>2. d.row = c.row + 1 /\ d.column = 0 /\ d.buffer = c.buffer
    BY <1>5, <1>12, <2>1, NewlineMoves, PutCharCases
  <2> HIDE DEF d, B
  <2>3. Scrolled(u) = 0 /\ Scrolled(t) = 0 /\ Row(u, n + 2) = R + 1
    BY <1>3, <1>6, <1>7, <1>9, <1>12
  <2>4. d.row = Row(u, n + 2) - Scrolled(u)
    BY <1>2, <1>3, <2>2, <2>3
  <2>5. \A xy \in Cell : LaidFrom(u, xy, Scrolled(u)) = shown(d, xy)
    BY <1>2, <1>4, <1>8, <1>12, <2>2, <2>3 DEF Blank
  <2> QED
    BY <1>6, <1>12, <2>2, <2>4, <2>5
<1>13. CASE B /\ ~(R + 1 < kRows)
  <2>1. ~(c.row + 1 < kRows) /\ c.row = kRows - 1
    BY <1>2, <1>3, <1>9, <1>13
  <2>2. d.row = c.row /\ d.column = 0 /\ d.buffer = MovedUp(c.buffer)
    BY <1>5, <1>13, <2>1, NewlineScrolls, PutCharCases
  <2> HIDE DEF d, B
  <2>3. Row(u, n + 2) = R + 1
    BY <1>3, <1>6, <1>13
  <2>4. Scrolled(u) = Scrolled(t) + 1 /\ R - Scrolled(t) = kRows - 1
    BY <1>3, <1>7, <1>9, <1>13, <2>3
  <2>5. d.row = Row(u, n + 2) - Scrolled(u)
    BY <1>2, <1>3, <2>2, <2>3, <2>4
  <2>6. ASSUME NEW xy \in Cell PROVE LaidFrom(u, xy, Scrolled(u)) = shown(d, xy)
    <3>1. /\ xy[1] \in 0 .. kColumns - 1 /\ xy[2] \in 0 .. kRows - 1
          /\ LaidFrom(u, xy, Scrolled(u)) = LaidFrom(t, xy, Scrolled(t) + 1)
      BY <1>8, <1>13, <2>4, Cells
    <3>2. CASE xy[2] < kRows - 1
      <4> DEFINE z == <<xy[1], xy[2] + 1>>
      <4>1. z \in Cell /\ z[1] = xy[1] /\ z[2] = xy[2] + 1
        <5>1. xy[2] + 1 \in 0 .. kRows - 1
          BY <1>9, <3>1, <3>2
        <5> QED
          BY <3>1, <5>1, Cells
      <4> HIDE DEF z
      <4>2. \A j \in DOMAIN t :
              Row(t, j) - (Scrolled(t) + 1) = xy[2] <=> Row(t, j) - Scrolled(t) = z[2]
        <5> TAKE j \in DOMAIN t
        <5>1. Row(t, j) \in Nat /\ xy[2] \in Nat
          BY <1>10, <3>1
        <5>2. \A p, q, r \in Nat : p - (q + 1) = r <=> p - q = r + 1
          OBVIOUS
        <5>3. Scrolled(t) \in Nat
          BY <1>3
        <5> QED
          BY <4>1, <5>1, <5>2, <5>3
      <4>3. LaidFrom(t, xy, Scrolled(t) + 1) = LaidFrom(t, z, Scrolled(t))
        BY <4>1, <4>2 DEF LaidFrom
      <4>4. d.buffer[xy[2]][xy[1]] = c.buffer[z[2]][z[1]]
        BY <2>2, <3>1, <3>2, <4>1 DEF MovedUp
      <4> QED
        BY <1>2, <1>4, <3>1, <4>1, <4>3, <4>4 DEF Blank
    <3>3. CASE ~(xy[2] < kRows - 1)
      <4>1. xy[2] = kRows - 1
        BY <1>9, <3>1, <3>3
      <4>2. \A j \in DOMAIN t : Row(t, j) - (Scrolled(t) + 1) # xy[2]
        <5> TAKE j \in DOMAIN t
        <5>1. Row(t, j) \in Nat /\ Row(t, j) <= R
          BY <1>10
        <5> QED
          BY <1>3, <1>9, <2>4, <4>1, <5>1
      <4>3. LaidFrom(t, xy, Scrolled(t) + 1) = {}
        BY <4>2 DEF LaidFrom
      <4>4. Blank(d, xy)
        BY <2>2, <3>1, <3>3 DEF Blank, MovedUp
      <4> QED
        BY <3>1, <4>3, <4>4
    <3> QED
      BY <3>2, <3>3
  <2> QED
    BY <1>6, <1>13, <2>2, <2>5, <2>6
<1>14. CASE ~B
  <2>1. s \in Char /\ c.column < kColumns
    BY <1>5, <1>14, PutCharCases
  <2> DEFINE at == <<c.column, c.row>>
  <2>2. /\ d.row = c.row /\ d.column = c.column + 1 /\ at \in Cell
        /\ \A xy \in Cell : d.buffer[xy[2]][xy[1]] = IF xy = at THEN s ELSE c.buffer[xy[2]][xy[1]]
    BY <2>1, CharPut
  <2> HIDE DEF d, B
  <2>3. Row(u, n + 2) = R /\ Scrolled(u) = Scrolled(t)
    BY <1>3, <1>6, <1>7, <1>14
  <2>4. at[1] = c.column /\ at[2] = c.row /\ Blank(c, at) /\ s # NUL
    <3>1. c.column \in 0 .. kColumns /\ kColumns \in Nat
      BY GridSizes DEF Console
    <3>2. c.column >= c.column
      BY <3>1
    <3> QED
      BY <1>9, <2>2, <3>2 DEF BufferOK, Symbol
  <2>5. \A xy \in Cell : xy = at <=> c.column = xy[1] /\ R - Scrolled(t) = xy[2]
    BY <1>2, <2>2, <2>4, Cells
  <2> HIDE DEF at
  <2>6. ASSUME NEW xy \in Cell PROVE LaidFrom(u, xy, Scrolled(u)) = shown(d, xy)
    <3>1. LaidFrom(u, xy, Scrolled(u)) = IF xy = at THEN shown(c, xy) \cup {s} ELSE shown(c, xy)
      BY <1>2, <1>4, <1>8, <1>14, <2>3, <2>5
    <3> QED
      BY <2>2, <2>4, <3>1 DEF Blank
  <2> QED
    BY <1>2, <1>6, <1>14, <2>2, <2>3, <2>6
<1> QED
  BY <1>12, <1>13, <1>14

\* The loop of PutString.
Put(c, s) ==
  LET After[k \in 0 .. Len(s)] == IF k = 0 THEN c ELSE PutChar(After[k - 1], s[k])
  IN After[Len(s)]

\* The loop has a value after every character.
LEMMA PutLoops ==
  ASSUME NEW c, NEW s \in Seq(Symbol)
  PROVE  \E f : /\ f[0] = c /\ f[Len(s)] = Put(c, s)
                /\ \A k \in 1 .. Len(s) : f[k] = PutChar(f[k - 1], s[k])
<1> DEFINE n == Len(s)
           Eq(f, m) == f = [k \in 0 .. m |-> IF k = 0 THEN c ELSE PutChar(f[k - 1], s[k])]
           Missing == {m \in Nat : ~\E f : Eq(f, m)}
<1>1. Missing = {}
  <2> SUFFICES ASSUME Missing # {} PROVE FALSE
    OBVIOUS
  <2>1. PICK m \in Missing : \A k \in Missing : m <= k
    <3>1. Missing \in SUBSET Nat
      OBVIOUS
    <3> HIDE DEF Missing
    <3> QED
      BY <3>1, LeastNat
  <2>2. m # 0
    <3> DEFINE f == [k \in 0 .. 0 |-> c]
    <3>1. Eq(f, 0)
      OBVIOUS
    <3> QED
      BY <3>1
  <2>3. PICK f : Eq(f, m - 1)
    <3>1. m - 1 \in Nat /\ ~(m <= m - 1)
      BY <2>2
    <3> HIDE DEF Eq
    <3> QED
      BY <2>1, <3>1
  <2> DEFINE g == [k \in 0 .. m |-> IF k = m THEN PutChar(f[m - 1], s[m]) ELSE f[k]]
  <2>4. ASSUME NEW k \in 0 .. m
        PROVE  g[k] = IF k = 0 THEN c ELSE PutChar(g[k - 1], s[k])
    <3>1. CASE k = m
      BY <2>2, <3>1
    <3>2. CASE k # m
      <4>1. k \in 0 .. m - 1 /\ (k # 0 => k - 1 \in 0 .. m /\ k - 1 # m)
        BY <3>2
      <4>2. f[k] = IF k = 0 THEN c ELSE PutChar(f[k - 1], s[k])
        BY <2>3, <4>1
      <4> QED
        BY <3>2, <4>1, <4>2
    <3> QED
      BY <3>1, <3>2
  <2>5. Eq(g, m)
    <3> HIDE DEF g
    <3>1. g = [k \in 0 .. m |-> g[k]]
      BY DEF g
    <3> QED
      BY <2>4, <3>1
  <2> QED
    BY <2>5
<1> DEFINE h == CHOOSE f : Eq(f, n)
<1>2. n \in Nat
  OBVIOUS
<1>3. Eq(h, n)
  <2>1. \E f : Eq(f, n)
    BY <1>1, <1>2
  <2> HIDE DEF Eq
  <2> QED
    BY <2>1
<1>4. Put(c, s) = h[n]
  BY DEF Put
<1> HIDE DEF h, n
<1>5. h[0] = c
  BY <1>2, <1>3
<1>6. \A k \in 1 .. n : h[k] = PutChar(h[k - 1], s[k])
  BY <1>2, <1>3
<1> QED
  BY <1>4, <1>5, <1>6 DEF n

\* What holds after each character holds after the string.
LEMMA StringPut ==
  ASSUME NEW c \in Console, NEW t \in Seq(Symbol), NEW s \in Seq(Symbol), BufferOK(c), TextOK(c, t)
  PROVE  LET d == Put(c, s) IN
           /\ d \in Console /\ BufferOK(d) /\ TextOK(d, t \o s)
           /\ InkOK(c) => InkOK(d)
           /\ ColourOK(c) => ColourOK(d)
<1>1. PICK f : /\ f[0] = c /\ f[Len(s)] = Put(c, s)
               /\ \A k \in 1 .. Len(s) : f[k] = PutChar(f[k - 1], s[k])
  BY PutLoops
<1> DEFINE n == Len(t)
           m == Len(s)
           u(k) == [i \in 1 .. n + k |-> IF i <= n THEN t[i] ELSE s[i - n]]
<1>2. /\ n \in Nat /\ m \in Nat /\ DOMAIN t = 1 .. n
      /\ \A i \in 1 .. n : t[i] \in Symbol
      /\ \A i \in 1 .. m : s[i] \in Symbol
  <2>1. n \in Nat /\ DOMAIN t = 1 .. n /\ m \in Nat
    OBVIOUS
  <2>2. \A i \in 1 .. n : t[i] \in Symbol
    OBVIOUS
  <2>3. \A i \in 1 .. m : s[i] \in Symbol
    OBVIOUS
  <2> QED
    BY <2>1, <2>2, <2>3
<1>3. t \o s \in Seq(Symbol) /\ Len(t \o s) = n + m
      /\ \A i \in 1 .. n + m : (t \o s)[i] = IF i <= n THEN t[i] ELSE s[i - n]
  BY ConcatProperties
<1>4. t \in Seq(Symbol) /\ Len(t) = n
  OBVIOUS
<1>5. /\ f[0] = c /\ f[m] = Put(c, s)
      /\ \A k \in 1 .. m : f[k] = PutChar(f[k - 1], s[k])
  BY <1>1
<1> HIDE DEF n, m
<1>6. ASSUME NEW k \in 0 .. m
      PROVE  u(k) \in Seq(Symbol) /\ Len(u(k)) = n + k
  <2>1. n + k \in Nat
    BY <1>2
  <2>2. \A i \in 1 .. n + k : (IF i <= n THEN t[i] ELSE s[i - n]) \in Symbol
    <3> TAKE i \in 1 .. n + k
    <3>1. i <= n => i \in 1 .. n
      BY <1>2
    <3>2. ~(i <= n) => i - n \in 1 .. m
      BY <1>2
    <3> QED
      BY <1>2, <3>1, <3>2
  <2>3. u(k) \in [1 .. n + k -> Symbol]
    BY <2>2
  <2> HIDE DEF u
  <2> QED
    BY <2>1, <2>3
<1>7. u(m) = t \o s
  <2>1. u(m) \in Seq(Symbol) /\ Len(u(m)) = n + m
    BY <1>2, <1>6
  <2>2. \A i \in 1 .. n + m : u(m)[i] = (t \o s)[i]
    BY <1>3
  <2> HIDE DEF u
  <2> QED
    BY <1>3, <2>1, <2>2, SeqEqual
<1>8. u(0) = t
  <2>1. 0 \in 0 .. m /\ n + 0 = n /\ \A i \in 1 .. n : i <= n
    BY <1>2
  <2>2. u(0) \in Seq(Symbol) /\ Len(u(0)) = n
    BY <1>6, <2>1
  <2>3. \A i \in 1 .. n : u(0)[i] = t[i]
    BY <2>1
  <2> HIDE DEF u
  <2> QED
    BY <1>4, <2>2, <2>3, SeqEqual
<1>9. ASSUME NEW k \in 1 .. m
      PROVE  u(k) = Append(u(k - 1), s[k])
  <2>1. k - 1 \in 0 .. m /\ k \in 0 .. m
    BY <1>2
  <2>2. /\ u(k) \in Seq(Symbol) /\ Len(u(k)) = n + k
        /\ u(k - 1) \in Seq(Symbol) /\ Len(u(k - 1)) = n + (k - 1)
    BY <1>6, <2>1
  <2>3. s[k] \in Symbol
    BY <1>2
  <2> DEFINE v == Append(u(k - 1), s[k])
  <2>4. /\ v \in Seq(Symbol) /\ Len(v) = n + (k - 1) + 1 /\ v[n + (k - 1) + 1] = s[k]
        /\ \A i \in 1 .. n + (k - 1) : v[i] = u(k - 1)[i]
    <3> HIDE DEF u
    <3> QED
      BY <2>2, <2>3, AppendProperties
  <2> HIDE DEF v
  <2>5. n + (k - 1) + 1 = n + k
    BY <1>2
  <2>6. \A i \in 1 .. n + k : v[i] = u(k)[i]
    <3> TAKE i \in 1 .. n + k
    <3>1. CASE i = n + k
      <4>1. ~(i <= n) /\ i - n = k
        BY <1>2, <3>1
      <4> QED
        BY <2>4, <2>5, <3>1, <4>1
    <3>2. CASE i # n + k
      <4>1. i \in 1 .. n + (k - 1)
        BY <1>2, <3>2
      <4> QED
        BY <2>4, <4>1
    <3> QED
      BY <3>1, <3>2
  <2> HIDE DEF u
  <2> QED
    BY <2>2, <2>4, <2>5, <2>6, SeqEqual DEF v
<1> HIDE DEF u
<1> DEFINE Good(k) == /\ f[k] \in Console /\ BufferOK(f[k]) /\ TextOK(f[k], u(k))
                      /\ InkOK(c) => InkOK(f[k])
                      /\ ColourOK(c) => ColourOK(f[k])
           Bad == {k \in 0 .. m : ~Good(k)}
<1>10. ASSUME NEW k \in 1 .. m, Good(k - 1) PROVE Good(k)
  <2>1. f[k] = PutChar(f[k - 1], s[k]) /\ s[k] \in Symbol
    BY <1>5, <1>2
  <2>2. u(k - 1) \in Seq(Symbol) /\ u(k) = Append(u(k - 1), s[k])
    <3>1. k - 1 \in 0 .. m
      BY <1>2
    <3> QED
      BY <1>6, <1>9, <3>1
  <2> DEFINE e == f[k - 1]
  <2>3. e \in Console /\ BufferOK(e) /\ TextOK(e, u(k - 1))
    BY <1>10
  <2> HIDE DEF e
  <2>4. PutChar(e, s[k]) \in Console /\ BufferOK(PutChar(e, s[k]))
    BY <2>1, <2>3, BufferKept
  <2>5. TextOK(PutChar(e, s[k]), u(k))
    BY <2>1, <2>2, <2>3, TextKept
  <2>6. InkOK(e) => InkOK(PutChar(e, s[k]))
    BY <2>1, <2>3, InkKept
  <2>7. ColourOK(e) => ColourOK(PutChar(e, s[k]))
    BY <2>1, <2>3, ColourKept
  <2> QED
    BY <1>10, <2>1, <2>4, <2>5, <2>6, <2>7 DEF e
<1>11. Bad = {}
  <2> SUFFICES ASSUME Bad # {} PROVE FALSE
    OBVIOUS
  <2>1. PICK k \in Bad : \A j \in Bad : k <= j
    <3>1. Bad \in SUBSET Nat
      BY <1>2
    <3> HIDE DEF Bad
    <3> QED
      BY <3>1, LeastNat
  <2>2. Good(0)
    BY <1>5, <1>8
  <2> HIDE DEF Good
  <2>3. k \in 1 .. m /\ k - 1 \in 0 .. m /\ ~(k <= k - 1)
    <3>1. k \in 0 .. m /\ k # 0
      BY <2>2
    <3> QED
      BY <1>2, <3>1
  <2>4. Good(k - 1)
    BY <2>1, <2>3
  <2> QED
    BY <1>10, <2>3, <2>4
<1>12. Good(m)
  BY <1>2, <1>11
<1> QED
  BY <1>5, <1>7, <1>12

-----------------------------------------------------------------------------
(* The frame buffer.                                                       *)

\* A line of the frame buffer is not shorter than the screen is wide.
LEMMA PlacesApart ==
  ASSUME NEW xy \in Place, NEW z \in Place, PixelAt(xy[1], xy[2]) = PixelAt(z[1], z[2])
  PROVE  xy = z
<1>1. /\ Stride \in Nat /\ Width \in Nat /\ Stride >= Width
      /\ xy[1] \in 0 .. Width - 1 /\ z[1] \in 0 .. Width - 1
      /\ xy[2] \in Nat /\ z[2] \in Nat
      /\ xy = <<xy[1], xy[2]>> /\ z = <<z[1], z[2]>>
  <2>1. Height \in Nat /\ \A j \in 0 .. Height - 1 : j \in Nat
    BY GridSizes
  <2> QED
    BY <2>1, GridSizes DEF Place
<1>2. xy[1] \in 0 .. Stride - 1 /\ z[1] \in 0 .. Stride - 1
  BY <1>1
<1>3. Stride * xy[2] + xy[1] = Stride * z[2] + z[1]
  BY DEF PixelAt
<1>4. xy[1] = z[1] /\ xy[2] = z[2]
  BY <1>1, <1>2, <1>3, OneRemainder
<1> QED
  BY <1>1, <1>4

\* What is written to the screen is what is read from it.
LEMMA OnScreen ==
  ASSUME NEW f, f \in [Place -> Pixel]
  PROVE  /\ WriteScreen(f) \in [Address -> Pixel]
         /\ \A xy \in Place : WriteScreen(f)[PixelAt(xy[1], xy[2])] = f[xy]
<1>1. ASSUME NEW xy \in Place
      PROVE  /\ PixelAt(xy[1], xy[2]) \in Address
             /\ WriteScreen(f)[PixelAt(xy[1], xy[2])] = f[xy]
  <2> DEFINE a == PixelAt(xy[1], xy[2])
             at(b) == CHOOSE z \in DOMAIN f : PixelAt(z[1], z[2]) = b
  <2>1. a \in Address /\ DOMAIN f = Place
    BY DEF Address
  <2>2. WriteScreen(f)[a] = IF \E z \in DOMAIN f : PixelAt(z[1], z[2]) = a
                              THEN f[at(a)] ELSE screen[a]
    BY <2>1 DEF WriteScreen
  <2>3. \E z \in DOMAIN f : PixelAt(z[1], z[2]) = a
    BY <2>1
  <2>4. at(a) \in DOMAIN f /\ PixelAt(at(a)[1], at(a)[2]) = a
    BY <2>3
  <2> HIDE DEF at
  <2>5. at(a) = xy
    BY <2>1, <2>4, PlacesApart
  <2> QED
    BY <2>1, <2>2, <2>3, <2>5
<1>2. \A a \in Address : WriteScreen(f)[a] \in Pixel
  <2>1. \A a \in Address : \E xy \in Place : a = PixelAt(xy[1], xy[2])
    BY DEF Address
  <2> QED
    BY <1>1, <2>1
<1>3. WriteScreen(f) = [a \in Address |-> WriteScreen(f)[a]]
  BY DEF WriteScreen
<1> QED
  BY <1>1, <1>2, <1>3

-----------------------------------------------------------------------------
(* Drawing.                                                                *)

\* The last layer that writes to an address leaves its pixel there.
LEMMA LastLayerShows ==
  ASSUME Draw, Len(layer_stack') \in Nat, NEW a \in Address
  PROVE  LET W == {k \in 1 .. Len(layer_stack') : Written(layer_stack'[k], a) # {}} IN
           /\ W = {} => screen'[a] = screen[a]
           /\ W # {} => \E m \in W :
                /\ \A j \in W : j <= m
                /\ screen'[a] =
                     Content(layer_stack'[m])[CHOOSE xy \in Written(layer_stack'[m], a) : TRUE]
<1> DEFINE n == Len(layer_stack')
           val(k) == Content(layer_stack'[k])[CHOOSE xy \in Written(layer_stack'[k], a) : TRUE]
           W == {k \in 1 .. n : Written(layer_stack'[k], a) # {}}
           Eq(f) == f = [k \in 0 .. n |-> IF k = 0 THEN screen[a]
                                          ELSE IF Written(layer_stack'[k], a) = {} THEN f[k - 1]
                                          ELSE val(k)]
           w == [k \in 1 .. n |-> val(k)]
           Loop(f) == Turns(n, W, screen[a], w, f)
           h == CHOOSE f : Eq(f)
<1>1. screen'[a] = h[n]
  BY DEF Draw
<1> HIDE DEF val
<1>2. \A k \in 0 .. n : k # 0 => /\ k \notin W <=> Written(layer_stack'[k], a) = {}
                                 /\ w[k] = val(k)
  <2> TAKE k \in 0 .. n
  <2>1. k # 0 => k \in 1 .. n
    OBVIOUS
  <2> QED
    BY <2>1
<1>3. W \in SUBSET (1 .. n) /\ n \in Nat
  OBVIOUS
<1> HIDE DEF W, w, n
<1>4. \A f : Eq(f) <=> Loop(f)
  <2> TAKE f
  <2> DEFINE e == [k \in 0 .. n |-> IF k = 0 THEN screen[a]
                                    ELSE IF Written(layer_stack'[k], a) = {} THEN f[k - 1]
                                    ELSE val(k)]
             l == [k \in 0 .. n |-> IF k = 0 THEN screen[a]
                                    ELSE IF k \notin W THEN f[k - 1] ELSE w[k]]
  <2>1. e = l
    BY <1>2
  <2>2. Loop(f) <=> f = l
    BY DEF Turns
  <2>3. Eq(f) <=> f = e
    OBVIOUS
  <2> HIDE DEF e, l, Eq, Loop
  <2> QED
    BY <2>1, <2>2, <2>3
<1>5. \E f : Loop(f)
  <2>1. \A v, u : \E f : Turns(n, W, v, u, f)
    BY <1>3, LastOfThem
  <2>2. \E f : Turns(n, W, screen[a], w, f)
    BY <2>1
  <2> QED
    BY <2>2
<1>6. Loop(h)
  <2>1. \E f : Eq(f)
    BY <1>4, <1>5
  <2> HIDE DEF Eq, Loop
  <2>2. Eq(h)
    BY <2>1
  <2> QED
    BY <1>4, <2>2
<1> HIDE DEF h
<1>7. Turns(n, W, screen[a], w, h)
  BY <1>6
<1> HIDE DEF Loop, Eq
<1>8. /\ W = {} => h[n] = screen[a]
      /\ W # {} => \E m \in W : (\A j \in W : j <= m) /\ h[n] = w[m]
  <2>1. \A v, u, f : Turns(n, W, v, u, f) =>
          /\ W = {} => f[n] = v
          /\ W # {} => \E m \in W : (\A j \in W : j <= m) /\ f[n] = u[m]
    BY <1>3, LastOfThem
  <2> QED
    BY <1>7, <2>1
<1>9. \A m \in W : w[m] = val(m)
  BY <1>3 DEF w
<1>10. /\ W = {} => screen'[a] = screen[a]
       /\ W # {} => \E m \in W : (\A j \in W : j <= m) /\ screen'[a] = val(m)
  BY <1>1, <1>8, <1>9
<1> QED
  BY <1>10 DEF W, val, n

LEMMA ContentTyped ==
  ASSUME bgwindow' \in [Place -> Pixel], NEW l
  PROVE  \A z \in DOMAIN Content(l) : Content(l)[z] \in Pixel
<1>1. CASE l = Background
  BY <1>1 DEF Content
<1>2. CASE l # Background /\ l = Mouse
  <2>1. Content(l) = [z \in DOMAIN Pointer |-> Plain(Pointer[z])]
    BY <1>2 DEF Content
  <2>2. \A z \in DOMAIN Pointer : Pointer[z] \in {"black", "white", "transparent"}
    BY LayersAssumption
  <2>3. \A z \in DOMAIN Pointer : Plain(Pointer[z]) \in Pixel
    BY <2>2 DEF Plain, Pixel, Colour
  <2> QED
    BY <2>1, <2>3
<1>3. CASE l # Background /\ l # Mouse
  <2>1. Content(l) = <<>>
    BY <1>3 DEF Content
  <2>2. DOMAIN Content(l) = {}
    BY <2>1
  <2> QED
    BY <2>2
<1> QED
  BY <1>1, <1>2, <1>3

\* Draw leaves pixels.
LEMMA DrawnTyped ==
  ASSUME Draw, Len(layer_stack') \in Nat, bgwindow' \in [Place -> Pixel], screen \in [Address -> Pixel]
  PROVE  screen' \in [Address -> Pixel]
<1>1. ASSUME NEW a \in Address PROVE screen'[a] \in Pixel
  <2> DEFINE W == {k \in 1 .. Len(layer_stack') : Written(layer_stack'[k], a) # {}}
             first(l) == CHOOSE xy \in Written(l, a) : TRUE
  <2>1. /\ W = {} => screen'[a] = screen[a]
        /\ W # {} => \E m \in W : screen'[a] = Content(layer_stack'[m])[first(layer_stack'[m])]
    BY LastLayerShows
  <2>2. \A m \in W : first(layer_stack'[m]) \in DOMAIN Content(layer_stack'[m])
    <3> TAKE m \in W
    <3>1. Written(layer_stack'[m], a) # {}
      OBVIOUS
    <3>2. first(layer_stack'[m]) \in Written(layer_stack'[m], a)
      BY <3>1
    <3>3. Written(layer_stack'[m], a) \subseteq DOMAIN Content(layer_stack'[m])
      BY DEF Written
    <3> QED
      BY <3>2, <3>3
  <2> HIDE DEF W, first
  <2> QED
    BY <2>1, <2>2, ContentTyped
<1>2. screen' = [a \in Address |-> screen'[a]]
  <2> DEFINE g(a) == LET After[k \in 0 .. Len(layer_stack')] ==
                           IF k = 0 THEN screen[a]
                           ELSE IF Written(layer_stack'[k], a) = {} THEN After[k - 1]
                           ELSE Content(layer_stack'[k])[CHOOSE xy \in Written(layer_stack'[k], a) : TRUE]
                     IN After[Len(layer_stack')]
  <2>1. screen' = [a \in Address |-> g(a)]
    BY DEF Draw
  <2> HIDE DEF g
  <2> QED
    BY <2>1
<1> QED
  BY <1>1, <1>2

\* Shows and Uppermost, of positions p, a stack and a background's window w.
ShownFrom(p, l, xy) ==
  {k \in (IF l = Background THEN Place ELSE IF l = Mouse THEN DOMAIN Pointer ELSE {}) :
     /\ p[l][1] + k[1] = xy[1] /\ p[l][2] + k[2] = xy[2]
     /\ l = Mouse => Pointer[k] # "transparent"}

SeenAt(p, stack, w, xy) ==
  LET over == {k \in DOMAIN stack : ShownFrom(p, stack[k], xy) # {}}
      l    == stack[CHOOSE k \in over : \A j \in over : j <= k]
      at   == CHOOSE k \in ShownFrom(p, l, xy) : TRUE
  IN IF l = Mouse THEN Plain(Pointer[at]) ELSE w[at]

LEMMA SeenNext ==
  ASSUME NEW xy
  PROVE  Uppermost(xy)' = SeenAt(pos', layer_stack', bgwindow', xy)
BY DEF Uppermost, SeenAt, Shows, ShownFrom, Background, Mouse, Place, Plain

\* Where every window lies on the screen, an address is a place, and a layer
\* writes to it what it should show there.
LEMMA WritesWhatItShows ==
  ASSUME InFrame', NEW xy \in Place, NEW l, InStack(layer_stack', l),
         \A z \in Place : bgwindow'[z].colour # "transparent",
         bgwindow' \in [Place -> Pixel],
         pos' \in [{Background, Mouse} -> Int \X Int]
  PROVE  Written(l, PixelAt(xy[1], xy[2])) = ShownFrom(pos', l, xy)
<1>1. xy[1] \in Int /\ xy[2] \in Int /\ xy = <<xy[1], xy[2]>>
  BY DEF Place
<1>2. Background = 1 /\ Mouse = 2
  BY DEF Background, Mouse
<1>3. CASE l = Background
  <2>1. Content(l) = bgwindow' /\ DOMAIN bgwindow' = Place
    BY <1>3 DEF Content
  <2>2. pos'[l][1] = 0 /\ pos'[l][2] = 0
    BY <1>3 DEF InFrame
  <2>3. \A z \in Place : z[1] \in Int /\ z[2] \in Int /\ z = <<z[1], z[2]>>
                         /\ 0 + z[1] = z[1] /\ 0 + z[2] = z[2]
    BY DEF Place
  <2>4. \A z \in Place : PixelAt(z[1], z[2]) = PixelAt(xy[1], xy[2]) <=> z[1] = xy[1] /\ z[2] = xy[2]
    BY <1>1, <2>3, PlacesApart
  <2>5. Written(l, PixelAt(xy[1], xy[2])) = {z \in Place : z[1] = xy[1] /\ z[2] = xy[2]}
    BY <2>1, <2>2, <2>3, <2>4 DEF Written
  <2>6. ShownFrom(pos', l, xy) = {z \in Place : z[1] = xy[1] /\ z[2] = xy[2]}
    BY <1>2, <1>3, <2>2, <2>3 DEF ShownFrom
  <2> QED
    BY <2>5, <2>6
<1>4. CASE l = Mouse
  <2> DEFINE at(z) == <<pos'[l][1] + z[1], pos'[l][2] + z[2]>>
  <2>1. \A z \in DOMAIN Pointer : at(z) \in Place
    BY <1>4 DEF InFrame
  <2>2. Content(l) = [z \in DOMAIN Pointer |-> Plain(Pointer[z])]
    BY <1>2, <1>4 DEF Content
  <2>3. \A z \in DOMAIN Pointer : PixelAt(at(z)[1], at(z)[2]) = PixelAt(xy[1], xy[2]) <=> at(z) = xy
    BY <2>1, PlacesApart
  <2>4. \A z : at(z) = xy <=> pos'[l][1] + z[1] = xy[1] /\ pos'[l][2] + z[2] = xy[2]
    BY <1>1
  <2>5. Written(l, PixelAt(xy[1], xy[2])) =
          {z \in DOMAIN Pointer : at(z) = xy /\ Pointer[z] # "transparent"}
    <3>1. DOMAIN Content(l) = DOMAIN Pointer /\ \A z \in DOMAIN Pointer : Content(l)[z].colour = Pointer[z]
      BY <2>2 DEF Plain
    <3>2. \A z : PixelAt(at(z)[1], at(z)[2]) = PixelAt(pos'[l][1] + z[1], pos'[l][2] + z[2])
      OBVIOUS
    <3> HIDE DEF at
    <3> QED
      BY <2>3, <3>1, <3>2 DEF Written
  <2>6. ShownFrom(pos', l, xy) = {z \in DOMAIN Pointer : at(z) = xy /\ Pointer[z] # "transparent"}
    BY <1>2, <1>4, <2>4 DEF ShownFrom
  <2> QED
    BY <2>5, <2>6
<1>5. CASE l # Background /\ l # Mouse
  <2>1. Content(l) = <<>>
    BY <1>5 DEF Content
  <2>2. DOMAIN Content(l) = {}
    BY <2>1
  <2>3. Written(l, PixelAt(xy[1], xy[2])) = {}
    BY <2>2 DEF Written
  <2>4. ShownFrom(pos', l, xy) = {}
    BY <1>5 DEF ShownFrom
  <2> QED
    BY <2>3, <2>4
<1> QED
  BY <1>3, <1>4, <1>5

\* So the last layer that writes is the uppermost one there.
LEMMA DrawnRight ==
  ASSUME Draw, NEW S, layer_stack' \in Seq(S),
         \A z \in Place : bgwindow'[z].colour # "transparent",
         bgwindow' \in [Place -> Pixel],
         pos' \in [{Background, Mouse} -> Int \X Int]
  PROVE  Composed'
<1> SUFFICES ASSUME InFrame', NEW xy \in Place
             PROVE  screen'[PixelAt(xy[1], xy[2])] = Uppermost(xy)'
  BY DEF Composed
<1> DEFINE a == PixelAt(xy[1], xy[2])
           n == Len(layer_stack')
           W == {k \in 1 .. n : Written(layer_stack'[k], a) # {}}
           over == {k \in DOMAIN layer_stack' : ShownFrom(pos', layer_stack'[k], xy) # {}}
           top == CHOOSE k \in over : \A j \in over : j <= k
           l == layer_stack'[top]
           at == CHOOSE k \in ShownFrom(pos', l, xy) : TRUE
<1>1. n \in Nat /\ DOMAIN layer_stack' = 1 .. n /\ a \in Address
  BY DEF Address
<1>2. \A k \in 1 .. n : Written(layer_stack'[k], a) = ShownFrom(pos', layer_stack'[k], xy)
  <2> TAKE k \in 1 .. n
  <2>1. InStack(layer_stack', layer_stack'[k])
    BY <1>1 DEF InStack
  <2> QED
    BY <2>1, WritesWhatItShows
<1>3. W = over
  BY <1>1, <1>2
<1>4. W # {}
  <2>1. PICK k \in 1 .. n : layer_stack'[k] = Background
    BY <1>1 DEF InFrame, InStack
  <2>2. xy \in ShownFrom(pos', Background, xy)
    <3>1. pos'[Background][1] = 0 /\ pos'[Background][2] = 0
      BY DEF InFrame
    <3>2. xy[1] \in Int /\ xy[2] \in Int
      BY DEF Place
    <3> QED
      BY <3>1, <3>2 DEF ShownFrom, Background, Mouse
  <2> QED
    BY <1>2, <2>1, <2>2
<1>5. PICK m \in W : /\ \A j \in W : j <= m
                     /\ screen'[a] = Content(layer_stack'[m])[CHOOSE z \in Written(layer_stack'[m], a) : TRUE]
  BY <1>1, <1>4, LastLayerShows
<1>6. top = m
  <2>1. \A k \in over : k \in Nat
    BY <1>1
  <2>2. m \in over /\ \A j \in over : j <= m
    BY <1>3, <1>5
  <2> HIDE DEF over
  <2>3. top \in over /\ \A j \in over : j <= top
    BY <2>2
  <2> HIDE DEF top
  <2> QED
    BY <2>1, <2>2, <2>3
<1>7. m \in 1 .. n
  OBVIOUS
<1>8. Uppermost(xy)' = IF l = Mouse THEN Plain(Pointer[at]) ELSE bgwindow'[at]
  BY SeenNext DEF SeenAt
<1> HIDE DEF W, over, top, a, n
<1>9. Written(l, a) = ShownFrom(pos', l, xy) /\ Written(l, a) # {}
  <2>1. Written(layer_stack'[m], a) # {}
    BY <1>5 DEF W
  <2> QED
    BY <1>2, <1>6, <1>7, <2>1
<1>10. screen'[a] = Content(l)[at]
  BY <1>5, <1>6, <1>9
<1>11. at \in DOMAIN Content(l)
  <2>1. at \in Written(l, a)
    BY <1>9
  <2> HIDE DEF at, l
  <2> QED
    BY <2>1 DEF Written
<1> HIDE DEF at, l
<1>12. CASE l = Mouse
  <2>1. Content(l) = [z \in DOMAIN Pointer |-> Plain(Pointer[z])]
    BY <1>12 DEF Content, Background, Mouse
  <2> QED
    BY <1>8, <1>10, <1>11, <1>12, <2>1 DEF a
<1>13. CASE l # Mouse
  <2>1. l = Background
    <3> SUFFICES ASSUME l # Background PROVE FALSE
      OBVIOUS
    <3>1. Content(l) = <<>>
      BY <1>13 DEF Content
    <3>2. DOMAIN Content(l) = {}
      BY <3>1
    <3> QED
      BY <1>11, <3>2
  <2>2. Content(l) = bgwindow'
    BY <2>1 DEF Content
  <2> QED
    BY <1>8, <1>10, <1>13, <2>2 DEF a
<1> QED
  BY <1>12, <1>13

-----------------------------------------------------------------------------
(* The invariant.                                                          *)

Grid == [pixels |-> Target, buffer |-> buffer, row |-> cursor_row, column |-> cursor_column]

TextInv == text \in Seq(Symbol) /\ BufferOK(Grid) /\ TextOK(Grid, text)

InkInv == phase # "wiped" => InkOK(Grid)

PhaseInv ==
  /\ writer = "window" <=> phase \in {"windows", "running"}
  /\ phase # "running" => layer_stack = <<>>
  /\ writer = "window" => ColourOK(Grid)

DesktopInv == TypeOK /\ TextInv /\ InkInv /\ PhaseInv /\ IsInjective(layer_stack)

LEMMA GridTyped ==
  ASSUME TypeOK
  PROVE  /\ Target \in [Place -> Pixel] /\ Grid \in Console
         /\ Grid.pixels = Target /\ Grid.buffer = buffer
         /\ Grid.row = cursor_row /\ Grid.column = cursor_column
<1>1. \A xy \in Place : PixelAt(xy[1], xy[2]) \in Address
  BY DEF Address
<1>2. Target \in [Place -> Pixel]
  BY <1>1 DEF Target, TypeOK, LayersTypeOK
<1> QED
  BY <1>2 DEF Grid, Console, TypeOK, ConsoleTypeOK

\* What the cursor, the buffer and the text have to do with each other does
\* not depend on the pixels.
LEMMA TextUnchanged ==
  ASSUME TextInv, buffer' = buffer, cursor_row' = cursor_row, cursor_column' = cursor_column,
         text' = text
  PROVE  TextInv'
<1>1. /\ Grid'.buffer = Grid.buffer /\ Grid'.row = Grid.row /\ Grid'.column = Grid.column
  BY DEF Grid
<1>2. \A xy : Blank(Grid', xy) <=> Blank(Grid, xy)
  BY <1>1 DEF Blank
<1>3. BufferOK(Grid')
  BY <1>1, <1>2 DEF TextInv, BufferOK
<1>4. TextOK(Grid', text)
  BY <1>1, <1>2 DEF TextInv, TextOK
<1> QED
  BY <1>3, <1>4 DEF TextInv

\* The console is empty and the screen is what the firmware left.
LEMMA DesktopInit == Init => DesktopInv
<1> SUFFICES ASSUME Init PROVE DesktopInv
  OBVIOUS
<1>1. /\ latest_id = 0 /\ pos = [l \in {Background, Mouse} |-> <<0, 0>>]
      /\ layer_stack = <<>> /\ bgwindow = [xy \in Place |-> Plain("black")]
      /\ screen = [a \in Address |-> Plain("unknown")]
      /\ writer = "screen"
      /\ buffer = [row \in 0 .. kRows - 1 |-> [column \in 0 .. kColumns - 1 |-> NUL]]
      /\ cursor_row = 0 /\ cursor_column = 0 /\ text = <<>>
      /\ phase = "direct" /\ calls = 0
  BY DEF Init, LayersInit, ConsoleInit
<1>2. Plain("black") \in Pixel /\ Plain("unknown") \in Pixel /\ Plain("unknown").ink = {}
  BY DEF Plain, Pixel, Colour
<1>3. TypeOK
  <2>1. LayersTypeOK
    <3>1. 0 \in 0 .. MaxLayers
      BY LayersAssumption
    <3>2. pos \in [{Background, Mouse} -> Int \X Int]
      BY <1>1
    <3> QED
      BY <1>1, <1>2, <3>1, <3>2 DEF LayersTypeOK
  <2>2. ConsoleTypeOK
    BY <1>1, GridSizes DEF ConsoleTypeOK
  <2>3. calls \in 0 .. MaxCalls
    BY <1>1, DesktopAssumption
  <2> QED
    BY <1>1, <2>1, <2>2, <2>3 DEF TypeOK
<1>4. /\ Grid.pixels = Target /\ Grid.buffer = buffer /\ Grid.row = 0 /\ Grid.column = 0
  BY <1>1, <1>3, GridTyped
<1>5. \A xy \in Cell : Blank(Grid, xy)
  BY <1>1, <1>4, Cells DEF Blank
<1>6. BufferOK(Grid)
  <2>1. \A xy \in Cell : xy[1] >= 0
    BY Cells, GridSizes
  <2> QED
    BY <1>4, <1>5, <2>1 DEF BufferOK
<1>7. TextOK(Grid, text)
  <2>1. Len(text) = 0 /\ Len(text) + 1 = 1 /\ DOMAIN text = {}
    BY <1>1
  <2>2. Column(text, 1) = 0 /\ Row(text, 1) = 0
    BY Columns, Rows
  <2>3. 0 < kRows
    BY GridSizes
  <2>4. Scrolled(text) = 0
    BY <2>1, <2>2, <2>3 DEF Scrolled
  <2>5. \A xy : Laid(text, xy) = {}
    BY <2>1 DEF Laid
  <2> QED
    BY <1>4, <1>5, <2>1, <2>2, <2>4, <2>5 DEF TextOK
<1>8. InkOK(Grid)
  <2>1. \A xy \in Place : Target[xy] = Plain("unknown")
    BY <1>1 DEF Target, Address
  <2> QED
    BY <1>2, <1>4, <1>5, <2>1 DEF InkOK
<1>9. IsInjective(layer_stack)
  BY <1>1 DEF IsInjective
<1> QED
  BY <1>1, <1>3, <1>6, <1>7, <1>8, <1>9 DEF DesktopInv, TextInv, InkInv, PhaseInv

-----------------------------------------------------------------------------
(* The actions.                                                            *)

LEMMA DrawScreenKeeps ==
  ASSUME DesktopInv, DrawScreen
  PROVE  DesktopInv'
<1>1. /\ phase = "direct" /\ phase' = "wiped" /\ screen' = WriteScreen(DrawDesktop)
      /\ UNCHANGED <<latest_id, pos, layer_stack, bgwindow, writer, buffer, cursor_row,
                     cursor_column, text, calls>>
  BY DEF DrawScreen, layers, console
<1>2. DrawDesktop \in [Place -> Pixel]
  BY DEF DrawDesktop, DesktopColour, Plain, Pixel, Colour
<1>3. screen' \in [Address -> Pixel]
  BY <1>1, <1>2, OnScreen
<1>4. TypeOK'
  <2>1. Place' = Place /\ Address' = Address
    BY DEF Place, Address, PixelAt
  <2> QED
    BY <1>1, <1>3 DEF DesktopInv, TypeOK, LayersTypeOK, ConsoleTypeOK, Place, Address, Pixel
<1>5. TextInv'
  BY <1>1, TextUnchanged DEF DesktopInv
<1> QED
  BY <1>1, <1>4, <1>5 DEF DesktopInv, InkInv, PhaseInv

LEMMA SetUpWindowsKeeps ==
  ASSUME DesktopInv, SetUpWindows
  PROVE  DesktopInv'
<1>1. /\ phase = "wiped" /\ phase' = "windows" /\ writer' = "window"
      /\ bgwindow' = Refresh(DrawDesktop)
      /\ UNCHANGED <<latest_id, pos, layer_stack, screen, buffer, cursor_row,
                     cursor_column, text, calls>>
  BY DEF SetUpWindows, layers
<1>2. /\ buffer \in [0 .. kRows - 1 -> [0 .. kColumns - 1 -> Char \cup {NUL}]]
      /\ Grid.buffer = buffer /\ BufferOK(Grid)
  BY GridTyped DEF DesktopInv, TypeOK, ConsoleTypeOK, TextInv
<1>3. ASSUME NEW xy \in Place
      PROVE  bgwindow'[xy] =
               [colour |-> DesktopColour(xy),
                ink |-> IF xy \in Cell /\ ~Blank(Grid, xy) THEN {buffer[xy[2]][xy[1]]} ELSE {}]
  <2> DEFINE e == buffer[xy[2]][xy[1]]
  <2>1. bgwindow'[xy] =
          IF xy \in Cell /\ xy[2] \in 0 .. kRows - 1 /\ \A i \in 0 .. xy[1] : buffer[xy[2]][i] # NUL
            THEN WriteAscii(DrawDesktop, xy, e)[xy] ELSE DrawDesktop[xy]
    BY <1>1 DEF Refresh, WriteRows
  <2>2. DrawDesktop[xy] = [colour |-> DesktopColour(xy), ink |-> {}] /\ xy \in DOMAIN DrawDesktop
    BY DEF DrawDesktop, Plain
  <2>3. WriteAscii(DrawDesktop, xy, e)[xy] = [colour |-> DesktopColour(xy), ink |-> {e}]
    <3> HIDE DEF e
    <3> QED
      BY <2>2 DEF WriteAscii
  <2>4. CASE xy \in Cell
    <3>1. xy[1] \in 0 .. kColumns - 1 /\ xy[2] \in 0 .. kRows - 1
      BY <2>4, Cells
    <3>2. xy[1] \in 0 .. xy[1]
      BY <3>1, GridSizes
    <3>3. (\A i \in 0 .. xy[1] : buffer[xy[2]][i] # NUL) <=> ~Blank(Grid, xy)
      <4>1. ~Blank(Grid, xy) => \A i \in 0 .. xy[1] : buffer[xy[2]][i] # NUL
        BY <1>2, <2>4 DEF BufferOK, Blank
      <4>2. Blank(Grid, xy) => ~ \A i \in 0 .. xy[1] : buffer[xy[2]][i] # NUL
        BY <1>2, <3>2 DEF Blank
      <4> QED
        BY <4>1, <4>2
    <3> QED
      BY <2>1, <2>2, <2>3, <2>4, <3>1, <3>3
  <2>5. CASE xy \notin Cell
    BY <2>1, <2>2, <2>5
  <2> QED
    BY <2>4, <2>5
<1>4. bgwindow' \in [Place -> Pixel]
  <2>1. bgwindow' = [xy \in Place |-> bgwindow'[xy]]
    BY <1>1 DEF Refresh, WriteRows
  <2>2. ASSUME NEW xy \in Place PROVE bgwindow'[xy] \in Pixel
    <3>1. DesktopColour(xy) \in Colour
      BY DEF DesktopColour, Colour
    <3>2. (IF xy \in Cell /\ ~Blank(Grid, xy) THEN {buffer[xy[2]][xy[1]]} ELSE {}) \in SUBSET Char
      <4>1. CASE xy \in Cell /\ ~Blank(Grid, xy)
        <5>1. xy[1] \in 0 .. kColumns - 1 /\ xy[2] \in 0 .. kRows - 1
          BY <4>1, Cells
        <5>2. buffer[xy[2]][xy[1]] \in Char \cup {NUL}
          BY <1>2, <5>1
        <5>3. buffer[xy[2]][xy[1]] # NUL
          BY <1>2, <4>1 DEF Blank
        <5> QED
          BY <4>1, <5>2, <5>3
      <4>2. CASE ~(xy \in Cell /\ ~Blank(Grid, xy))
        BY <4>2
      <4> QED
        BY <4>1, <4>2
    <3> DEFINE e == IF xy \in Cell /\ ~Blank(Grid, xy) THEN {buffer[xy[2]][xy[1]]} ELSE {}
    <3>3. bgwindow'[xy] = [colour |-> DesktopColour(xy), ink |-> e]
      BY <1>3
    <3> HIDE DEF e
    <3> QED
      BY <3>1, <3>2, <3>3 DEF Pixel, e
  <2> QED
    BY <2>1, <2>2
<1>5. TypeOK'
  BY <1>1, <1>4 DEF DesktopInv, TypeOK, LayersTypeOK, ConsoleTypeOK, Place, Address, Pixel
<1>6. TextInv'
  BY <1>1, TextUnchanged DEF DesktopInv
<1>7. Grid'.pixels = bgwindow' /\ Grid'.buffer = buffer
  BY <1>1 DEF Grid, Target
<1>8. \A xy : Blank(Grid', xy) <=> Blank(Grid, xy)
  BY <1>2, <1>7 DEF Blank
<1>9. ASSUME NEW xy \in Place
       PROVE  /\ bgwindow'[xy].colour = DesktopColour(xy)
              /\ bgwindow'[xy].ink =
                   IF xy \in Cell /\ ~Blank(Grid, xy) THEN {buffer[xy[2]][xy[1]]} ELSE {}
  <2> DEFINE e == IF xy \in Cell /\ ~Blank(Grid, xy) THEN {buffer[xy[2]][xy[1]]} ELSE {}
  <2>1. bgwindow'[xy] = [colour |-> DesktopColour(xy), ink |-> e]
    BY <1>3
  <2> HIDE DEF e
  <2>2. bgwindow'[xy].colour = DesktopColour(xy) /\ bgwindow'[xy].ink = e
    BY <2>1
  <2> QED
    BY <2>2 DEF e
<1>10. InkOK(Grid')
  BY <1>7, <1>8, <1>9 DEF InkOK
<1>11. ColourOK(Grid')
  BY <1>7, <1>9 DEF ColourOK
<1> QED
  BY <1>1, <1>5, <1>6, <1>10, <1>11 DEF DesktopInv, InkInv, PhaseInv

\* A step after which the console's window is as it was.
LEMMA WindowUnchanged ==
  ASSUME DesktopInv, phase \in {"windows", "running"}, phase' \in {"windows", "running"},
         UNCHANGED <<bgwindow, console>>, IsInjective(layer_stack'),
         phase' # "running" => layer_stack' = <<>>
  PROVE  TextInv' /\ InkInv' /\ PhaseInv'
<1>1. /\ writer = "window" /\ writer' = "window"
      /\ UNCHANGED <<bgwindow, buffer, cursor_row, cursor_column, text>>
  BY DEF DesktopInv, PhaseInv, console
<1>2. Grid' = Grid
  BY <1>1 DEF Grid, Target
<1>3. TextInv'
  BY <1>1, TextUnchanged DEF DesktopInv
<1>4. InkOK(Grid) /\ ColourOK(Grid)
  BY <1>1 DEF DesktopInv, InkInv, PhaseInv
<1> QED
  BY <1>1, <1>2, <1>3, <1>4 DEF InkInv, PhaseInv

LEMMA SetUpLayersKeeps ==
  ASSUME DesktopInv, SetUpLayers
  PROVE  DesktopInv'
<1>1. /\ phase = "windows" /\ phase' = "running" /\ latest_id' = Mouse
      /\ pos' = [pos EXCEPT ![Background] = <<0, 0>>, ![Mouse] = MouseStart]
      /\ layer_stack' = Raised(Raised(layer_stack, Background, 0), Mouse, 1)
      /\ bgwindow' = bgwindow /\ Draw
      /\ UNCHANGED <<console, calls>>
      /\ UNCHANGED <<writer, buffer, cursor_row, cursor_column, text>>
  BY DEF SetUpLayers, console
<1>2. layer_stack' \in Seq(1 .. 2) /\ IsInjective(layer_stack')
  <2> DEFINE s == <<>>
             t == Raised(s, Background, 0)
             S == 1 .. 2
  <2>1. s \in Seq(S) /\ IsInjective(s) /\ Background \in S /\ Mouse \in S /\ layer_stack = s
    BY <1>1 DEF IsInjective, Background, Mouse, DesktopInv, PhaseInv
  <2>2. layer_stack' = Raised(t, Mouse, 1)
    BY <1>1, <2>1
  <2> HIDE DEF s, S
  <2>3. t \in Seq(S) /\ IsInjective(t)
    BY <2>1, RaisedTo
  <2> HIDE DEF t
  <2>4. Raised(t, Mouse, 1) \in Seq(S) /\ IsInjective(Raised(t, Mouse, 1))
    BY <2>1, <2>3, RaisedTo
  <2> QED
    BY <2>2, <2>4 DEF S
<1>3. latest_id' \in 0 .. MaxLayers /\ layer_stack' \in Seq(1 .. latest_id')
  <2>1. MaxLayers \in Nat /\ MaxLayers >= 2
    BY LayersAssumption
  <2> QED
    BY <1>1, <1>2, <2>1 DEF Mouse
<1>4. pos' \in [{Background, Mouse} -> Int \X Int]
  BY <1>1, DesktopAssumption DEF DesktopInv, TypeOK, LayersTypeOK
<1>5. bgwindow' \in [Place -> Pixel] /\ screen \in [Address -> Pixel]
  BY <1>1 DEF DesktopInv, TypeOK, LayersTypeOK
<1>6. screen' \in [Address -> Pixel]
  <2>1. Len(layer_stack') \in Nat
    BY <1>2
  <2> QED
    BY <1>1, <1>5, <2>1, DrawnTyped
<1>7. TypeOK'
  BY <1>1, <1>3, <1>4, <1>5, <1>6
    DEF DesktopInv, TypeOK, LayersTypeOK, ConsoleTypeOK, Place, Address, Pixel
<1>8. TextInv' /\ InkInv' /\ PhaseInv'
  BY <1>1, <1>2, WindowUnchanged
<1> QED
  BY <1>2, <1>7, <1>8 DEF DesktopInv

LEMMA PrintkKeeps ==
  ASSUME DesktopInv, NEW s \in Strings, Printk(s)
  PROVE  DesktopInv'
<1> DEFINE d == Put(Grid, s)
<1>1. /\ phase # "windows" /\ PutString(s) /\ (phase = "running" => Draw)
      /\ UNCHANGED <<latest_id, pos, layer_stack, phase, calls>>
  BY DEF Printk, layers
<1>2. /\ buffer' = d.buffer /\ cursor_row' = d.row /\ cursor_column' = d.column
      /\ text' = text \o s /\ writer' = writer
      /\ IF writer = "window" THEN bgwindow' = d.pixels
         ELSE bgwindow' = bgwindow /\ screen' = WriteScreen(d.pixels)
  BY <1>1 DEF PutString, Put, Grid
<1>3. Grid \in Console /\ text \in Seq(Symbol) /\ BufferOK(Grid) /\ TextOK(Grid, text)
  BY GridTyped DEF DesktopInv, TextInv
<1>4. s \in Seq(Symbol)
  BY ConsoleAssumption DEF Symbol
<1>5. /\ d \in Console /\ BufferOK(d) /\ TextOK(d, text \o s)
      /\ InkOK(Grid) => InkOK(d)
      /\ ColourOK(Grid) => ColourOK(d)
  BY <1>3, <1>4, StringPut
<1> HIDE DEF d
<1>6. /\ d.pixels \in [Place -> Pixel]
      /\ d.buffer \in [0 .. kRows - 1 -> [0 .. kColumns - 1 -> Char \cup {NUL}]]
      /\ d.row \in 0 .. kRows - 1 /\ d.column \in 0 .. kColumns
      /\ d = [pixels |-> d.pixels, buffer |-> d.buffer, row |-> d.row, column |-> d.column]
  BY <1>5 DEF Console
<1>7. Target' = d.pixels
  <2>1. CASE writer = "window"
    BY <1>2, <2>1 DEF Target
  <2>2. CASE writer # "window"
    <3>1. Target' = [xy \in Place |-> screen'[PixelAt(xy[1], xy[2])]]
      BY <1>2, <2>2 DEF Target, Place, PixelAt
    <3>2. \A xy \in Place : screen'[PixelAt(xy[1], xy[2])] = d.pixels[xy]
      BY <1>2, <1>6, <2>2, OnScreen
    <3> QED
      BY <1>6, <3>1, <3>2
  <2> QED
    BY <2>1, <2>2
<1>8. Grid' = d
  <2>1. Grid' = [pixels |-> Target', buffer |-> buffer', row |-> cursor_row',
                 column |-> cursor_column']
    BY DEF Grid
  <2> QED
    BY <1>2, <1>6, <1>7, <2>1
<1>9. bgwindow' \in [Place -> Pixel] /\ screen' \in [Address -> Pixel]
  <2>1. bgwindow \in [Place -> Pixel] /\ screen \in [Address -> Pixel] /\ Len(layer_stack') \in Nat
    BY <1>1 DEF DesktopInv, TypeOK, LayersTypeOK
  <2>2. CASE writer = "window"
    <3>1. Draw
      BY <1>1, <2>2 DEF DesktopInv, PhaseInv
    <3>2. bgwindow' \in [Place -> Pixel]
      BY <1>2, <1>6, <2>2
    <3> QED
      BY <2>1, <3>1, <3>2, DrawnTyped
  <2>3. CASE writer # "window"
    <3>1. bgwindow' = bgwindow /\ screen' = WriteScreen(d.pixels)
      BY <1>2, <2>3
    <3> QED
      BY <1>6, <2>1, <3>1, OnScreen
  <2> QED
    BY <2>2, <2>3
<1>10. text \o s \in Seq(Symbol)
  BY <1>3, <1>4, ConcatProperties
<1>11. TypeOK'
  BY <1>1, <1>2, <1>6, <1>9
    DEF DesktopInv, TypeOK, LayersTypeOK, ConsoleTypeOK, Place, Address, Pixel
<1>12. TextInv'
  BY <1>2, <1>5, <1>8, <1>10 DEF TextInv, Symbol
<1>13. InkInv'
  BY <1>1, <1>5, <1>8 DEF DesktopInv, InkInv
<1>14. PhaseInv' /\ IsInjective(layer_stack')
  BY <1>1, <1>2, <1>5, <1>8 DEF DesktopInv, PhaseInv
<1> QED
  BY <1>11, <1>12, <1>13, <1>14 DEF DesktopInv

LEMMA MouseObserverKeeps ==
  ASSUME DesktopInv, NEW d \in Displacements, MouseObserver(d)
  PROVE  DesktopInv'
<1>1. /\ phase = "running" /\ Draw
      /\ pos' = [pos EXCEPT ![Mouse] = <<@[1] + d[1], @[2] + d[2]>>]
      /\ UNCHANGED <<latest_id, layer_stack, bgwindow, console, phase, calls>>
      /\ UNCHANGED <<writer, buffer, cursor_row, cursor_column, text>>
  BY DEF MouseObserver, console
<1>2. d[1] \in Int /\ d[2] \in Int
  BY DesktopAssumption
<1>3. pos' \in [{Background, Mouse} -> Int \X Int]
  <2>1. pos \in [{Background, Mouse} -> Int \X Int]
    BY DEF DesktopInv, TypeOK, LayersTypeOK
  <2>2. pos[Mouse] \in Int \X Int
    BY <2>1
  <2>3. <<pos[Mouse][1] + d[1], pos[Mouse][2] + d[2]>> \in Int \X Int
    BY <1>2, <2>2
  <2> QED
    BY <1>1, <2>1, <2>3
<1>4. screen' \in [Address -> Pixel]
  <2>1. bgwindow' \in [Place -> Pixel] /\ screen \in [Address -> Pixel] /\ Len(layer_stack') \in Nat
    BY <1>1 DEF DesktopInv, TypeOK, LayersTypeOK
  <2> QED
    BY <1>1, <2>1, DrawnTyped
<1>5. TypeOK'
  BY <1>1, <1>3, <1>4
    DEF DesktopInv, TypeOK, LayersTypeOK, ConsoleTypeOK, Place, Address, Pixel
<1>6. IsInjective(layer_stack')
  BY <1>1 DEF DesktopInv
<1>7. TextInv' /\ InkInv' /\ PhaseInv'
  BY <1>1, <1>6, WindowUnchanged
<1> QED
  BY <1>5, <1>6, <1>7 DEF DesktopInv

\* The calls of the layers' interface change the layers only.
LEMMA CallKeeps ==
  ASSUME DesktopInv, Call, UNCHANGED <<bgwindow, screen>>,
         latest_id' \in 0 .. MaxLayers,
         pos' \in [{Background, Mouse} -> Int \X Int],
         layer_stack' \in Seq(1 .. latest_id'), IsInjective(layer_stack')
  PROVE  DesktopInv'
<1>1. /\ phase = "running" /\ phase' = "running"
      /\ calls < MaxCalls /\ calls' = calls + 1
      /\ UNCHANGED <<bgwindow, console>>
      /\ UNCHANGED <<writer, buffer, cursor_row, cursor_column, text>>
  BY DEF Call, console
<1>2. calls' \in 0 .. MaxCalls
  <2>1. calls \in 0 .. MaxCalls /\ MaxCalls \in Nat
    BY DesktopAssumption DEF DesktopInv, TypeOK
  <2> QED
    BY <1>1, <2>1
<1>3. TypeOK'
  BY <1>1, <1>2 DEF DesktopInv, TypeOK, LayersTypeOK, ConsoleTypeOK, Place, Address, Pixel
<1>4. TextInv' /\ InkInv' /\ PhaseInv'
  BY <1>1, WindowUnchanged
<1> QED
  BY <1>3, <1>4 DEF DesktopInv

\* Raising, hiding and moving, of layers that exist.
LEMMA LayersKept ==
  ASSUME DesktopInv
  PROVE  /\ Call /\ NewLayer => DesktopInv'
         /\ \A l \in 1 .. latest_id, height \in Int : Call /\ UpDown(l, height) => DesktopInv'
         /\ \A l \in 1 .. latest_id : Call /\ Hide(l) => DesktopInv'
         /\ \A l \in {Background, Mouse}, xy \in Positions : Call /\ Move(l, xy) => DesktopInv'
<1>1. /\ latest_id \in 0 .. MaxLayers /\ pos \in [{Background, Mouse} -> Int \X Int]
      /\ layer_stack \in Seq(1 .. latest_id) /\ IsInjective(layer_stack)
  BY DEF DesktopInv, TypeOK, LayersTypeOK
<1>2. ASSUME Call, NewLayer PROVE DesktopInv'
  <2>1. /\ latest_id < MaxLayers /\ latest_id' = latest_id + 1
        /\ UNCHANGED <<pos, layer_stack, bgwindow, screen>>
    BY <1>2 DEF NewLayer
  <2>2. latest_id' \in 0 .. MaxLayers
    BY <1>1, <2>1, LayersAssumption
  <2>3. layer_stack' \in Seq(1 .. latest_id')
    <3>1. 1 .. latest_id \subseteq 1 .. latest_id'
      BY <1>1, <2>1
    <3>2. \A k \in 1 .. Len(layer_stack) : layer_stack[k] \in 1 .. latest_id
      BY <1>1
    <3>3. /\ layer_stack = [k \in 1 .. Len(layer_stack) |-> layer_stack[k]]
          /\ Len(layer_stack) \in Nat
      BY <1>1
    <3>4. layer_stack \in [1 .. Len(layer_stack) -> 1 .. latest_id']
      BY <3>1, <3>2, <3>3
    <3>5. layer_stack \in Seq(1 .. latest_id')
      <4> DEFINE S == 1 .. latest_id'
                 n == Len(layer_stack)
      <4>1. n \in Nat /\ layer_stack \in [1 .. n -> S]
        BY <3>3, <3>4
      <4> HIDE DEF S, n
      <4>2. layer_stack \in Seq(S)
        BY <4>1
      <4> QED
        BY <4>2 DEF S
    <3> QED
      BY <2>1, <3>5
  <2>4. pos' \in [{Background, Mouse} -> Int \X Int] /\ IsInjective(layer_stack')
    BY <1>1, <2>1
  <2> QED
    BY <1>2, <2>1, <2>2, <2>3, <2>4, CallKeeps
<1>3. ASSUME NEW l \in 1 .. latest_id, NEW height \in Int, Call, UpDown(l, height) PROVE DesktopInv'
  <2>1. /\ layer_stack' = Raised(layer_stack, l, height)
        /\ UNCHANGED <<latest_id, pos, bgwindow, screen>>
    BY <1>3 DEF UpDown
  <2>2. layer_stack' \in Seq(1 .. latest_id) /\ IsInjective(layer_stack')
    BY <1>1, <1>3, <2>1, RaisedTo
  <2>3. /\ latest_id' \in 0 .. MaxLayers /\ pos' \in [{Background, Mouse} -> Int \X Int]
        /\ layer_stack' \in Seq(1 .. latest_id')
    BY <1>1, <2>1, <2>2
  <2> QED
    BY <1>3, <2>1, <2>2, <2>3, CallKeeps
<1>4. ASSUME NEW l \in 1 .. latest_id, Call, Hide(l) PROVE DesktopInv'
  <2>1. /\ layer_stack' = Hidden(layer_stack, l)
        /\ UNCHANGED <<latest_id, pos, bgwindow, screen>>
    BY <1>4 DEF Hide
  <2>2. layer_stack' \in Seq(1 .. latest_id) /\ IsInjective(layer_stack')
    BY <1>1, <2>1, HiddenOut
  <2>3. /\ latest_id' \in 0 .. MaxLayers /\ pos' \in [{Background, Mouse} -> Int \X Int]
        /\ layer_stack' \in Seq(1 .. latest_id')
    BY <1>1, <2>1, <2>2
  <2> QED
    BY <1>4, <2>1, <2>2, <2>3, CallKeeps
<1>5. ASSUME NEW l \in {Background, Mouse}, NEW xy \in Positions, Call, Move(l, xy)
      PROVE  DesktopInv'
  <2>1. /\ pos' = [pos EXCEPT ![l] = xy]
        /\ UNCHANGED <<latest_id, layer_stack, bgwindow, screen>>
    BY <1>5 DEF Move
  <2>2. /\ latest_id' \in 0 .. MaxLayers /\ pos' \in [{Background, Mouse} -> Int \X Int]
        /\ layer_stack' \in Seq(1 .. latest_id') /\ IsInjective(layer_stack')
    BY <1>1, <1>5, <2>1, DesktopAssumption
  <2> QED
    BY <1>5, <2>1, <2>2, CallKeeps
<1> QED
  BY <1>2, <1>3, <1>4, <1>5

LEMMA DesktopStep == DesktopInv /\ [Next]_vars => DesktopInv'
<1> SUFFICES ASSUME DesktopInv, [Next]_vars PROVE DesktopInv'
  OBVIOUS
<1>1. CASE DrawScreen
  BY <1>1, DrawScreenKeeps
<1>2. CASE SetUpWindows
  BY <1>2, SetUpWindowsKeeps
<1>3. CASE SetUpLayers
  BY <1>3, SetUpLayersKeeps
<1>4. CASE \E s \in Strings : Printk(s)
  BY <1>4, PrintkKeeps
<1>5. CASE \E d \in Displacements : MouseObserver(d)
  BY <1>5, MouseObserverKeeps
<1>6. CASE Call /\ NewLayer
  BY <1>6, LayersKept
<1>7. CASE Call /\ \E l \in 1 .. latest_id, height \in -1 .. MaxLayers : UpDown(l, height)
  <2>1. PICK l \in 1 .. latest_id, height \in -1 .. MaxLayers : UpDown(l, height)
    BY <1>7
  <2>2. height \in Int
    OBVIOUS
  <2> QED
    BY <1>7, <2>1, <2>2, LayersKept
<1>8. CASE Call /\ \E l \in 1 .. latest_id : Hide(l)
  BY <1>8, LayersKept
<1>9. CASE Call /\ \E l \in {Background, Mouse}, xy \in Positions : Move(l, xy)
  BY <1>9, LayersKept
<1>10. CASE UNCHANGED vars
  <2>1. UNCHANGED <<latest_id, pos, layer_stack, bgwindow, screen, writer, buffer, cursor_row,
                    cursor_column, text, phase, calls>>
    BY <1>10 DEF vars, layers, console
  <2>2. Grid' = Grid
    BY <2>1 DEF Grid, Target, Place, PixelAt
  <2>3. TypeOK'
    BY <2>1 DEF DesktopInv, TypeOK, LayersTypeOK, ConsoleTypeOK, Place, Address, Pixel
  <2>4. TextInv'
    BY <2>1, TextUnchanged DEF DesktopInv
  <2> QED
    BY <2>1, <2>2, <2>3, <2>4 DEF DesktopInv, InkInv, PhaseInv
<1> QED
  BY <1>1, <1>2, <1>3, <1>4, <1>5, <1>6, <1>7, <1>8, <1>9, <1>10 DEF Next

-----------------------------------------------------------------------------
(* What holds of every desktop.                                            *)

(* The invariant that the theorems on the desktop rest on: the buffer holds
   the end of the text that was put, as far as the grid goes, the writer shows
   the buffer, and no layer lies twice in the stack (Console::PutString,
   Console::Refresh, LayerManager::UpDown). *)
THEOREM DesktopInvariant == Spec => []DesktopInv
<1>1. Init => DesktopInv
  BY DesktopInit
<1>2. DesktopInv /\ [Next]_vars => DesktopInv'
  BY DesktopStep
<1> QED
  BY <1>1, <1>2, PTL DEF Spec

(* Types: cursor and buffer stay within the grid whatever is printed, every
   character written has a glyph, and the stack holds layers that exist
   (Console::PutString, Console::Newline, LayerManager::UpDown). *)
THEOREM DesktopTypeCorrect == Spec => []TypeOK
<1>1. DesktopInv => TypeOK
  BY DEF DesktopInv
<1> QED
  BY <1>1, DesktopInvariant, PTL

LEMMA ShownByInvariant == DesktopInv => TextShown
<1> SUFFICES ASSUME DesktopInv, phase # "wiped", NEW xy \in Place
             PROVE  /\ Target[xy].ink = IF xy \in Cell THEN Laid(text, xy) ELSE {}
                    /\ writer = "window" => Target[xy].colour = DesktopColour(xy)
  BY DEF TextShown
<1>1. InkOK(Grid) /\ TextOK(Grid, text) /\ (writer = "window" => ColourOK(Grid))
  BY DEF DesktopInv, InkInv, TextInv, PhaseInv
<1>2. Grid.pixels = Target
  BY GridTyped DEF DesktopInv
<1> QED
  BY <1>1, <1>2 DEF InkOK, TextOK, ColourOK

(* Whatever strings are put, before and after the console changes its writer,
   the writer shows the end of the text, each character in its cell and nothing
   under it, on the colours of the desktop (Console::PutString, Newline,
   Refresh, SetWriter). *)
THEOREM TextIsShown == Spec => []TextShown
  BY ShownByInvariant, DesktopInvariant, PTL

(* After every call that draws, each place of the screen shows the uppermost
   window there, with any pointer shape, any stack and wherever the pointer was
   before (LayerManager::Draw, MouseObserver, Console::PutString). *)
THEOREM ScreenIsComposed == Spec => ScreenShown
<1>1. DesktopInv /\ DesktopInv' /\ [Next]_vars
        => [(phase' = "running" /\ calls' = calls) => Composed']_vars
  <2> SUFFICES ASSUME DesktopInv, DesktopInv', Next, phase' = "running", calls' = calls
               PROVE  Composed'
    OBVIOUS
  <2>1. calls' # calls + 1
    BY DEF DesktopInv, TypeOK
  <2>2. ~Call
    BY <2>1 DEF Call
  <2>3. Draw
    <3>1. CASE SetUpLayers
      BY <3>1 DEF SetUpLayers
    <3>2. CASE \E s \in Strings : Printk(s)
      BY <3>2 DEF Printk
    <3>3. CASE \E d \in Displacements : MouseObserver(d)
      BY <3>3 DEF MouseObserver
    <3> QED
      BY <2>2, <3>1, <3>2, <3>3 DEF Next, DrawScreen, SetUpWindows
  <2>4. /\ bgwindow' \in [Place -> Pixel]
        /\ pos' \in [{Background, Mouse} -> Int \X Int]
        /\ layer_stack' \in Seq(1 .. latest_id')
    BY DEF DesktopInv, TypeOK, LayersTypeOK, Place, Pixel
  <2>5. \A xy \in Place : bgwindow'[xy].colour # "transparent"
    <3>1. writer' = "window" /\ ColourOK(Grid')
      BY DEF DesktopInv, PhaseInv
    <3>2. Grid'.pixels = bgwindow'
      BY <3>1 DEF Grid, Target
    <3>3. \A xy \in Place : DesktopColour(xy) # "transparent"
      BY DEF DesktopColour
    <3> QED
      BY <3>1, <3>2, <3>3 DEF ColourOK
  <2> QED
    BY <2>3, <2>4, <2>5, DrawnRight
<1> QED
  BY <1>1, DesktopInvariant, PTL DEF Spec, ScreenShown

(* With any number of layers, a layer that is raised, lowered or hidden ends up
   where it was asked to or on top, once or not at all, and the others keep
   their order (LayerManager::UpDown, LayerManager::Hide). *)
THEOREM StackKeepsOrder == Spec => StackOrder
<1> DEFINE A == \A l \in 1 .. latest_id :
                  /\ \A height \in -1 .. MaxLayers :
                       Call /\ UpDown(l, height) => OnlyMoved(l, height)
                  /\ Call /\ Hide(l) => OnlyMoved(l, -1)
<1>1. DesktopInv => A
  <2> SUFFICES ASSUME DesktopInv, NEW l \in 1 .. latest_id
               PROVE  /\ \A height \in -1 .. MaxLayers : UpDown(l, height) => OnlyMoved(l, height)
                      /\ Hide(l) => OnlyMoved(l, -1)
    OBVIOUS
  <2>1. layer_stack \in Seq(1 .. latest_id) /\ IsInjective(layer_stack)
    BY DEF DesktopInv, TypeOK, LayersTypeOK
  <2>2. ASSUME NEW height \in -1 .. MaxLayers, UpDown(l, height) PROVE OnlyMoved(l, height)
    <3>1. height \in Int
      OBVIOUS
    <3>2. layer_stack' = Raised(layer_stack, l, height)
      BY <2>2 DEF UpDown
    <3> DEFINE t == Raised(layer_stack, l, height)
    <3>3. /\ t \in Seq(1 .. latest_id) /\ IsInjective(t) /\ Hidden(t, l) = Hidden(layer_stack, l)
          /\ height < 0 => ~InStack(t, l)
          /\ height >= 0 => \/ InStack(t, l) /\ IndexIn(t, l) = height + 1
                            \/ height >= Len(t) /\ Last(t) = l
      <4> DEFINE S == 1 .. latest_id
      <4>1. layer_stack \in Seq(S) /\ IsInjective(layer_stack) /\ l \in S /\ height \in Int
        BY <2>1, <3>1
      <4> HIDE DEF S
      <4>2. /\ t \in Seq(S) /\ IsInjective(t) /\ Hidden(t, l) = Hidden(layer_stack, l)
            /\ height < 0 => ~InStack(t, l)
            /\ height >= 0 => \/ InStack(t, l) /\ IndexIn(t, l) = height + 1
                              \/ height >= Len(t) /\ Last(t) = l
            /\ height >= 0 => InStack(t, l)
        BY <4>1, RaisedTo
      <4> QED
        BY <4>2 DEF S
    <3>4. layer_stack' = t
      BY <3>2
    <3> HIDE DEF t
    <3> QED
      BY <3>3, <3>4, Zenon DEF OnlyMoved
  <2>3. ASSUME Hide(l) PROVE OnlyMoved(l, -1)
    <3>1. layer_stack' = Hidden(layer_stack, l)
      BY <2>3 DEF Hide
    <3> QED
      BY <2>1, <3>1, HiddenOut DEF OnlyMoved
  <2> QED
    BY <2>2, <2>3
<1> HIDE DEF A
<1>2. Spec => [][A]_vars
  <2>1. DesktopInv /\ [Next]_vars => [A]_vars
    BY <1>1
  <2> QED
    BY <2>1, DesktopInvariant, PTL DEF Spec
<1> QED
  BY <1>2 DEF StackOrder, A
=============================================================================
