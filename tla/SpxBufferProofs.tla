-------------------------- MODULE SpxBufferProofs --------------------------
(***************************************************************************)
(* For every input, block size and number of blocks: every block has one   *)
(* owner, the counts agree with the chains, the read buffer is whole, and  *)
(* the chains implement the two queues of bytes of ByteQueue.              *)
(*                                                                         *)
(* The inductive invariant says of each chain what a reader of its blocks  *)
(* relies on (Sound) and of the three together that they share nothing and *)
(* own everything (Owned, AllOwned).  The refinement tells a byte by its   *)
(* place: byte j of block k follows the bytes of the blocks before it.     *)
(***************************************************************************)
EXTENDS SpxBuffer, TLAPS, FiniteSetTheorems, SequenceTheorems

IovT == [base : Nat, len : Nat]
BufT == [iov : Seq(IovT), size : Nat, pp : Nat]

IsHeap(h) == /\ DOMAIN h \subseteq Nat /\ IsFiniteSet(DOMAIN h)
             /\ h \in [DOMAIN h -> Seq(Nat)]

Distinct(iovs) == \A i, j \in 1 .. Len(iovs) : iovs[i].base = iovs[j].base => i = j

\* Where the bytes of the k-th block begin.
Used(b, k) == IF k = 1 THEN b.pp ELSE 0

\* The bytes of a chain are within its live blocks, and counted.
Sound(h, b) ==
    /\ b \in BufT
    /\ b.size = LenUpto(b.iov, Len(b.iov))
    /\ b.iov = <<>> => b.pp = 0
    /\ \A k \in 1 .. Len(b.iov) :
          /\ b.iov[k].len > 0 /\ b.iov[k].base \in DOMAIN h
          /\ Used(b, k) + b.iov[k].len <= Len(h[b.iov[k].base])
    /\ Distinct(b.iov)

-----------------------------------------------------------------------------
(* Recursion up to a number: induction, and that there is a function.      *)
LEMMA LeastOf ==
  ASSUME NEW S, S \subseteq Nat, S # {}
  PROVE  \E m \in S : \A k \in S : m <= k
<1> DEFINE Less == OpToRel(<, Nat)
<1>1. PICK m \in S : \A k \in S : ~(<<k, m>> \in Less)
  <2> HIDE DEF Less
  <2>1. IsWellFoundedOn(Less, Nat)
    BY NatLessThanWellFounded DEF Less
  <2> QED
    BY <2>1, WFMin
<1>2. m \in Nat /\ \A k \in S : k \in Nat /\ ~(k < m)
  BY <1>1 DEF OpToRel
<1> HIDE DEF Less
<1> QED
  BY <1>2

LEMMA NatCounts ==
  ASSUME NEW n \in Nat, NEW T, 0 \in T, \A k \in 0 .. n - 1 : k \in T => k + 1 \in T
  PROVE  \A k \in 0 .. n : k \in T
<1> DEFINE Rest == {k \in 0 .. n : k \notin T}
<1> SUFFICES ASSUME Rest # {} PROVE FALSE
  OBVIOUS
<1>1. Rest \subseteq Nat
  OBVIOUS
<1>2. PICK m \in Rest : \A k \in Rest : m <= k
  <2> HIDE DEF Rest
  <2> QED
    BY <1>1, LeastOf
<1>3. m \in 0 .. n /\ m \notin T
  OBVIOUS
<1>4. m # 0 /\ m - 1 \in 0 .. n - 1
  BY <1>3
<1>5. m - 1 \in T
  BY <1>2, <1>4
<1>6. (m - 1) + 1 \in T
  BY <1>4, <1>5
<1> QED
  BY <1>3, <1>6

Iterated(n, S, base, step) ==
    \E g \in [0 .. n -> S] : g[0] = base /\ \A k \in 1 .. n : g[k] = step[<<k, g[k - 1]>>]

LEMMA Recursion ==
  ASSUME NEW n \in Nat, NEW S, NEW base \in S, NEW step \in [(1 .. n) \X S -> S]
  PROVE  Iterated(n, S, base, step)
<1> DEFINE Equations(g, m) == /\ g \in [0 .. m -> S] /\ g[0] = base
                              /\ \A k \in 1 .. m : g[k] = step[<<k, g[k - 1]>>]
           T == {m \in 0 .. n : \E g : Equations(g, m)}
<1>1. 0 \in T
  <2>1. Equations([k \in 0 .. 0 |-> base], 0)
    OBVIOUS
  <2> HIDE DEF Equations
  <2> QED
    BY <2>1
<1>2. ASSUME NEW m \in 0 .. n - 1, m \in T PROVE m + 1 \in T
  <2>1. PICK g : Equations(g, m)
    BY <1>2
  <2>2. m + 1 \in 1 .. n /\ m \in Nat
    OBVIOUS
  <2>3. step[<<m + 1, g[m]>>] \in S
    BY <2>1, <2>2
  <2> DEFINE w == [k \in 0 .. m + 1 |-> IF k <= m THEN g[k] ELSE step[<<m + 1, g[m]>>]]
  <2>4. w \in [0 .. m + 1 -> S] /\ w[0] = base
    BY <2>1, <2>2, <2>3
  <2>5. \A k \in 1 .. m + 1 : w[k] = step[<<k, w[k - 1]>>]
    <3> TAKE k \in 1 .. m + 1
    <3>1. CASE k <= m
      BY <2>1, <2>2, <3>1
    <3>2. CASE k = m + 1
      <4>1. w[k] = step[<<m + 1, g[m]>>] /\ w[k - 1] = g[m]
        BY <2>2, <3>2
      <4> QED
        BY <3>2, <4>1
    <3> QED
      BY <2>2, <3>1, <3>2
  <2>6. Equations(w, m + 1)
    BY <2>4, <2>5
  <2> HIDE DEF Equations, w
  <2> QED
    BY <2>2, <2>6
<1>3. n \in T
  <2> HIDE DEF T
  <2>1. \A m \in 0 .. n : m \in T
    BY <1>1, <1>2, NatCounts
  <2> QED
    BY <2>1
<1> QED
  BY <1>3 DEF Iterated

-----------------------------------------------------------------------------
(* The length of the first blocks of a chain.                              *)
LEMMA LenUptoIs ==
  ASSUME NEW s \in Seq(IovT)
  PROVE  /\ LenUpto(s, 0) = 0
         /\ \A k \in 1 .. Len(s) : LenUpto(s, k) = LenUpto(s, k - 1) + s[k].len
         /\ \A k \in 0 .. Len(s) : LenUpto(s, k) \in Nat
<1> DEFINE n == Len(s)
           step == [p \in (1 .. n) \X Nat |-> p[2] + s[p[1]].len]
           Is(f) == f = [i \in 0 .. n |-> IF i = 0 THEN 0 ELSE f[i - 1] + s[i].len]
<1>1. n \in Nat /\ \A k \in 1 .. n : s[k].len \in Nat
  <2>1. \A k \in 1 .. n : s[k] \in IovT
    OBVIOUS
  <2> QED
    BY <2>1 DEF IovT
<1> HIDE DEF n
<1>2. step \in [(1 .. n) \X Nat -> Nat]
  BY <1>1
<1>3. PICK g \in [0 .. n -> Nat] :
         g[0] = 0 /\ \A k \in 1 .. n : g[k] = step[<<k, g[k - 1]>>]
  <2> HIDE DEF step
  <2>1. Iterated(n, Nat, 0, step)
    BY <1>1, <1>2, Recursion
  <2> QED
    BY <2>1 DEF Iterated
<1>4. Is(g)
  <2>1. \A k \in 1 .. n : g[k] = g[k - 1] + s[k].len
    <3> TAKE k \in 1 .. n
    <3>1. k \in Nat /\ k - 1 \in 0 .. n
      BY <1>1
    <3>2. g[k - 1] \in Nat
      BY <3>1
    <3>3. step[<<k, g[k - 1]>>] = g[k - 1] + s[k].len
      BY <3>2
    <3> QED
      BY <1>3, <3>3
  <2> QED
    BY <1>1, <1>3, <2>1
<1> DEFINE f == CHOOSE f : Is(f)
<1>5. Is(f)
  <2> HIDE DEF Is
  <2> QED
    BY <1>4
<1>6. \A k \in 0 .. n : LenUpto(s, k) = f[k]
  BY DEF LenUpto, n
<1> HIDE DEF f
<1> DEFINE U == {m \in 0 .. n : f[m] \in Nat}
<1>7. 0 \in U
  BY <1>1, <1>5
<1>8. ASSUME NEW m \in 0 .. n - 1, m \in U PROVE m + 1 \in U
  <2>1. m + 1 \in 1 .. n /\ (m + 1) - 1 = m /\ f[m] \in Nat
    BY <1>1, <1>8
  <2>2. f[m + 1] = f[m] + s[m + 1].len
    BY <1>1, <1>5, <2>1
  <2> QED
    BY <1>1, <2>1, <2>2
<1>9. \A m \in 0 .. n : m \in U
  <2> HIDE DEF U
  <2> QED
    BY <1>1, <1>7, <1>8, NatCounts
<1>10. f[0] = 0 /\ \A k \in 1 .. n : f[k] = f[k - 1] + s[k].len
  BY <1>1, <1>5
<1>11. \A k \in 0 .. n : f[k] \in Nat
  BY <1>9
<1> HIDE DEF Is, U
<1>12. LenUpto(s, 0) = 0
  BY <1>1, <1>6, <1>10
<1>13. \A k \in 1 .. n : LenUpto(s, k) = LenUpto(s, k - 1) + s[k].len
  <2> TAKE k \in 1 .. n
  <2>1. k \in 0 .. n /\ k - 1 \in 0 .. n
    BY <1>1
  <2> QED
    BY <1>6, <1>10, <2>1
<1>14. \A k \in 0 .. n : LenUpto(s, k) \in Nat
  BY <1>6, <1>11
<1> QED
  BY <1>12, <1>13, <1>14 DEF n

(* A function that satisfies the equations is the length.                  *)
LEMMA LenUptoUnique ==
  ASSUME NEW s \in Seq(IovT), NEW m \in 0 .. Len(s), NEW f, f[0] = 0,
         \A k \in 1 .. m : f[k] = f[k - 1] + s[k].len
  PROVE  \A k \in 0 .. m : LenUpto(s, k) = f[k]
<1> DEFINE T == {k \in 0 .. m : LenUpto(s, k) = f[k]}
<1>1. Len(s) \in Nat /\ m \in Nat
  OBVIOUS
<1>2. 0 \in T
  BY <1>1, LenUptoIs
<1>3. ASSUME NEW k \in 0 .. m - 1, k \in T PROVE k + 1 \in T
  <2>1. k + 1 \in 1 .. m /\ k + 1 \in 1 .. Len(s) /\ (k + 1) - 1 = k
    BY <1>1
  <2>2. LenUpto(s, k + 1) = LenUpto(s, k) + s[k + 1].len
    BY <2>1, LenUptoIs
  <2> QED
    BY <1>1, <1>3, <2>1, <2>2
<1> HIDE DEF T
<1>4. \A k \in 0 .. m : k \in T
  BY <1>1, <1>2, <1>3, NatCounts
<1> QED
  BY <1>4 DEF T

(* The same blocks at the front have the same length.                      *)
LEMMA LenUptoSame ==
  ASSUME NEW s \in Seq(IovT), NEW t \in Seq(IovT), NEW m \in 0 .. Len(s), m <= Len(t),
         \A k \in 1 .. m : s[k].len = t[k].len
  PROVE  \A k \in 0 .. m : LenUpto(s, k) = LenUpto(t, k)
<1> DEFINE f == [k \in 0 .. m |-> LenUpto(t, k)]
<1>1. Len(s) \in Nat /\ Len(t) \in Nat /\ m \in Nat
  OBVIOUS
<1>2. f[0] = 0
  BY <1>1, LenUptoIs
<1>3. \A k \in 1 .. m : f[k] = f[k - 1] + s[k].len
  BY <1>1, LenUptoIs
<1>4. \A k \in 0 .. m : LenUpto(s, k) = f[k]
  <2> HIDE DEF f
  <2> QED
    BY <1>2, <1>3, LenUptoUnique
<1> QED
  BY <1>4

(* More blocks are longer.                                                 *)
LEMMA LenUptoGrows ==
  ASSUME NEW s \in Seq(IovT), NEW j \in 0 .. Len(s), NEW k \in j .. Len(s)
  PROVE  /\ LenUpto(s, j) <= LenUpto(s, k)
         /\ (\A i \in 1 .. Len(s) : s[i].len > 0) => LenUpto(s, k) - LenUpto(s, j) >= k - j
<1> DEFINE T == {m \in 0 .. k - j :
                   /\ LenUpto(s, j) <= LenUpto(s, j + m)
                   /\ (\A i \in 1 .. Len(s) : s[i].len > 0) =>
                         LenUpto(s, j + m) - LenUpto(s, j) >= m}
<1>1. Len(s) \in Nat /\ j \in Nat /\ k \in Nat /\ k - j \in Nat
  OBVIOUS
<1>2. 0 \in T
  <2>1. LenUpto(s, j) \in Nat
    BY LenUptoIs
  <2>2. j + 0 = j
    BY <1>1
  <2> QED
    BY <1>1, <2>1, <2>2
<1>3. ASSUME NEW m \in 0 .. (k - j) - 1, m \in T PROVE m + 1 \in T
  <2>1. /\ j + m + 1 \in 1 .. Len(s) /\ (j + m + 1) - 1 = j + m /\ j + m \in 0 .. Len(s)
        /\ j + (m + 1) = j + m + 1 /\ m + 1 \in 0 .. k - j
    BY <1>1
  <2>2. LenUpto(s, j + m + 1) = LenUpto(s, j + m) + s[j + m + 1].len
    BY <2>1, LenUptoIs
  <2>3. LenUpto(s, j) \in Nat /\ LenUpto(s, j + m) \in Nat /\ s[j + m + 1].len \in Nat
    <3>1. s[j + m + 1] \in IovT
      BY <2>1
    <3> QED
      BY <2>1, <3>1, LenUptoIs DEF IovT
  <2> QED
    BY <1>1, <1>3, <2>1, <2>2, <2>3
<1>4. \A m \in 0 .. k - j : m \in T
  <2> HIDE DEF T
  <2> QED
    BY <1>1, <1>2, <1>3, NatCounts
<1>5. k - j \in T
  BY <1>1, <1>4
<1> QED
  BY <1>1, <1>5

(* The loop over whole blocks stops at a block that has more bytes than are *)
(* left, or at the end.                                                    *)
LEMMA WholeIs ==
  ASSUME NEW s \in Seq(IovT), NEW n \in Nat
  PROVE  /\ Whole(s, n) \in 0 .. Len(s)
         /\ LenUpto(s, Whole(s, n)) <= n
         /\ Whole(s, n) = Len(s) \/ LenUpto(s, Whole(s, n) + 1) > n
<1> DEFINE Stops == {k \in 0 .. Len(s) : k = Len(s) \/ LenUpto(s, k + 1) > n}
           Is(k) == LenUpto(s, k) <= n /\ (k = Len(s) \/ LenUpto(s, k + 1) > n)
<1>1. Len(s) \in Nat
  OBVIOUS
<1>2. Len(s) \in Stops /\ Stops \subseteq Nat
  BY <1>1
<1>3. PICK m \in Stops : \A k \in Stops : m <= k
  <2> HIDE DEF Stops
  <2> QED
    BY <1>2, LeastOf
<1>4. LenUpto(s, m) <= n
  <2>1. CASE m = 0
    BY <2>1, LenUptoIs
  <2>2. CASE m # 0
    <3>1. m - 1 \in 0 .. Len(s) /\ m - 1 # Len(s) /\ ~(m <= m - 1) /\ (m - 1) + 1 = m
      <4>1. m \in 0 .. Len(s)
        OBVIOUS
      <4> QED
        BY <1>1, <2>2, <4>1
    <3>4. m - 1 \notin Stops
      <4> HIDE DEF Stops
      <4> QED
        BY <1>3, <3>1
    <3>2. ~(LenUpto(s, (m - 1) + 1) > n)
      BY <3>1, <3>4
    <3>3. LenUpto(s, m) \in Nat
      BY <1>3, LenUptoIs
    <3> QED
      BY <3>1, <3>2, <3>3
  <2> QED
    BY <2>1, <2>2
<1>5. m \in 0 .. Len(s) /\ Is(m)
  BY <1>4
<1>6. Whole(s, n) = CHOOSE k \in 0 .. Len(s) : Is(k)
  BY DEF Whole
<1> HIDE DEF Is
<1>7. Whole(s, n) \in 0 .. Len(s) /\ Is(Whole(s, n))
  BY <1>5, <1>6
<1> QED
  BY <1>7 DEF Is

(* The length of a chain with another behind it, and of what is left of a   *)
(* chain when `left' bytes of the block after the first k have gone too.    *)
LEMMA LenUptoConcat ==
  ASSUME NEW s \in Seq(IovT), NEW t \in Seq(IovT)
  PROVE  /\ \A k \in 0 .. Len(s) : LenUpto(s \o t, k) = LenUpto(s, k)
         /\ \A k \in 0 .. Len(t) :
               LenUpto(s \o t, Len(s) + k) = LenUpto(s, Len(s)) + LenUpto(t, k)
<1> DEFINE w == s \o t
           f == [i \in 0 .. Len(s) + Len(t) |->
                   IF i <= Len(s) THEN LenUpto(s, i)
                   ELSE LenUpto(s, Len(s)) + LenUpto(t, i - Len(s))]
<1>1. Len(s) \in Nat /\ Len(t) \in Nat
  OBVIOUS
<1>2. /\ w \in Seq(IovT) /\ Len(w) = Len(s) + Len(t)
      /\ \A i \in 1 .. Len(s) + Len(t) : w[i] = IF i <= Len(s) THEN s[i] ELSE t[i - Len(s)]
  BY ConcatProperties
<1> HIDE DEF w
<1>3. /\ LenUpto(s, 0) = 0 /\ LenUpto(t, 0) = 0
      /\ \A k \in 1 .. Len(s) : LenUpto(s, k) = LenUpto(s, k - 1) + s[k].len
      /\ \A k \in 1 .. Len(t) : LenUpto(t, k) = LenUpto(t, k - 1) + t[k].len
      /\ \A k \in 0 .. Len(s) : LenUpto(s, k) \in Nat
      /\ \A k \in 0 .. Len(t) : LenUpto(t, k) \in Nat
  BY LenUptoIs
<1>4. f[0] = 0
  BY <1>1, <1>3
<1>5. \A k \in 1 .. Len(w) : f[k] = f[k - 1] + w[k].len
  <2> TAKE k \in 1 .. Len(w)
  <2>1. CASE k <= Len(s)
    <3>1. f[k] = LenUpto(s, k) /\ f[k - 1] = LenUpto(s, k - 1) /\ w[k] = s[k]
      BY <1>1, <1>2, <2>1
    <3> QED
      BY <1>1, <1>2, <1>3, <2>1, <3>1
  <2>2. CASE k > Len(s)
    <3>1. k - Len(s) \in 1 .. Len(t) /\ (k - Len(s)) - 1 = (k - 1) - Len(s)
      BY <1>1, <1>2, <2>2
    <3>2. f[k] = LenUpto(s, Len(s)) + LenUpto(t, k - Len(s)) /\ w[k] = t[k - Len(s)]
      BY <1>1, <1>2, <2>2
    <3>3. f[k - 1] = LenUpto(s, Len(s)) + LenUpto(t, (k - 1) - Len(s))
      <4>1. CASE k - 1 = Len(s)
        BY <1>1, <1>2, <1>3, <2>2, <4>1
      <4>2. CASE k - 1 > Len(s)
        BY <1>1, <1>2, <2>2, <4>2
      <4> QED
        BY <1>1, <1>2, <2>2, <4>1, <4>2
    <3>4. LenUpto(t, k - Len(s)) = LenUpto(t, (k - 1) - Len(s)) + t[k - Len(s)].len
      BY <1>3, <3>1
    <3>5. t[k - Len(s)].len \in Nat
      <4>1. t[k - Len(s)] \in IovT
        BY <3>1
      <4> QED
        BY <4>1 DEF IovT
    <3>6. LenUpto(s, Len(s)) \in Nat /\ LenUpto(t, (k - 1) - Len(s)) \in Nat
      BY <1>1, <1>3, <3>1
    <3> QED
      BY <3>2, <3>3, <3>4, <3>5, <3>6
  <2> QED
    BY <1>1, <1>2, <2>1, <2>2
<1>6. \A k \in 0 .. Len(w) : LenUpto(w, k) = f[k]
  <2> HIDE DEF f
  <2>1. w \in Seq(IovT) /\ Len(w) \in 0 .. Len(w)
    BY <1>1, <1>2
  <2> QED
    BY <1>4, <1>5, <2>1, LenUptoUnique
<1>7. \A k \in 0 .. Len(s) : LenUpto(w, k) = LenUpto(s, k)
  BY <1>1, <1>2, <1>6
<1>8. \A k \in 0 .. Len(t) : LenUpto(w, Len(s) + k) = LenUpto(s, Len(s)) + LenUpto(t, k)
  <2> TAKE k \in 0 .. Len(t)
  <2>1. Len(s) + k \in 0 .. Len(w) /\ (Len(s) + k) - Len(s) = k
    BY <1>1, <1>2
  <2>2. CASE k = 0
    <3>1. Len(s) + k = Len(s) /\ Len(s) \in 0 .. Len(s)
      BY <1>1, <2>2
    <3>2. LenUpto(w, Len(s) + k) = LenUpto(s, Len(s)) /\ LenUpto(s, Len(s)) \in Nat
      BY <1>3, <1>7, <3>1
    <3> QED
      BY <1>3, <2>2, <3>2
  <2>3. CASE k > 0
    BY <1>1, <1>2, <1>6, <2>1, <2>3
  <2> QED
    BY <1>1, <2>2, <2>3
<1> QED
  BY <1>7, <1>8 DEF w

LEMMA LenUptoRest ==
  ASSUME NEW s \in Seq(IovT), NEW t \in Seq(IovT), NEW k \in 0 .. Len(s) - 1, NEW left \in Nat,
         Len(t) = Len(s) - k, t[1].len = s[k + 1].len - left,
         \A j \in 2 .. Len(t) : t[j].len = s[k + j].len
  PROVE  \A j \in 1 .. Len(t) : LenUpto(t, j) = LenUpto(s, k + j) - LenUpto(s, k) - left
<1> DEFINE f == [j \in 0 .. Len(t) |->
                   IF j = 0 THEN 0 ELSE LenUpto(s, k + j) - LenUpto(s, k) - left]
<1>1. Len(s) \in Nat /\ Len(t) \in Nat /\ k \in Nat
  OBVIOUS
<1>2. /\ \A j \in 1 .. Len(s) : LenUpto(s, j) = LenUpto(s, j - 1) + s[j].len
      /\ \A j \in 0 .. Len(s) : LenUpto(s, j) \in Nat
  BY LenUptoIs
<1>3. \A j \in 1 .. Len(t) : f[j] = f[j - 1] + t[j].len
  <2> TAKE j \in 1 .. Len(t)
  <2>1. k + j \in 1 .. Len(s) /\ (k + j) - 1 = k + (j - 1) /\ k + (j - 1) \in 0 .. Len(s)
    BY <1>1
  <2>2. LenUpto(s, k + j) = LenUpto(s, k + (j - 1)) + s[k + j].len
    BY <1>2, <2>1
  <2>3. /\ LenUpto(s, k + (j - 1)) \in Nat /\ LenUpto(s, k) \in Nat
        /\ s[k + j].len \in Nat /\ s[k + 1].len \in Nat
    <3>1. s[k + j] \in IovT /\ s[k + 1] \in IovT
      BY <1>1, <2>1
    <3>2. s[k + j].len \in Nat /\ s[k + 1].len \in Nat
      BY <3>1 DEF IovT
    <3>3. k \in 0 .. Len(s)
      BY <1>1
    <3> QED
      BY <1>2, <2>1, <3>2, <3>3
  <2>4. CASE j = 1
    BY <1>1, <2>2, <2>3, <2>4
  <2>5. CASE j > 1
    <3>1. f[j - 1] = LenUpto(s, k + (j - 1)) - LenUpto(s, k) - left
      BY <1>1, <2>5
    <3>2. t[j].len = s[k + j].len /\ f[j] = LenUpto(s, k + j) - LenUpto(s, k) - left
      BY <1>1, <2>5
    <3>3. LenUpto(s, k + j) \in Nat
      BY <1>2, <2>1
    <3> DEFINE a == LenUpto(s, k + j)  b == LenUpto(s, k)  c == LenUpto(s, k + (j - 1))
               x == s[k + j].len
    <3>4. /\ a = c + x /\ f[j - 1] = c - b - left /\ f[j] = a - b - left /\ t[j].len = x
          /\ a \in Nat /\ b \in Nat /\ c \in Nat /\ x \in Nat
      BY <2>2, <2>3, <3>1, <3>2, <3>3
    <3> HIDE DEF f, a, b, c, x
    <3> QED
      BY <3>4
  <2> QED
    BY <1>1, <2>4, <2>5
<1>4. f[0] = 0 /\ Len(t) \in 0 .. Len(t)
  BY <1>1
<1>5. \A j \in 0 .. Len(t) : LenUpto(t, j) = f[j]
  <2> HIDE DEF f
  <2> QED
    BY <1>3, <1>4, LenUptoUnique
<1> QED
  BY <1>1, <1>5

-----------------------------------------------------------------------------
(* Chains and the heap.  A chain is sound in every heap that has its blocks *)
(* unchanged.                                                              *)
LEMMA SoundFrame ==
  ASSUME NEW h, NEW g, NEW b, Sound(h, b),
         \A a \in Bases(b.iov) : a \in DOMAIN g /\ g[a] = h[a]
  PROVE  Sound(g, b)
BY DEF Sound, Bases

LEMMA EmptySound == \A h : Sound(h, Empty) /\ Bases(Empty.iov) = {}
<1>1. Empty \in BufT /\ Empty.iov = <<>> /\ Empty.size = 0 /\ Empty.pp = 0
  BY DEF Empty, BufT
<1>2. LenUpto(<<>>, 0) = 0
  BY LenUptoIs, EmptySeq
<1> QED
  BY <1>1, <1>2 DEF Sound, Distinct, Bases

(* The addresses of the first k blocks and of those behind them.            *)
Front(s, k) == {s[j].base : j \in 1 .. k}
Back(s, k)  == {s[j].base : j \in k + 1 .. Len(s)}

(* d is b without its first k blocks and `left' bytes of the next.          *)
IsRest(b, d, k, left) ==
    /\ k \in 0 .. Len(b.iov) - 1 /\ left \in 0 .. b.iov[k + 1].len - 1
    /\ d \in BufT /\ Len(d.iov) = Len(b.iov) - k
    /\ \A j \in 1 .. Len(d.iov) :
          /\ d.iov[j].base = b.iov[k + j].base
          /\ d.iov[j].len = IF j = 1 THEN b.iov[k + j].len - left ELSE b.iov[k + j].len
    /\ d.pp = Used(b, k + 1) + left
    /\ d.size = b.size - (LenUpto(b.iov, k) + left)

LEMMA DeletedIsRest ==
  ASSUME NEW h, NEW b, Sound(h, b), NEW n \in Nat, n < b.size
  PROVE  IsRest(b, delete_size_for_move_(b, n), Whole(b.iov, n), n - LenUpto(b.iov, Whole(b.iov, n)))
<1> DEFINE s == b.iov
           k == Whole(s, n)
           left == n - LenUpto(s, k)
           d == delete_size_for_move_(b, n)
           first == [s[k + 1] EXCEPT !.len = @ - left]
           tail == SubSeq(s, k + 2, Len(s))
<1>1. s \in Seq(IovT) /\ Len(s) \in Nat /\ b.size = LenUpto(s, Len(s)) /\ b.size \in Nat /\ b.pp \in Nat
  BY DEF Sound, BufT
<1>2. k \in 0 .. Len(s) /\ LenUpto(s, k) <= n /\ (k = Len(s) \/ LenUpto(s, k + 1) > n)
  BY <1>1, WholeIs
<1>3. d = [iov |-> <<first>> \o tail, size |-> b.size - n,
           pp |-> IF k = 0 THEN b.pp + left ELSE left]
  BY <1>1 DEF delete_size_for_move_
<1> HIDE DEF s, k, d
<1>4. k \in 0 .. Len(s) - 1 /\ LenUpto(s, k + 1) > n
  BY <1>1, <1>2
<1>5. LenUpto(s, k + 1) = LenUpto(s, k) + s[k + 1].len
  <2>1. k + 1 \in 1 .. Len(s) /\ (k + 1) - 1 = k
    BY <1>1, <1>4
  <2> QED
    BY <1>1, <2>1, LenUptoIs
<1>6. LenUpto(s, k) \in Nat /\ s[k + 1] \in IovT
  BY <1>1, <1>2, <1>4, LenUptoIs
<1>7. left \in Nat /\ left < s[k + 1].len /\ s[k + 1].len \in Nat /\ s[k + 1].base \in Nat
  BY <1>2, <1>4, <1>5, <1>6 DEF IovT
<1>8. first = [base |-> s[k + 1].base, len |-> s[k + 1].len - left]
  BY <1>6 DEF IovT
<1>9. first \in IovT
  BY <1>7, <1>8 DEF IovT
<1>10. /\ tail \in Seq(IovT) /\ Len(tail) = Len(s) - k - 1
       /\ \A i \in 1 .. Len(s) - k - 1 : tail[i] = s[k + 1 + i]
  <2>1. \A i \in k + 2 .. Len(s) : s[i] \in IovT
    BY <1>1, <1>4
  <2>2. /\ tail \in Seq(IovT) /\ Len(tail) = IF k + 2 <= Len(s) THEN Len(s) - (k + 2) + 1 ELSE 0
        /\ \A i \in 1 .. Len(s) - (k + 2) + 1 : tail[i] = s[(k + 2) + i - 1]
    BY <1>1, <1>4, <2>1, SubSeqProperties
  <2> HIDE DEF tail
  <2>3. Len(tail) = Len(s) - k - 1 /\ Len(s) - (k + 2) + 1 = Len(s) - k - 1
    BY <1>1, <1>4, <2>2
  <2>4. \A i \in 1 .. Len(s) - k - 1 : tail[i] = s[k + 1 + i]
    <3> TAKE i \in 1 .. Len(s) - k - 1
    <3>1. (k + 2) + i - 1 = k + 1 + i
      BY <1>1, <1>4
    <3>2. tail[i] = s[(k + 2) + i - 1]
      BY <2>2, <2>3
    <3> QED
      BY <3>1, <3>2
  <2> QED
    BY <2>2, <2>3, <2>4
<1> HIDE DEF left, first, tail
<1>11. <<first>> \in Seq(IovT) /\ Len(<<first>>) = 1 /\ <<first>>[1] = first
  BY <1>9
<1>12. /\ <<first>> \o tail \in Seq(IovT) /\ Len(<<first>> \o tail) = Len(s) - k
       /\ (<<first>> \o tail)[1] = first
       /\ \A j \in 2 .. Len(s) - k : (<<first>> \o tail)[j] = s[k + j]
  <2> DEFINE one == <<first>>
  <2>1. one \in Seq(IovT) /\ Len(one) = 1 /\ one[1] = first
    BY <1>11
  <2> HIDE DEF one
  <2>2. /\ one \o tail \in Seq(IovT) /\ Len(one \o tail) = Len(one) + Len(tail)
        /\ \A i \in 1 .. Len(one) + Len(tail) :
              (one \o tail)[i] = IF i <= Len(one) THEN one[i] ELSE tail[i - Len(one)]
    BY <1>10, <2>1, ConcatProperties
  <2>3. Len(one \o tail) = Len(s) - k /\ (one \o tail)[1] = first
    BY <1>1, <1>4, <1>10, <2>1, <2>2
  <2>4. \A j \in 2 .. Len(s) - k : (one \o tail)[j] = s[k + j]
    <3> TAKE j \in 2 .. Len(s) - k
    <3>1. j - 1 \in 1 .. Len(s) - k - 1 /\ k + 1 + (j - 1) = k + j
      BY <1>1, <1>4
    <3>2. (one \o tail)[j] = tail[j - 1]
      BY <1>1, <1>4, <1>10, <2>1, <2>2
    <3> QED
      BY <1>10, <3>1, <3>2
  <2> QED
    BY <2>2, <2>3, <2>4 DEF one
<1>13. d \in BufT
  BY <1>1, <1>3, <1>7, <1>12 DEF BufT
<1>14. d.pp = Used(b, k + 1) + left
  BY <1>1, <1>2, <1>3, <1>7 DEF Used
<1>15. d.size = b.size - (LenUpto(s, k) + left)
  BY <1>1, <1>3, <1>6, <1>7 DEF left
<1>16. left \in 0 .. s[k + 1].len - 1
  BY <1>7
<1>17. \A j \in 1 .. Len(d.iov) :
          /\ d.iov[j].base = s[k + j].base
          /\ d.iov[j].len = IF j = 1 THEN s[k + j].len - left ELSE s[k + j].len
  <2> TAKE j \in 1 .. Len(d.iov)
  <2>1. CASE j = 1
    BY <1>3, <1>8, <1>12, <2>1
  <2>2. CASE j > 1
    <3>1. j \in 2 .. Len(s) - k
      BY <1>1, <1>3, <1>4, <1>12, <2>2
    <3> QED
      BY <1>3, <1>12, <2>2, <3>1
  <2> QED
    BY <1>1, <1>3, <1>4, <1>12, <2>1, <2>2
<1> QED
  BY <1>3, <1>4, <1>12, <1>13, <1>14, <1>15, <1>16, <1>17 DEF IsRest, s, k, d, left

LEMMA RestSound ==
  ASSUME NEW h, NEW b, Sound(h, b), NEW d, NEW k, NEW left, IsRest(b, d, k, left)
  PROVE  /\ Sound(h, d)
         /\ Bases(d.iov) = Back(b.iov, k)
<1> DEFINE s == b.iov
           t == d.iov
<1>1. s \in Seq(IovT) /\ Len(s) \in Nat /\ b.size = LenUpto(s, Len(s)) /\ b.pp \in Nat
  BY DEF Sound, BufT
<1>2. /\ t \in Seq(IovT) /\ k \in 0 .. Len(s) - 1 /\ left \in 0 .. s[k + 1].len - 1
      /\ Len(t) = Len(s) - k /\ d \in BufT
      /\ \A j \in 1 .. Len(t) :
            /\ t[j].base = s[k + j].base
            /\ t[j].len = IF j = 1 THEN s[k + j].len - left ELSE s[k + j].len
      /\ d.pp = Used(b, k + 1) + left
      /\ d.size = b.size - (LenUpto(s, k) + left)
  BY DEF IsRest, BufT
<1>3. /\ \A j \in 1 .. Len(s) :
            /\ s[j].len > 0 /\ s[j].base \in DOMAIN h
            /\ Used(b, j) + s[j].len <= Len(h[s[j].base])
      /\ Distinct(s)
  BY DEF Sound
<1>4. \A j \in 1 .. Len(s) : s[j].len \in Nat /\ s[j].base \in Nat
  <2>1. \A j \in 1 .. Len(s) : s[j] \in IovT
    BY <1>1
  <2> QED
    BY <2>1 DEF IovT
<1> HIDE DEF s, t
<1>5. Len(t) \in 1 .. Len(s) /\ left \in Nat
  <2>1. k + 1 \in 1 .. Len(s)
    BY <1>1, <1>2
  <2> QED
    BY <1>1, <1>2, <1>4, <2>1
<1>6. d.size = LenUpto(t, Len(t))
  <2>1. \A j \in 1 .. Len(t) : LenUpto(t, j) = LenUpto(s, k + j) - LenUpto(s, k) - left
    <3>1. t[1].len = s[k + 1].len - left
      BY <1>1, <1>2, <1>5
    <3>2. \A j \in 2 .. Len(t) : t[j].len = s[k + j].len
      BY <1>1, <1>2, <1>5
    <3> QED
      BY <1>1, <1>2, <1>5, <3>1, <3>2, LenUptoRest
  <2>2. LenUpto(t, Len(t)) = LenUpto(s, k + Len(t)) - LenUpto(s, k) - left
    BY <1>5, <2>1
  <2>3. k + Len(t) = Len(s)
    BY <1>1, <1>2
  <2>4. LenUpto(s, k) \in Nat /\ LenUpto(s, Len(s)) \in Nat
    BY <1>1, <1>2, LenUptoIs
  <2> QED
    BY <1>1, <1>2, <1>5, <2>2, <2>3, <2>4
<1>7. \A j \in 1 .. Len(t) : k + j \in 1 .. Len(s)
  BY <1>1, <1>2
<1>8. \A j \in 1 .. Len(t) :
         /\ t[j].len > 0 /\ t[j].base \in DOMAIN h
         /\ Used(d, j) + t[j].len <= Len(h[t[j].base])
  <2> TAKE j \in 1 .. Len(t)
  <2>1. /\ s[k + j].len > 0 /\ s[k + j].base \in DOMAIN h /\ s[k + j].len \in Nat
        /\ Used(b, k + j) + s[k + j].len <= Len(h[s[k + j].base])
        /\ t[j].base = s[k + j].base
        /\ t[j].len = IF j = 1 THEN s[k + j].len - left ELSE s[k + j].len
    BY <1>2, <1>3, <1>4, <1>7
  <2>2. CASE j = 1
    <3>1. t[j].len > 0
      BY <1>2, <1>5, <2>1, <2>2
    <3>2. Used(d, j) + t[j].len = Used(b, k + j) + s[k + j].len
      BY <1>1, <1>2, <1>5, <2>1, <2>2 DEF Used
    <3> QED
      BY <2>1, <3>1, <3>2
  <2>3. CASE j > 1
    BY <1>2, <2>1, <2>3 DEF Used
  <2> QED
    BY <1>5, <2>2, <2>3
<1>9. Distinct(t)
  <2> SUFFICES ASSUME NEW i \in 1 .. Len(t), NEW j \in 1 .. Len(t), t[i].base = t[j].base
               PROVE  i = j
    BY DEF Distinct
  <2>1. s[k + i].base = s[k + j].base
    BY <1>2
  <2>2. k + i = k + j
    BY <1>3, <1>7, <2>1 DEF Distinct
  <2> QED
    BY <1>2, <1>5, <2>2
<1>10. Sound(h, d)
  <2>1. t # <<>>
    BY <1>5
  <2> QED
    BY <1>2, <1>6, <1>8, <1>9, <2>1 DEF Sound, t
<1>11. Bases(t) = {s[j].base : j \in k + 1 .. Len(s)}
  <2>1. ASSUME NEW a \in Bases(t) PROVE a \in {s[j].base : j \in k + 1 .. Len(s)}
    <3>1. PICK j \in 1 .. Len(t) : a = t[j].base
      BY <2>1 DEF Bases
    <3>2. k + j \in k + 1 .. Len(s) /\ a = s[k + j].base
      BY <1>1, <1>2, <3>1
    <3> QED
      BY <3>2
  <2>2. ASSUME NEW j \in k + 1 .. Len(s) PROVE s[j].base \in Bases(t)
    <3>1. j - k \in 1 .. Len(t) /\ k + (j - k) = j
      BY <1>1, <1>2
    <3>2. t[j - k].base = s[j].base
      BY <1>2, <3>1
    <3> QED
      BY <3>1, <3>2 DEF Bases
  <2> QED
    BY <2>1, <2>2
<1>12. Bases(t) = Back(s, k)
  BY <1>11 DEF Back
<1> QED
  BY <1>10, <1>12 DEF s, t

LEMMA FrontIs ==
  ASSUME NEW s \in Seq(IovT), NEW k \in 0 .. Len(s)
  PROVE  /\ SubSeq(s, 1, k) \in Seq(IovT) /\ Len(SubSeq(s, 1, k)) = k
         /\ \A j \in 1 .. k : SubSeq(s, 1, k)[j] = s[j]
         /\ Bases(SubSeq(s, 1, k)) = Front(s, k)
         /\ Bases(s) = Front(s, k) \union Back(s, k)
         /\ Distinct(s) => Front(s, k) \intersect Back(s, k) = {}
<1> DEFINE u == SubSeq(s, 1, k)
<1>1. Len(s) \in Nat /\ k \in Nat /\ k \in Int /\ 1 \in Int
  OBVIOUS
<1>2. \A i \in 1 .. k : s[i] \in IovT
  BY <1>1
<1>3. /\ u \in Seq(IovT) /\ Len(u) = IF 1 <= k THEN k - 1 + 1 ELSE 0
      /\ \A i \in 1 .. k - 1 + 1 : u[i] = s[1 + i - 1]
  BY <1>1, <1>2, SubSeqProperties
<1> HIDE DEF u
<1>4. Len(u) = k /\ k - 1 + 1 = k
  BY <1>1, <1>3
<1>5. \A j \in 1 .. k : u[j] = s[j]
  <2> TAKE j \in 1 .. k
  <2>1. 1 + j - 1 = j
    BY <1>1
  <2>2. u[j] = s[1 + j - 1]
    BY <1>3, <1>4
  <2> QED
    BY <2>1, <2>2
<1>6. Bases(u) = Front(s, k)
  BY <1>4, <1>5 DEF Bases, Front
<1>7. Bases(s) = Front(s, k) \union Back(s, k)
  BY <1>1 DEF Bases, Front, Back
<1>8. ASSUME Distinct(s) PROVE Front(s, k) \intersect Back(s, k) = {}
  BY <1>1, <1>8 DEF Distinct, Front, Back
<1> QED
  BY <1>3, <1>4, <1>5, <1>6, <1>7, <1>8 DEF u

(* Allocation and release.                                                 *)
LEMMA FreshIs ==
  ASSUME NEW h, IsHeap(h)
  PROVE  Fresh(h) \in Nat /\ Fresh(h) \notin DOMAIN h
<1> DEFINE S == DOMAIN h  c == Cardinality(S)
<1>1. IsFiniteSet(S) /\ c \in Nat
  BY FS_CardinalityType DEF IsHeap
<1> HIDE DEF S, c
<1>2. \E a \in 1 .. c + 1 : a \notin S
  <2> SUFFICES ASSUME 1 .. c + 1 \subseteq S PROVE FALSE
    OBVIOUS
  <2>1. Cardinality(1 .. c + 1) <= c
    BY <1>1, FS_Subset DEF c
  <2>2. Cardinality(1 .. c + 1) = c + 1
    <3>1. 1 \in Int /\ c + 1 \in Int
      BY <1>1
    <3>2. Cardinality(1 .. c + 1) = IF 1 > c + 1 THEN 0 ELSE (c + 1) - 1 + 1
      BY <3>1, FS_Interval
    <3> QED
      BY <1>1, <3>2
  <2> QED
    BY <1>1, <2>1, <2>2
<1>3. Fresh(h) \in 1 .. c + 1 /\ Fresh(h) \notin S
  BY <1>2 DEF Fresh, S, c
<1> QED
  BY <1>1, <1>3 DEF S

LEMMA NewIs ==
  ASSUME NEW h, IsHeap(h), NEW data \in Seq(Nat)
  PROVE  /\ IsHeap(New(h, data)) /\ DOMAIN New(h, data) = DOMAIN h \union {Fresh(h)}
         /\ \A a \in DOMAIN h : New(h, data)[a] = h[a]
         /\ New(h, data)[Fresh(h)] = data
<1>1. Fresh(h) \in Nat /\ Fresh(h) \notin DOMAIN h
  BY FreshIs
<1>2. /\ DOMAIN New(h, data) = DOMAIN h \union {Fresh(h)}
      /\ \A a \in DOMAIN h : New(h, data)[a] = h[a]
      /\ New(h, data)[Fresh(h)] = data
  BY <1>1 DEF New
<1>3. IsFiniteSet(DOMAIN h \union {Fresh(h)})
  BY FS_AddElement DEF IsHeap
<1>4. New(h, data) \in [DOMAIN h \union {Fresh(h)} -> Seq(Nat)]
  BY DEF New, IsHeap
<1> QED
  BY <1>1, <1>2, <1>3, <1>4 DEF IsHeap

LEMMA FreeIs ==
  ASSUME NEW h, IsHeap(h), NEW iovs
  PROVE  /\ IsHeap(Free(h, iovs)) /\ DOMAIN Free(h, iovs) = DOMAIN h \ Bases(iovs)
         /\ \A a \in DOMAIN h \ Bases(iovs) : Free(h, iovs)[a] = h[a]
<1>1. /\ DOMAIN Free(h, iovs) = DOMAIN h \ Bases(iovs)
      /\ \A a \in DOMAIN h \ Bases(iovs) : Free(h, iovs)[a] = h[a]
  BY DEF Free, Restrict
<1>2. IsFiniteSet(DOMAIN h \ Bases(iovs))
  BY FS_Subset DEF IsHeap
<1>3. Free(h, iovs) \in [DOMAIN h \ Bases(iovs) -> Seq(Nat)]
  BY DEF Free, Restrict, IsHeap
<1> QED
  BY <1>1, <1>2, <1>3 DEF IsHeap

-----------------------------------------------------------------------------
(* Two chains, and the blocks X of others: together they own the heap.     *)
Owned(h, X, b, c) ==
    /\ IsHeap(h) /\ Sound(h, b) /\ Sound(h, c)
    /\ DOMAIN h = X \union Bases(b.iov) \union Bases(c.iov)
    /\ X \intersect Bases(b.iov) = {} /\ X \intersect Bases(c.iov) = {}
    /\ Bases(b.iov) \intersect Bases(c.iov) = {}

Keeps(h, g, X) == \A a \in X : g[a] = h[a]

LEMMA OwnedSwapped ==
  ASSUME NEW h, NEW X, NEW b, NEW c, Owned(h, X, b, c)
  PROVE  Owned(h, X, c, b)
BY DEF Owned

(* Deleting from one of them.                                              *)
LEMMA DeleteOwned ==
  ASSUME NEW h, NEW X, NEW b, NEW c, Owned(h, X, b, c), NEW n \in Nat
  PROVE  /\ Owned(delete_size_(h, b, n).heap, X, delete_size_(h, b, n).b, c)
         /\ Keeps(h, delete_size_(h, b, n).heap, X)
<1> DEFINE gone == Passed(b, n)
           g == Free(h, gone)
           d == delete_size_for_move_(b, n)
<1>1. delete_size_(h, b, n).heap = g /\ delete_size_(h, b, n).b = d
  BY DEF delete_size_
<1>2. /\ IsHeap(h) /\ Sound(h, b) /\ Sound(h, c)
      /\ DOMAIN h = X \union Bases(b.iov) \union Bases(c.iov)
      /\ X \intersect Bases(b.iov) = {} /\ X \intersect Bases(c.iov) = {}
      /\ Bases(b.iov) \intersect Bases(c.iov) = {}
  BY DEF Owned
<1>3. b.iov \in Seq(IovT) /\ b.size \in Nat /\ Distinct(b.iov)
  BY <1>2 DEF Sound, BufT
<1>4. /\ Sound(h, d) /\ Bases(d.iov) = Bases(b.iov) \ Bases(gone) /\ Bases(gone) \subseteq Bases(b.iov)
  <2>1. CASE n >= b.size
    <3>1. gone = b.iov /\ d = Empty
      BY <2>1 DEF Passed, delete_size_for_move_
    <3> QED
      BY <3>1, EmptySound
  <2>2. CASE n < b.size
    <3> DEFINE k == Whole(b.iov, n)
    <3>1. IsRest(b, d, k, n - LenUpto(b.iov, k))
      BY <1>2, <2>2, DeletedIsRest
    <3>2. k \in 0 .. Len(b.iov)
      BY <1>3, WholeIs
    <3>3. gone = SubSeq(b.iov, 1, k)
      <4>1. ~(n >= b.size)
        BY <1>3, <2>2
      <4> QED
        BY <4>1 DEF Passed
    <3> HIDE DEF k, d, gone
    <3>4. Sound(h, d) /\ Bases(d.iov) = Back(b.iov, k)
      BY <1>2, <3>1, RestSound
    <3>5. Bases(gone) = Front(b.iov, k) /\ Bases(b.iov) = Front(b.iov, k) \union Back(b.iov, k)
          /\ Front(b.iov, k) \intersect Back(b.iov, k) = {}
      BY <1>3, <3>2, <3>3, FrontIs
    <3> QED
      BY <3>4, <3>5
  <2> QED
    BY <1>3, <2>1, <2>2
<1> HIDE DEF gone, d
<1>5. /\ IsHeap(g) /\ DOMAIN g = DOMAIN h \ Bases(gone)
      /\ \A a \in DOMAIN h \ Bases(gone) : g[a] = h[a]
  BY <1>2, FreeIs
<1> HIDE DEF g
<1>6. Sound(g, d)
  <2>1. \A a \in Bases(d.iov) : a \in DOMAIN g /\ g[a] = h[a]
    BY <1>2, <1>4, <1>5
  <2> QED
    BY <1>4, <2>1, SoundFrame
<1>7. Sound(g, c)
  <2>1. \A a \in Bases(c.iov) : a \in DOMAIN g /\ g[a] = h[a]
    BY <1>2, <1>4, <1>5
  <2> QED
    BY <1>2, <2>1, SoundFrame
<1>8. Owned(g, X, d, c)
  BY <1>2, <1>4, <1>5, <1>6, <1>7 DEF Owned
<1>9. Keeps(h, g, X)
  BY <1>2, <1>4, <1>5 DEF Keeps
<1> QED
  BY <1>1, <1>8, <1>9

(* One chain behind another.                                               *)
LEMMA ConcatDistinct ==
  ASSUME NEW s \in Seq(IovT), NEW u \in Seq(IovT)
  PROVE  /\ Bases(s \o u) = Bases(s) \union Bases(u)
         /\ Distinct(s) /\ Distinct(u) /\ Bases(s) \intersect Bases(u) = {} => Distinct(s \o u)
<1> DEFINE w == s \o u
<1>1. Len(s) \in Nat /\ Len(u) \in Nat
  OBVIOUS
<1>2. /\ w \in Seq(IovT) /\ Len(w) = Len(s) + Len(u)
      /\ \A i \in 1 .. Len(s) + Len(u) : w[i] = IF i <= Len(s) THEN s[i] ELSE u[i - Len(s)]
  BY ConcatProperties
<1> HIDE DEF w
<1>3. Bases(w) = Bases(s) \union Bases(u)
  <2>1. ASSUME NEW a \in Bases(w) PROVE a \in Bases(s) \union Bases(u)
    <3>1. PICK k \in 1 .. Len(w) : a = w[k].base
      BY <2>1 DEF Bases
    <3>2. CASE k <= Len(s)
      BY <1>1, <1>2, <3>1, <3>2 DEF Bases
    <3>3. CASE k > Len(s)
      <4>1. k - Len(s) \in 1 .. Len(u) /\ w[k] = u[k - Len(s)]
        BY <1>1, <1>2, <3>3
      <4> QED
        BY <3>1, <4>1 DEF Bases
    <3> QED
      BY <1>1, <1>2, <3>2, <3>3
  <2>2. ASSUME NEW k \in 1 .. Len(s) PROVE s[k].base \in Bases(w)
    <3>1. k \in 1 .. Len(w) /\ w[k] = s[k]
      BY <1>1, <1>2
    <3> QED
      BY <3>1 DEF Bases
  <2>3. ASSUME NEW k \in 1 .. Len(u) PROVE u[k].base \in Bases(w)
    <3>1. k + Len(s) \in 1 .. Len(w)
      BY <1>1, <1>2
    <3>2. ~(k + Len(s) <= Len(s)) /\ (k + Len(s)) - Len(s) = k
      BY <1>1
    <3>3. w[k + Len(s)] = u[k]
      BY <1>2, <3>1, <3>2
    <3> QED
      BY <3>1, <3>3 DEF Bases
  <2>4. ASSUME NEW a \in Bases(s) PROVE a \in Bases(w)
    BY <2>2, <2>4 DEF Bases
  <2>5. ASSUME NEW a \in Bases(u) PROVE a \in Bases(w)
    BY <2>3, <2>5 DEF Bases
  <2> QED
    BY <2>1, <2>4, <2>5
<1>4. ASSUME Distinct(s), Distinct(u), Bases(s) \intersect Bases(u) = {} PROVE Distinct(w)
  <2> SUFFICES ASSUME NEW i \in 1 .. Len(w), NEW j \in 1 .. Len(w), w[i].base = w[j].base
               PROVE  i = j
    BY DEF Distinct
  <2>1. CASE i <= Len(s) /\ j <= Len(s)
    <3>1. i \in 1 .. Len(s) /\ j \in 1 .. Len(s) /\ s[i].base = s[j].base
      BY <1>1, <1>2, <2>1
    <3> QED
      BY <1>1, <1>4, <3>1 DEF Distinct
  <2>2. CASE i > Len(s) /\ j > Len(s)
    <3>1. /\ i - Len(s) \in 1 .. Len(u) /\ j - Len(s) \in 1 .. Len(u)
          /\ u[i - Len(s)].base = u[j - Len(s)].base
      BY <1>1, <1>2, <2>2
    <3>2. i - Len(s) = j - Len(s)
      BY <1>4, <3>1 DEF Distinct
    <3> QED
      BY <1>1, <1>2, <3>2
  <2>3. CASE i <= Len(s) /\ j > Len(s)
    <3>1. i \in 1 .. Len(s) /\ j - Len(s) \in 1 .. Len(u) /\ s[i].base = u[j - Len(s)].base
      BY <1>1, <1>2, <2>3
    <3> QED
      BY <1>4, <3>1 DEF Bases
  <2>4. CASE i > Len(s) /\ j <= Len(s)
    <3>1. j \in 1 .. Len(s) /\ i - Len(s) \in 1 .. Len(u) /\ s[j].base = u[i - Len(s)].base
      BY <1>1, <1>2, <2>4
    <3> QED
      BY <1>4, <3>1 DEF Bases
  <2> QED
    BY <1>1, <1>2, <2>1, <2>2, <2>3, <2>4
<1> QED
  BY <1>3, <1>4 DEF w

(* More blocks behind a chain.                                             *)
LEMMA ExtendedSound ==
  ASSUME NEW h, NEW c, Sound(h, c), NEW u \in Seq(IovT),
         \A k \in 1 .. Len(u) : /\ u[k].len > 0 /\ u[k].base \in DOMAIN h
                                /\ u[k].len <= Len(h[u[k].base]),
         Distinct(u), Bases(c.iov) \intersect Bases(u) = {}
  PROVE  /\ Sound(h, Extended(c, u, LenUpto(u, Len(u))))
         /\ Bases(Extended(c, u, LenUpto(u, Len(u))).iov) = Bases(c.iov) \union Bases(u)
<1> DEFINE s == c.iov
           w == s \o u
           m == LenUpto(u, Len(u))
           d == Extended(c, u, m)
<1>1. /\ c \in BufT /\ s \in Seq(IovT) /\ Len(s) \in Nat /\ Len(u) \in Nat
      /\ c.size = LenUpto(s, Len(s)) /\ c.size \in Nat /\ c.pp \in Nat /\ (s = <<>> => c.pp = 0)
      /\ Distinct(s)
      /\ \A k \in 1 .. Len(s) :
            /\ s[k].len > 0 /\ s[k].base \in DOMAIN h
            /\ Used(c, k) + s[k].len <= Len(h[s[k].base])
  BY DEF Sound, BufT
<1>3. m \in Nat
  BY <1>1, LenUptoIs
<1> HIDE DEF m
<1>2. /\ d.iov = w /\ d.size = c.size + m /\ d.pp = c.pp
      /\ d = [iov |-> d.iov, size |-> d.size, pp |-> d.pp]
  <2>1. c = [iov |-> s, size |-> c.size, pp |-> c.pp]
    BY <1>1 DEF BufT
  <2>2. d = [c EXCEPT !.iov = w, !.size = c.size + m]
    BY DEF Extended
  <2> HIDE DEF s, w, d
  <2> QED
    BY <2>1, <2>2
<1> HIDE DEF s, w, d
<1>4. /\ w \in Seq(IovT) /\ Len(w) = Len(s) + Len(u)
      /\ \A i \in 1 .. Len(s) + Len(u) : w[i] = IF i <= Len(s) THEN s[i] ELSE u[i - Len(s)]
  BY <1>1, ConcatProperties DEF w
<1>5. d \in BufT
  BY <1>1, <1>2, <1>3, <1>4 DEF BufT
<1>6. d.size = LenUpto(w, Len(w))
  <2>1. LenUpto(w, Len(s) + Len(u)) = LenUpto(s, Len(s)) + m
    <3>1. Len(u) \in 0 .. Len(u)
      BY <1>1
    <3> QED
      BY <1>1, <3>1, LenUptoConcat DEF w, m
  <2> QED
    BY <1>1, <1>2, <1>4, <2>1
<1>7. ASSUME NEW k \in 1 .. Len(w)
      PROVE  /\ w[k].len > 0 /\ w[k].base \in DOMAIN h
             /\ Used(d, k) + w[k].len <= Len(h[w[k].base])
  <2>1. CASE k <= Len(s)
    <3>1. k \in 1 .. Len(s) /\ w[k] = s[k] /\ Used(d, k) = Used(c, k)
      BY <1>1, <1>2, <1>4, <2>1 DEF Used
    <3> QED
      BY <1>1, <3>1
  <2>2. CASE k > Len(s)
    <3>1. k - Len(s) \in 1 .. Len(u) /\ w[k] = u[k - Len(s)]
      BY <1>1, <1>4, <2>2
    <3>2. Used(d, k) = 0
      <4>1. CASE k = 1
        <5>1. s = <<>>
          BY <1>1, <2>2, <4>1, EmptySeq
        <5> QED
          BY <1>1, <1>2, <4>1, <5>1 DEF Used
      <4> QED
        BY <4>1 DEF Used
    <3>3. u[k - Len(s)].len \in Nat
      <4>1. u[k - Len(s)] \in IovT
        BY <3>1
      <4> QED
        BY <4>1 DEF IovT
    <3> QED
      BY <3>1, <3>2, <3>3
  <2> QED
    BY <1>1, <1>4, <2>1, <2>2
<1>8. Bases(w) = Bases(s) \union Bases(u)
  BY <1>1, ConcatDistinct DEF w
<1>9. Distinct(w)
  BY <1>1, ConcatDistinct DEF w, s
<1>10. d.iov = <<>> => d.pp = 0
  <2> SUFFICES ASSUME d.iov = <<>> PROVE d.pp = 0
    OBVIOUS
  <2>1. Len(w) = 0
    BY <1>2
  <2>2. Len(s) = 0
    BY <1>1, <1>4, <2>1
  <2>3. s = <<>>
    BY <1>1, <2>2
  <2> QED
    BY <1>1, <1>2, <2>3
<1> QED
  BY <1>2, <1>5, <1>6, <1>7, <1>8, <1>9, <1>10 DEF Sound, s, d, m

(* A new block behind one of two chains.                                   *)
LEMMA PushOwned ==
  ASSUME NEW h, NEW X, NEW b, NEW c, Owned(h, X, b, c), NEW data \in Seq(Nat), data # <<>>
  PROVE  /\ Owned(New(h, data), X, b, push_back(c, Iov(Fresh(h), Len(data))))
         /\ Keeps(h, New(h, data), X)
<1> DEFINE g == New(h, data)
           v == Iov(Fresh(h), Len(data))
           u == <<v>>
           a == Fresh(h)
<1>1. /\ IsHeap(h) /\ Sound(h, b) /\ Sound(h, c)
      /\ DOMAIN h = X \union Bases(b.iov) \union Bases(c.iov)
      /\ X \intersect Bases(b.iov) = {} /\ X \intersect Bases(c.iov) = {}
      /\ Bases(b.iov) \intersect Bases(c.iov) = {}
  BY DEF Owned
<1>2. Len(data) \in Nat /\ Len(data) > 0
  BY EmptySeq
<1>3. a \in Nat /\ a \notin DOMAIN h
  BY <1>1, FreshIs
<1>4. /\ IsHeap(g) /\ DOMAIN g = DOMAIN h \union {a} /\ g[a] = data
      /\ \A x \in DOMAIN h : g[x] = h[x]
  BY <1>1, NewIs
<1>5. v \in IovT /\ v.base = a /\ v.len = Len(data)
  BY <1>2, <1>3 DEF Iov, IovT
<1>6. c \in BufT /\ c.iov \in Seq(IovT) /\ c.size \in Nat
  BY <1>1 DEF Sound, BufT
<1> HIDE DEF a, v, g
<1>7. push_back(c, v) = Extended(c, u, v.len)
  BY <1>5, <1>6, AppendIsConcat DEF push_back, Extended
<1>8. u \in Seq(IovT) /\ Len(u) = 1 /\ u[1] = v
  BY <1>5
<1>9. Bases(u) = {a}
  BY <1>5, <1>8 DEF Bases
<1> HIDE DEF u
<1>10. v.len = LenUpto(u, Len(u))
  <2>1. /\ \A k \in 1 .. Len(u) : LenUpto(u, k) = LenUpto(u, k - 1) + u[k].len
        /\ LenUpto(u, 0) = 0
    BY <1>8, LenUptoIs
  <2>2. 1 \in 1 .. Len(u) /\ 1 - 1 = 0
    BY <1>8
  <2>3. LenUpto(u, 1) = LenUpto(u, 0) + u[1].len
    BY <2>1, <2>2
  <2> QED
    BY <1>2, <1>5, <1>8, <2>1, <2>3
<1>11. Distinct(u)
  BY <1>8 DEF Distinct
<1>12. Sound(g, b) /\ Sound(g, c)
  <2>1. \A x \in Bases(b.iov) : x \in DOMAIN g /\ g[x] = h[x]
    BY <1>1, <1>4
  <2>2. \A x \in Bases(c.iov) : x \in DOMAIN g /\ g[x] = h[x]
    BY <1>1, <1>4
  <2> QED
    BY <1>1, <2>1, <2>2, SoundFrame
<1>13. \A k \in 1 .. Len(u) : /\ u[k].len > 0 /\ u[k].base \in DOMAIN g
                              /\ u[k].len <= Len(g[u[k].base])
  <2>1. \A k \in 1 .. Len(u) : u[k] = v
    BY <1>8
  <2> QED
    BY <1>2, <1>4, <1>5, <2>1
<1>14. Bases(c.iov) \intersect Bases(u) = {}
  BY <1>1, <1>3, <1>9
<1>15. /\ Sound(g, Extended(c, u, v.len))
       /\ Bases(Extended(c, u, v.len).iov) = Bases(c.iov) \union Bases(u)
  <2>1. /\ Sound(g, Extended(c, u, LenUpto(u, Len(u))))
        /\ Bases(Extended(c, u, LenUpto(u, Len(u))).iov) = Bases(c.iov) \union Bases(u)
    <3>1. u \in Seq(IovT) /\ Sound(g, c)
      BY <1>8, <1>12
    <3> QED
      BY <1>11, <1>13, <1>14, <3>1, ExtendedSound
  <2> QED
    BY <1>10, <2>1
<1>16. Owned(g, X, b, Extended(c, u, v.len))
  BY <1>1, <1>3, <1>4, <1>9, <1>12, <1>15 DEF Owned
<1>17. Keeps(h, g, X)
  BY <1>1, <1>4 DEF Keeps
<1> QED
  BY <1>7, <1>16, <1>17 DEF g, v, a

-----------------------------------------------------------------------------
(* Moving.                                                                 *)
LEMMA SliceIs ==
  ASSUME NEW h, IsHeap(h), NEW b, Sound(h, b), NEW k \in 1 .. Len(b.iov),
         NEW n \in 0 .. b.iov[k].len
  PROVE  /\ SubSeq(Slice(h, b, k), 1, n) \in Seq(Nat) /\ Len(SubSeq(Slice(h, b, k), 1, n)) = n
         /\ Slice(h, b, k) \in Seq(Nat) /\ Len(Slice(h, b, k)) = b.iov[k].len
<1> DEFINE w == h[b.iov[k].base]
           u == Used(b, k)
           len == b.iov[k].len
           s == Slice(h, b, k)
<1>1. b.iov \in Seq(IovT) /\ b.pp \in Nat
  BY DEF Sound, BufT
<1>2. len \in Nat
  <2>1. b.iov[k] \in IovT
    BY <1>1
  <2> QED
    BY <2>1 DEF IovT
<1>3. w \in Seq(Nat) /\ u + len <= Len(w)
  BY DEF Sound, IsHeap
<1>4. u \in Nat
  BY <1>1 DEF Used
<1>5. s = SubSeq(w, u + 1, u + len)
  BY DEF Slice, Used
<1>6. n \in Nat /\ n <= len /\ Len(w) \in Nat
  BY <1>2, <1>3
<1> HIDE DEF w, u, len, s
<1>7. s \in Seq(Nat) /\ Len(s) = len
  <2>1. \A i \in u + 1 .. u + len : w[i] \in Nat
    BY <1>2, <1>3, <1>4, <1>6
  <2>2. u + 1 \in Int /\ u + len \in Int
    BY <1>2, <1>4
  <2>3. s \in Seq(Nat) /\ Len(s) = IF u + 1 <= u + len THEN (u + len) - (u + 1) + 1 ELSE 0
    BY <1>5, <2>1, <2>2, SubSeqProperties
  <2> QED
    BY <1>2, <1>4, <2>3
<1>8. SubSeq(s, 1, n) \in Seq(Nat) /\ Len(SubSeq(s, 1, n)) = n
  <2>1. \A i \in 1 .. n : s[i] \in Nat
    BY <1>2, <1>6, <1>7
  <2>2. 1 \in Int /\ n \in Int
    BY <1>6
  <2>3. /\ SubSeq(s, 1, n) \in Seq(Nat)
        /\ Len(SubSeq(s, 1, n)) = IF 1 <= n THEN n - 1 + 1 ELSE 0
    BY <2>1, <2>2, SubSeqProperties
  <2> QED
    BY <1>6, <2>3
<1> QED
  BY <1>7, <1>8 DEF s, len

(* A copy of the front of a block of any chain, behind one of two chains.  *)
LEMMA CopyOwned ==
  ASSUME NEW h, NEW X, NEW b, NEW c, Owned(h, X, b, c),
         NEW from, Sound(h, from), NEW k \in 1 .. Len(from.iov), NEW n \in 1 .. from.iov[k].len
  PROVE  /\ Owned(copy(h, from, c, k, n).heap, X, b, copy(h, from, c, k, n).to)
         /\ Keeps(h, copy(h, from, c, k, n).heap, X)
         /\ \A x \in DOMAIN h : /\ x \in DOMAIN copy(h, from, c, k, n).heap
                                /\ copy(h, from, c, k, n).heap[x] = h[x]
<1> DEFINE data == SubSeq(Slice(h, from, k), 1, n)
<1>1. IsHeap(h)
  BY DEF Owned
<1>2. n \in 0 .. from.iov[k].len /\ n > 0
  OBVIOUS
<1>3. data \in Seq(Nat) /\ Len(data) = n
  BY <1>1, <1>2, SliceIs
<1>4. /\ copy(h, from, c, k, n).heap = New(h, data)
      /\ copy(h, from, c, k, n).to = push_back(c, Iov(Fresh(h), n))
  BY DEF copy
<1> HIDE DEF data
<1>5. data # <<>>
  BY <1>2, <1>3
<1>6. /\ Owned(New(h, data), X, b, push_back(c, Iov(Fresh(h), Len(data))))
      /\ Keeps(h, New(h, data), X)
  BY <1>3, <1>5, PushOwned
<1>7. \A x \in DOMAIN h : x \in DOMAIN New(h, data) /\ New(h, data)[x] = h[x]
  BY <1>1, <1>3, NewIs
<1> QED
  BY <1>3, <1>4, <1>6, <1>7

(* What is left of a chain when n bytes leave it without being freed.      *)
LEMMA LeftSound ==
  ASSUME NEW h, NEW b, Sound(h, b), NEW n \in 0 .. b.size
  PROVE  LET d == delete_size_for_move_(b, n)
             k == Whole(b.iov, n)
             left == n - LenUpto(b.iov, k)
         IN  /\ Sound(h, d) /\ Bases(d.iov) = Back(b.iov, k) /\ k \in 0 .. Len(b.iov)
             /\ left \in Nat /\ (left # 0 => k + 1 \in 1 .. Len(b.iov) /\ left \in 1 .. b.iov[k + 1].len)
             /\ n < b.size => d.size = b.size - n /\ d.pp = Used(b, k + 1) + left
<1> DEFINE s == b.iov
           d == delete_size_for_move_(b, n)
           k == Whole(s, n)
           left == n - LenUpto(s, k)
<1>1. /\ s \in Seq(IovT) /\ Len(s) \in Nat /\ b.size \in Nat /\ n \in Nat /\ n <= b.size
      /\ b.size = LenUpto(s, Len(s)) /\ \A i \in 1 .. Len(s) : s[i].len > 0
  BY DEF Sound, BufT
<1>2. k \in 0 .. Len(s) /\ LenUpto(s, k) <= n /\ (k = Len(s) \/ LenUpto(s, k + 1) > n)
  BY <1>1, WholeIs
<1>3. LenUpto(s, k) \in Nat
  BY <1>1, <1>2, LenUptoIs
<1>4. CASE n < b.size
  <2>1. IsRest(b, d, k, left)
    BY <1>1, <1>4, DeletedIsRest
  <2> HIDE DEF d, k
  <2>2. Sound(h, d) /\ Bases(d.iov) = Back(s, k)
    BY <2>1, RestSound
  <2>3. /\ k \in 0 .. Len(s) - 1 /\ left \in 0 .. s[k + 1].len - 1
        /\ d.pp = Used(b, k + 1) + left
        /\ d.size = b.size - (LenUpto(s, k) + left)
    BY <2>1 DEF IsRest
  <2>4. d.size = b.size - n
    BY <1>1, <1>3, <2>3
  <2>5. k + 1 \in 1 .. Len(s)
    BY <1>1, <2>3
  <2>6. s[k + 1].len \in Nat
    <3>1. s[k + 1] \in IovT
      BY <1>1, <2>5
    <3> QED
      BY <3>1 DEF IovT
  <2>7. left \in Nat /\ (left # 0 => left \in 1 .. s[k + 1].len)
    BY <2>3, <2>6
  <2> QED
    BY <1>2, <2>2, <2>3, <2>4, <2>5, <2>7 DEF d, k
<1>5. CASE n = b.size
  <2>1. d = Empty
    BY <1>1, <1>5 DEF delete_size_for_move_
  <2> HIDE DEF d, k
  <2>2. k = Len(s)
    <3> SUFFICES ASSUME k # Len(s) PROVE FALSE
      OBVIOUS
    <3>1. k + 1 \in 0 .. Len(s) /\ Len(s) \in k + 1 .. Len(s)
      BY <1>1, <1>2
    <3>2. LenUpto(s, k + 1) <= LenUpto(s, Len(s))
      BY <1>1, <3>1, LenUptoGrows
    <3>3. LenUpto(s, k + 1) \in Nat
      BY <1>1, <3>1, LenUptoIs
    <3> QED
      BY <1>1, <1>2, <1>5, <3>2, <3>3
  <2>3. left = 0 /\ Back(s, k) = {}
    BY <1>1, <1>3, <1>5, <2>2 DEF Back
  <2>4. Sound(h, d) /\ Bases(d.iov) = {}
    BY <2>1, EmptySound
  <2> QED
    BY <1>1, <1>2, <1>5, <2>3, <2>4 DEF d, k
<1> QED
  BY <1>1, <1>4, <1>5

(* Whole blocks change hands.                                              *)
LEMMA GivenOwned ==
  ASSUME NEW h, NEW X, NEW b, NEW c, Owned(h, X, b, c), b.pp = 0, NEW n \in 0 .. b.size
  PROVE  LET k == Whole(b.iov, n)
             left == n - LenUpto(b.iov, k)
             given == Extended(c, SubSeq(b.iov, 1, k), n - left)
         IN  Owned(h, X, delete_size_for_move_(b, n), given)
<1> DEFINE s == b.iov
           d == delete_size_for_move_(b, n)
           k == Whole(s, n)
           left == n - LenUpto(s, k)
           u == SubSeq(s, 1, k)
           given == Extended(c, u, n - left)
<1>1. /\ IsHeap(h) /\ Sound(h, b) /\ Sound(h, c)
      /\ DOMAIN h = X \union Bases(s) \union Bases(c.iov)
      /\ X \intersect Bases(s) = {} /\ X \intersect Bases(c.iov) = {}
      /\ Bases(s) \intersect Bases(c.iov) = {}
  BY DEF Owned
<1>2. /\ s \in Seq(IovT) /\ Len(s) \in Nat /\ b.size \in Nat /\ n \in Nat /\ Distinct(s)
      /\ \A j \in 1 .. Len(s) :
            /\ s[j].len > 0 /\ s[j].base \in DOMAIN h
            /\ Used(b, j) + s[j].len <= Len(h[s[j].base])
      /\ c \in BufT /\ c.size \in Nat
  BY <1>1 DEF Sound, BufT
<1>3. Sound(h, d) /\ Bases(d.iov) = Back(s, k) /\ k \in 0 .. Len(s)
  BY <1>1, LeftSound
<1>4. LenUpto(s, k) \in Nat
  BY <1>2, <1>3, LenUptoIs
<1> HIDE DEF s, d, k
<1>5. /\ u \in Seq(IovT) /\ Len(u) = k /\ \A j \in 1 .. k : u[j] = s[j]
      /\ Bases(u) = Front(s, k) /\ Bases(s) = Front(s, k) \union Back(s, k)
      /\ Front(s, k) \intersect Back(s, k) = {}
  BY <1>2, <1>3, FrontIs
<1> HIDE DEF u
<1>6. LenUpto(u, Len(u)) = n - left
  <2>1. \A j \in 0 .. k : LenUpto(s, j) = LenUpto(u, j)
    <3>1. \A j \in 1 .. k : s[j].len = u[j].len
      BY <1>5
    <3>2. k <= Len(u)
      BY <1>2, <1>3, <1>5
    <3> QED
      BY <1>2, <1>3, <1>5, <3>1, <3>2, LenUptoSame
  <2>2. LenUpto(u, k) = LenUpto(s, k)
    BY <1>2, <1>3, <2>1
  <2> QED
    BY <1>2, <1>4, <1>5, <2>2
<1>7. given = Extended(c, u, n - left)
  OBVIOUS
<1>8. /\ Sound(h, Extended(c, u, LenUpto(u, Len(u))))
      /\ Bases(Extended(c, u, LenUpto(u, Len(u))).iov) = Bases(c.iov) \union Bases(u)
  <2>1. \A j \in 1 .. Len(u) : /\ u[j].len > 0 /\ u[j].base \in DOMAIN h
                               /\ u[j].len <= Len(h[u[j].base])
    <3> TAKE j \in 1 .. Len(u)
    <3>1. j \in 1 .. Len(s) /\ u[j] = s[j]
      BY <1>2, <1>3, <1>5
    <3>2. s[j].len \in Nat
      <4>1. s[j] \in IovT
        BY <1>2, <3>1
      <4> QED
        BY <4>1 DEF IovT
    <3>3. Used(b, j) = 0
      BY DEF Used
    <3> QED
      BY <1>2, <3>1, <3>2, <3>3
  <2>2. Distinct(u)
    <3> SUFFICES ASSUME NEW i \in 1 .. Len(u), NEW j \in 1 .. Len(u), u[i].base = u[j].base
                 PROVE  i = j
      BY DEF Distinct
    <3>1. i \in 1 .. Len(s) /\ j \in 1 .. Len(s) /\ s[i].base = s[j].base
      BY <1>2, <1>3, <1>5
    <3> QED
      BY <1>2, <3>1 DEF Distinct
  <2>3. Bases(c.iov) \intersect Bases(u) = {}
    BY <1>1, <1>5
  <2>4. u \in Seq(IovT) /\ Sound(h, c)
    BY <1>1, <1>5
  <2> QED
    BY <2>1, <2>2, <2>3, <2>4, ExtendedSound
<1>9. Sound(h, given) /\ Bases(given.iov) = Bases(c.iov) \union Bases(u)
  BY <1>6, <1>7, <1>8
<1> HIDE DEF given
<1>10. Owned(h, X, d, given)
  BY <1>1, <1>3, <1>5, <1>9 DEF Owned
<1> QED
  BY <1>10 DEF s, d, k, u, given

LEMMA NonpartialOwned ==
  ASSUME NEW h, NEW X, NEW b, NEW c, Owned(h, X, b, c), b.pp = 0, NEW n \in 0 .. b.size
  PROVE  /\ Owned(move_nonpartial_case_(h, b, c, n).heap, X,
                  move_nonpartial_case_(h, b, c, n).from, move_nonpartial_case_(h, b, c, n).to)
         /\ Keeps(h, move_nonpartial_case_(h, b, c, n).heap, X)
<1> DEFINE d == delete_size_for_move_(b, n)
           k == Whole(b.iov, n)
           left == n - LenUpto(b.iov, k)
           given == Extended(c, SubSeq(b.iov, 1, k), n - left)
           m == move_nonpartial_case_(h, b, c, n)
           to == copy(h, b, given, k + 1, left)
<1>1. Owned(h, X, d, given)
  BY GivenOwned
<1>2. Sound(h, b)
  BY DEF Owned
<1>3. left # 0 => k + 1 \in 1 .. Len(b.iov) /\ left \in 1 .. b.iov[k + 1].len
  BY <1>2, LeftSound
<1>4. /\ m.from = d
      /\ left = 0 => m.heap = h /\ m.to = given
      /\ left # 0 => m.heap = to.heap /\ m.to = to.to
  BY DEF move_nonpartial_case_, Give
<1> HIDE DEF d, k, left, given, m
<1>5. CASE left = 0
  BY <1>1, <1>4, <1>5 DEF m, Keeps
<1>6. CASE left # 0
  <2>1. Owned(to.heap, X, d, to.to) /\ Keeps(h, to.heap, X)
    BY <1>1, <1>2, <1>3, <1>6, CopyOwned
  <2> HIDE DEF to
  <2> QED
    BY <1>4, <1>6, <2>1 DEF m
<1> QED
  BY <1>5, <1>6

(* The first block goes when a deletion reaches its end, and not before.   *)
LEMMA FirstBlock ==
  ASSUME NEW h, NEW b, Sound(h, b), b.iov # <<>>, NEW n \in Nat, n <= b.size
  PROVE  /\ b.iov[1].len \in Nat /\ b.iov[1].len > 0 /\ b.iov[1].len <= b.size /\ Len(b.iov) > 0
         /\ n < b.iov[1].len => Whole(b.iov, n) = 0
         /\ n = b.iov[1].len => Whole(b.iov, n) = 1 /\ LenUpto(b.iov, 1) = n
<1> DEFINE s == b.iov
           k == Whole(s, n)
<1>1. /\ s \in Seq(IovT) /\ Len(s) \in Nat /\ b.size \in Nat /\ b.size = LenUpto(s, Len(s))
      /\ \A j \in 1 .. Len(s) : s[j].len > 0
  BY DEF Sound, BufT
<1>2. Len(s) > 0
  BY <1>1, EmptySeq
<1>3. k \in 0 .. Len(s) /\ LenUpto(s, k) <= n /\ (k = Len(s) \/ LenUpto(s, k + 1) > n)
  BY <1>1, WholeIs
<1>4. 1 \in 1 .. Len(s) /\ s[1] \in IovT
  BY <1>1, <1>2
<1>5. s[1].len \in Nat /\ s[1].len > 0
  BY <1>1, <1>4 DEF IovT
<1> HIDE DEF s, k
<1>6. LenUpto(s, 1) = s[1].len /\ LenUpto(s, 0) = 0 /\ LenUpto(s, k) \in Nat
  <2>1. LenUpto(s, 1) = LenUpto(s, 1 - 1) + s[1].len /\ LenUpto(s, 0) = 0
    BY <1>1, <1>4, LenUptoIs
  <2>2. LenUpto(s, k) \in Nat
    BY <1>1, <1>3, LenUptoIs
  <2> QED
    BY <1>5, <2>1, <2>2
<1>7. ASSUME NEW j \in 1 .. Len(s)
      PROVE  LenUpto(s, j) \in Nat /\ LenUpto(s, j) - s[1].len >= j - 1 /\ LenUpto(s, j) >= s[1].len
  <2>1. 1 \in 0 .. Len(s) /\ j \in 0 .. Len(s)
    BY <1>1, <1>2
  <2> QED
    BY <1>1, <1>6, <2>1, LenUptoGrows, LenUptoIs
<1>8. s[1].len <= b.size
  <2>1. Len(s) \in 1 .. Len(s)
    BY <1>1, <1>2
  <2> QED
    BY <1>1, <1>5, <1>7, <2>1
<1>9. ASSUME n < s[1].len PROVE k = 0
  <2> SUFFICES ASSUME k # 0 PROVE FALSE
    OBVIOUS
  <2>1. k \in 1 .. Len(s)
    BY <1>1, <1>3
  <2>2. LenUpto(s, k) \in Nat /\ LenUpto(s, k) >= s[1].len
    BY <1>7, <2>1
  <2> QED
    BY <1>3, <1>5, <1>9, <2>2
<1>10. ASSUME n = s[1].len PROVE k = 1
  <2>1. k # 0
    <3> SUFFICES ASSUME k = 0 PROVE FALSE
      OBVIOUS
    <3>1. k + 1 = 1
      OBVIOUS
    <3>2. LenUpto(s, 1) > n
      BY <1>2, <1>3, <3>1
    <3> QED
      BY <1>5, <1>6, <1>10, <3>2
  <2>2. k \in 1 .. Len(s)
    BY <1>1, <1>3, <2>1
  <2>3. LenUpto(s, k) \in Nat /\ LenUpto(s, k) - s[1].len >= k - 1
    BY <1>7, <2>2
  <2> QED
    BY <1>1, <1>3, <1>5, <1>10, <2>2, <2>3
<1> QED
  BY <1>2, <1>5, <1>6, <1>8, <1>9, <1>10 DEF s, k

LEMMA PartialOwned ==
  ASSUME NEW h, NEW X, NEW b, NEW c, Owned(h, X, b, c), b.pp > 0, NEW n \in 1 .. b.size
  PROVE  /\ Owned(move_partial_case_(h, b, c, n).heap, X,
                  move_partial_case_(h, b, c, n).from, move_partial_case_(h, b, c, n).to)
         /\ Keeps(h, move_partial_case_(h, b, c, n).heap, X)
<1> DEFINE first == b.iov[1].len
           m == move_partial_case_(h, b, c, n)
<1>1. Sound(h, b) /\ b.iov # <<>> /\ b.size \in Nat /\ b.iov \in Seq(IovT) /\ n \in Nat /\ n <= b.size
  BY DEF Owned, Sound, BufT
<1>2. first \in Nat /\ first > 0 /\ first <= b.size /\ Len(b.iov) > 0 /\ 1 \in 1 .. Len(b.iov)
  <2>1. first \in Nat /\ first > 0 /\ first <= b.size /\ Len(b.iov) > 0
    BY <1>1, FirstBlock
  <2> QED
    BY <1>1, <2>1
<1>3. CASE n < first
  <2> DEFINE o == copy(h, b, c, 1, n)
             d == delete_size_for_move_(b, n)
  <2>1. m.heap = o.heap /\ m.to = o.to /\ m.from = d
    BY <1>3 DEF move_partial_case_
  <2>2. n \in 1 .. first
    BY <1>2, <1>3
  <2>3. /\ Owned(o.heap, X, b, o.to) /\ Keeps(h, o.heap, X)
        /\ \A x \in DOMAIN h : x \in DOMAIN o.heap /\ o.heap[x] = h[x]
    BY <1>1, <1>2, <2>2, CopyOwned
  <2> HIDE DEF o, m
  <2>4. Sound(o.heap, d) /\ Bases(d.iov) = Back(b.iov, Whole(b.iov, n))
    <3>1. Sound(o.heap, b) /\ n \in 0 .. b.size
      BY <1>1, <2>3 DEF Owned
    <3> QED
      BY <3>1, LeftSound
  <2>5. Whole(b.iov, n) = 0
    BY <1>1, <1>3, FirstBlock
  <2>6. Bases(d.iov) = Bases(b.iov)
    <3>1. Back(b.iov, 0) = Bases(b.iov)
      BY DEF Back, Bases
    <3> QED
      BY <2>4, <2>5, <3>1
  <2> HIDE DEF d
  <2>7. Owned(o.heap, X, d, o.to)
    BY <2>3, <2>4, <2>6 DEF Owned
  <2> QED
    BY <2>1, <2>3, <2>7 DEF m
<1>4. CASE n >= first
  <2> DEFINE o == copy(h, b, c, 1, first)
             d == delete_size_(o.heap, b, first)
  <2>1. /\ n = first => m.heap = d.heap /\ m.to = o.to /\ m.from = d.b
        /\ n # first => m = move_nonpartial_case_(d.heap, d.b, o.to, n - first)
    <3>1. ~(n < first)
      BY <1>1, <1>2, <1>4
    <3> QED
      BY <3>1 DEF move_partial_case_
  <2>2. Owned(o.heap, X, b, o.to) /\ Keeps(h, o.heap, X)
    <3>1. first \in 1 .. first
      BY <1>2
    <3> QED
      BY <1>1, <1>2, <3>1, CopyOwned
  <2>3. d.b = delete_size_for_move_(b, first)
    BY DEF delete_size_
  <2> HIDE DEF o
  <2>4. Owned(d.heap, X, d.b, o.to) /\ Keeps(o.heap, d.heap, X)
    BY <1>2, <2>2, DeleteOwned
  <2>5. Keeps(h, d.heap, X)
    BY <2>2, <2>4 DEF Keeps
  <2>6. CASE n = first
    BY <2>1, <2>4, <2>5, <2>6
  <2>7. CASE n # first
    <3>1. first \in 0 .. b.size /\ first < b.size
      BY <1>1, <1>2, <1>4, <2>7
    <3>2. Whole(b.iov, first) = 1 /\ LenUpto(b.iov, 1) = first
      BY <1>1, <1>2, FirstBlock
    <3>3. /\ delete_size_for_move_(b, first).size = b.size - first
          /\ delete_size_for_move_(b, first).pp
                = Used(b, Whole(b.iov, first) + 1) + (first - LenUpto(b.iov, Whole(b.iov, first)))
      BY <1>1, <3>1, LeftSound
    <3>4. d.b.size = b.size - first /\ d.b.pp = 0
      BY <1>2, <2>3, <3>2, <3>3 DEF Used
    <3>5. n - first \in 0 .. d.b.size
      BY <1>1, <1>2, <1>4, <3>4
    <3> DEFINE e == move_nonpartial_case_(d.heap, d.b, o.to, n - first)
    <3> HIDE DEF d, m
    <3>6. Owned(e.heap, X, e.from, e.to) /\ Keeps(d.heap, e.heap, X)
      BY <2>4, <3>4, <3>5, NonpartialOwned
    <3> HIDE DEF e
    <3>7. Keeps(h, e.heap, X)
      BY <2>5, <3>6 DEF Keeps
    <3> QED
      BY <2>1, <2>7, <3>6, <3>7 DEF m, e
  <2> QED
    BY <2>6, <2>7
<1> QED
  BY <1>1, <1>2, <1>3, <1>4

LEMMA MovedOwned ==
  ASSUME NEW h, NEW X, NEW b, NEW c, Owned(h, X, b, c), NEW n \in 1 .. b.size
  PROVE  /\ Owned(Moved(h, b, c, n).heap, X, Moved(h, b, c, n).from, Moved(h, b, c, n).to)
         /\ Keeps(h, Moved(h, b, c, n).heap, X)
<1>1. b.pp \in Nat /\ b.size \in Nat /\ n \in 0 .. b.size
  BY DEF Owned, Sound, BufT
<1>2. CASE b.pp > 0
  <2>1. Moved(h, b, c, n) = move_partial_case_(h, b, c, n)
    BY <1>2 DEF Moved
  <2> QED
    BY <1>2, <2>1, PartialOwned
<1>3. CASE b.pp = 0
  <2>1. Moved(h, b, c, n) = move_nonpartial_case_(h, b, c, n)
    BY <1>3 DEF Moved
  <2> QED
    BY <1>1, <1>3, <2>1, NonpartialOwned
<1> QED
  BY <1>1, <1>2, <1>3

-----------------------------------------------------------------------------
(* The three chains.  The read buffer is a chain that nothing is taken of. *)
Chain(iovs) == [iov |-> iovs, size |-> LenUpto(iovs, Len(iovs)), pp |-> 0]

AllOwned(h, r, b, c) ==
    /\ IsHeap(h) /\ Sound(h, Chain(r)) /\ Sound(h, b) /\ Sound(h, c)
    /\ DOMAIN h = Bases(r) \union Bases(b.iov) \union Bases(c.iov)
    /\ Bases(r) \intersect Bases(b.iov) = {} /\ Bases(r) \intersect Bases(c.iov) = {}
    /\ Bases(b.iov) \intersect Bases(c.iov) = {}

Full(h, r) == \A i \in 1 .. Len(r) : r[i].len = BufSize /\ Len(h[r[i].base]) = BufSize

LEMMA ChainIs ==
  ASSUME NEW r
  PROVE  /\ Chain(r).iov = r /\ Chain(r).size = LenUpto(r, Len(r)) /\ Chain(r).pp = 0
         /\ \A k : Used(Chain(r), k) = 0
BY DEF Chain, Used

LEMMA ChainSound ==
  ASSUME NEW h, NEW r \in Seq(IovT), Distinct(r),
         \A k \in 1 .. Len(r) : /\ r[k].len > 0 /\ r[k].base \in DOMAIN h
                                /\ r[k].len <= Len(h[r[k].base])
  PROVE  Sound(h, Chain(r))
<1>1. Len(r) \in Nat
  OBVIOUS
<1>2. LenUpto(r, Len(r)) \in Nat
  BY <1>1, LenUptoIs
<1>3. Chain(r) \in BufT
  BY <1>2 DEF Chain, BufT
<1>4. \A k \in 1 .. Len(r) : r[k].len \in Nat
  <2>1. \A k \in 1 .. Len(r) : r[k] \in IovT
    OBVIOUS
  <2> QED
    BY <2>1 DEF IovT
<1>5. \A k \in 1 .. Len(r) : Used(Chain(r), k) + r[k].len = r[k].len
  BY <1>4, ChainIs
<1> QED
  BY <1>3, <1>5, ChainIs DEF Sound

(* Two of the chains and the blocks of the third.                          *)
LEMMA TwoOfThree ==
  ASSUME NEW h, NEW r, NEW b, NEW c, AllOwned(h, r, b, c)
  PROVE  /\ Owned(h, Bases(r), b, c) /\ Owned(h, Bases(r), c, b)
         /\ Owned(h, Bases(c.iov), b, Chain(r))
BY ChainIs DEF AllOwned, Owned

LEMMA ThirdKept ==
  ASSUME NEW h, NEW r, NEW b, NEW c, AllOwned(h, r, b, c),
         NEW g, NEW d, NEW e, Owned(g, Bases(r), d, e), Keeps(h, g, Bases(r)), Full(h, r)
  PROVE  AllOwned(g, r, d, e) /\ AllOwned(g, r, e, d) /\ Full(g, r)
<1>1. \A a \in Bases(Chain(r).iov) : a \in DOMAIN g /\ g[a] = h[a]
  BY ChainIs DEF Owned, Keeps
<1>2. Sound(g, Chain(r))
  BY <1>1, SoundFrame DEF AllOwned
<1>3. \A i \in 1 .. Len(r) : r[i].base \in Bases(r)
  BY DEF Bases
<1> QED
  BY <1>2, <1>3 DEF AllOwned, Owned, Full, Keeps

(* set_empty_buf_.                                                         *)
Heaps  == {h \in UNION {[D -> Seq(Nat)] : D \in SUBSET Nat} : IsFiniteSet(DOMAIN h)}
States == [rdbuf : Seq(IovT), heap : Heaps]

LEMMA HeapsAre == \A h : h \in Heaps <=> IsHeap(h)
<1>1. ASSUME NEW h, h \in Heaps PROVE IsHeap(h)
  BY <1>1 DEF Heaps, IsHeap
<1>2. ASSUME NEW h, IsHeap(h) PROVE h \in Heaps
  <2>1. DOMAIN h \in SUBSET Nat /\ h \in [DOMAIN h -> Seq(Nat)]
    BY <1>2 DEF IsHeap
  <2> QED
    BY <1>2, <2>1 DEF Heaps, IsHeap
<1> QED
  BY <1>1, <1>2

LEMMA NewBlock ==
  /\ [j \in 1 .. BufSize |-> Garbage] \in Seq(Nat) /\ Len([j \in 1 .. BufSize |-> Garbage]) = BufSize
  /\ BufSize \in Nat /\ BufSize > 0 /\ VecSize \in Nat /\ VecSize > 0
<1>1. BufSize \in Nat /\ BufSize > 0 /\ VecSize \in Nat /\ VecSize > 0
  BY SizeAssumption
<1>2. [j \in 1 .. BufSize |-> Garbage] \in [1 .. BufSize -> Nat]
  BY DEF Garbage
<1>3. \A n \in Nat : \A f \in [1 .. n -> Nat] : f \in Seq(Nat) /\ Len(f) = n
  OBVIOUS
<1> QED
  BY <1>1, <1>2, <1>3

LEMMA RefillTyped ==
  ASSUME NEW st \in States
  PROVE  Refill(st) \in States
<1>1. st.rdbuf \in Seq(IovT) /\ IsHeap(st.heap)
  BY HeapsAre DEF States
<1>2. Fresh(st.heap) \in Nat
  BY <1>1, FreshIs
<1>3. Iov(Fresh(st.heap), BufSize) \in IovT
  BY <1>2, NewBlock DEF Iov, IovT
<1>4. Append(st.rdbuf, Iov(Fresh(st.heap), BufSize)) \in Seq(IovT)
  BY <1>1, <1>3
<1>5. New(st.heap, [j \in 1 .. BufSize |-> Garbage]) \in Heaps
  BY <1>1, NewBlock, NewIs, HeapsAre
<1> QED
  BY <1>4, <1>5 DEF Refill, States

Refilled(st, b, c) ==
    AllOwned(st.heap, st.rdbuf, b, c) /\ Full(st.heap, st.rdbuf) /\ Len(st.rdbuf) <= VecSize

LEMMA RefillOwned ==
  ASSUME NEW st \in States, NEW b, NEW c, Refilled(st, b, c)
  PROVE  /\ Refilled(Refill(st), b, c)
         /\ Len(Refill(st).rdbuf) >= IF Len(st.rdbuf) = VecSize THEN VecSize ELSE Len(st.rdbuf) + 1
         /\ Keeps(st.heap, Refill(st).heap, Bases(b.iov) \union Bases(c.iov))
<1> DEFINE h == st.heap
           r == st.rdbuf
           data == [j \in 1 .. BufSize |-> Garbage]
           v == Iov(Fresh(h), BufSize)
           g == New(h, data)
           w == Append(r, v)
<1>1. AllOwned(h, r, b, c) /\ Full(h, r) /\ Len(r) \in Nat /\ Len(r) <= VecSize /\ r \in Seq(IovT)
  BY DEF Refilled, States
<1>2. data \in Seq(Nat) /\ Len(data) = BufSize /\ BufSize \in Nat /\ BufSize > 0 /\ VecSize \in Nat
  BY NewBlock
<1>3. CASE Len(r) = VecSize
  <2>1. Refill(st) = st
    BY <1>3 DEF Refill
  <2> QED
    BY <1>1, <1>2, <1>3, <2>1 DEF Keeps
<1>4. CASE Len(r) # VecSize
  <2>1. Refill(st).rdbuf = w /\ Refill(st).heap = g
    BY <1>4 DEF Refill
  <2>2. IsHeap(h)
    BY <1>1 DEF AllOwned
  <2>3. Fresh(h) \in Nat /\ Fresh(h) \notin DOMAIN h
    BY <2>2, FreshIs
  <2>4. v \in IovT /\ v.len = BufSize /\ v.base = Fresh(h)
    BY <1>2, <2>3 DEF Iov, IovT
  <2> HIDE DEF data
  <2>5. /\ DOMAIN g = DOMAIN h \union {Fresh(h)} /\ g[Fresh(h)] = data
        /\ \A a \in DOMAIN h : g[a] = h[a]
    BY <1>2, <2>2, NewIs
  <2>6. data # <<>>
    BY <1>2
  <2>7. Owned(h, Bases(c.iov), b, Chain(r))
    BY <1>1, TwoOfThree
  <2> HIDE DEF h, r, v, g
  <2>8. Owned(g, Bases(c.iov), b, push_back(Chain(r), v)) /\ Keeps(h, g, Bases(c.iov))
    BY <1>2, <2>6, <2>7, PushOwned DEF v, g
  <2>9. /\ w \in Seq(IovT) /\ Len(w) = Len(r) + 1 /\ w[Len(r) + 1] = v
        /\ \A i \in 1 .. Len(r) : w[i] = r[i]
    BY <1>1, <2>4, AppendProperties
  <2>10. push_back(Chain(r), v) = Chain(w)
    <3> DEFINE d == push_back(Chain(r), v)
    <3>1. d = [iov |-> w, size |-> LenUpto(r, Len(r)) + v.len, pp |-> 0]
      <4> DEFINE e == Chain(r)
      <4>1. e = [iov |-> r, size |-> LenUpto(r, Len(r)), pp |-> 0]
        BY DEF Chain
      <4>2. d = [e EXCEPT !.iov = Append(e.iov, v), !.size = e.size + v.len]
        BY DEF push_back
      <4> HIDE DEF d, e
      <4>3. e.iov = r
        BY <4>1
      <4>4. d = [e EXCEPT !.iov = w, !.size = e.size + v.len]
        BY <4>2, <4>3
      <4> HIDE DEF w
      <4> QED
        BY <4>1, <4>4
    <3>2. d.size = LenUpto(d.iov, Len(d.iov))
      BY <2>8 DEF Owned, Sound
    <3> HIDE DEF d, w
    <3> QED
      BY <3>1, <3>2 DEF Chain, d
  <2> HIDE DEF w
  <2>11. Owned(g, Bases(c.iov), b, Chain(w))
    BY <2>8, <2>10
  <2>12. Sound(g, c)
    <3>1. \A a \in Bases(c.iov) : a \in DOMAIN g /\ g[a] = h[a]
      BY <1>1, <2>5 DEF AllOwned
    <3> QED
      BY <1>1, <3>1, SoundFrame DEF AllOwned
  <2>13. AllOwned(g, w, b, c)
    BY <2>11, <2>12, ChainIs DEF Owned, AllOwned
  <2>14. Full(g, w)
    <3> SUFFICES ASSUME NEW i \in 1 .. Len(w)
                 PROVE  w[i].len = BufSize /\ Len(g[w[i].base]) = BufSize
      BY DEF Full
    <3>1. CASE i \in 1 .. Len(r)
      <4>1. r[i].base \in DOMAIN h
        BY <1>1, <3>1 DEF AllOwned, Bases
      <4> QED
        BY <1>1, <2>5, <2>9, <3>1, <4>1 DEF Full
    <3>2. CASE i = Len(r) + 1
      BY <1>2, <2>4, <2>5, <2>9, <3>2
    <3> QED
      BY <1>1, <2>9, <3>1, <3>2
  <2>15. Len(w) <= VecSize /\ Len(w) >= Len(r) + 1
    BY <1>1, <1>2, <1>4, <2>9
  <2>16. Keeps(h, g, Bases(b.iov) \union Bases(c.iov))
    BY <1>1, <2>5 DEF Keeps, AllOwned
  <2> QED
    BY <1>4, <2>1, <2>13, <2>14, <2>15, <2>16 DEF Refilled, h, r
<1> QED
  BY <1>3, <1>4

(* The read buffer is refilled to VecSize blocks, and nobody else's block   *)
(* is touched.                                                             *)
LEMMA RefilledIs ==
  ASSUME AllOwned(heap, rdbuf, buf, body), Full(heap, rdbuf), Len(rdbuf) <= VecSize
  PROVE  /\ Refilled(set_empty_buf_, buf, body) /\ Len(set_empty_buf_.rdbuf) = VecSize
         /\ set_empty_buf_.rdbuf \in Seq(IovT)
         /\ Keeps(heap, set_empty_buf_.heap, Bases(buf.iov) \union Bases(body.iov))
<1> DEFINE first == [rdbuf |-> rdbuf, heap |-> heap]
           step == [p \in (1 .. VecSize) \X States |-> Refill(p[2])]
           Is(f) == f = [i \in 0 .. VecSize |-> IF i = 0 THEN first ELSE Refill(f[i - 1])]
           X == Bases(buf.iov) \union Bases(body.iov)
<1>1. VecSize \in Nat /\ VecSize > 0
  BY NewBlock
<1>2. first \in States /\ Refilled(first, buf, body)
  <2>1. rdbuf \in Seq(IovT) /\ IsHeap(heap)
    BY ChainIs DEF AllOwned, Sound, BufT
  <2> QED
    BY <2>1, HeapsAre DEF States, Refilled
<1> HIDE DEF first
<1>3. step \in [(1 .. VecSize) \X States -> States]
  <2>1. \A p \in (1 .. VecSize) \X States : Refill(p[2]) \in States
    BY RefillTyped
  <2> QED
    BY <2>1
<1>4. PICK g \in [0 .. VecSize -> States] :
         g[0] = first /\ \A k \in 1 .. VecSize : g[k] = step[<<k, g[k - 1]>>]
  <2> HIDE DEF step
  <2>1. Iterated(VecSize, States, first, step)
    BY <1>1, <1>2, <1>3, Recursion
  <2> QED
    BY <2>1 DEF Iterated
<1>5. \A k \in 1 .. VecSize : g[k] = Refill(g[k - 1])
  <2> TAKE k \in 1 .. VecSize
  <2>1. g[k - 1] \in States
    BY <1>1
  <2> QED
    BY <1>4, <2>1
<1> HIDE DEF step
<1>6. Is(g)
  BY <1>1, <1>4, <1>5
<1> DEFINE f == CHOOSE f : Is(f)
<1>7. Is(f)
  <2> HIDE DEF Is
  <2> QED
    BY <1>6
<1>8. set_empty_buf_ = f[VecSize]
  BY DEF set_empty_buf_, first
<1> HIDE DEF f
<1>9. f[0] = first /\ \A k \in 1 .. VecSize : f[k] = Refill(f[k - 1])
  BY <1>1, <1>7
<1> HIDE DEF Is
<1> DEFINE T == {k \in 0 .. VecSize : /\ f[k] \in States /\ Refilled(f[k], buf, body)
                                      /\ Len(f[k].rdbuf) >= k /\ Keeps(heap, f[k].heap, X)}
<1>10. 0 \in T
  <2>1. Len(first.rdbuf) >= 0 /\ Keeps(heap, first.heap, X)
    BY <1>2 DEF first, States, Keeps
  <2> QED
    BY <1>1, <1>2, <1>9, <2>1
<1>11. ASSUME NEW k \in 0 .. VecSize - 1, k \in T PROVE k + 1 \in T
  <2>1. k + 1 \in 1 .. VecSize /\ (k + 1) - 1 = k /\ k \in Nat
    BY <1>1
  <2>2. f[k + 1] = Refill(f[k])
    BY <1>9, <2>1
  <2>3. /\ f[k] \in States /\ Refilled(f[k], buf, body)
        /\ Len(f[k].rdbuf) >= k /\ Keeps(heap, f[k].heap, X)
    BY <1>11
  <2>4. /\ Refilled(f[k + 1], buf, body)
        /\ Len(f[k + 1].rdbuf) >= IF Len(f[k].rdbuf) = VecSize THEN VecSize ELSE Len(f[k].rdbuf) + 1
        /\ Keeps(f[k].heap, f[k + 1].heap, X) /\ f[k + 1] \in States
    BY <2>2, <2>3, RefillOwned, RefillTyped
  <2>5. Len(f[k].rdbuf) \in Nat /\ Len(f[k + 1].rdbuf) \in Nat
    BY <2>3, <2>4 DEF States
  <2>6. Len(f[k + 1].rdbuf) >= k + 1
    BY <1>1, <2>1, <2>3, <2>4, <2>5
  <2>7. Keeps(heap, f[k + 1].heap, X)
    BY <2>3, <2>4 DEF Keeps
  <2> QED
    BY <1>1, <2>1, <2>4, <2>6, <2>7
<1>12. \A k \in 0 .. VecSize : k \in T
  <2> HIDE DEF T
  <2> QED
    BY <1>1, <1>10, <1>11, NatCounts
<1>13. VecSize \in T
  <2> HIDE DEF T
  <2>1. VecSize \in 0 .. VecSize
    BY <1>1
  <2> QED
    BY <1>12, <2>1
<1>14. Len(f[VecSize].rdbuf) \in Nat /\ f[VecSize].rdbuf \in Seq(IovT)
  BY <1>13 DEF States
<1>15. Len(f[VecSize].rdbuf) = VecSize
  BY <1>1, <1>13, <1>14 DEF Refilled
<1> QED
  BY <1>8, <1>13, <1>14, <1>15

-----------------------------------------------------------------------------
(* Blocks of a short read: arithmetic.                                     *)
LEMMA Division ==
  ASSUME NEW n \in Nat, NEW d \in Nat, d > 0
  PROVE  n \div d \in Nat /\ n % d \in 0 .. d - 1 /\ n = d * (n \div d) + (n % d)
OBVIOUS

LEMMA Multiples ==
  ASSUME NEW d \in Nat, NEW p \in Nat, NEW q \in Nat, p < q
  PROVE  d * p + d <= d * q /\ d * p \in Nat
<1> DEFINE c == q - (p + 1)
<1>1. c \in Nat /\ q = (p + 1) + c
  OBVIOUS
<1> HIDE DEF c
<1>2. d * q = d * (p + 1) + d * c
  BY <1>1
<1>3. d * (p + 1) = d * p + d
  OBVIOUS
<1>4. d * c \in Nat /\ d * p \in Nat
  BY <1>1
<1> QED
  BY <1>2, <1>3, <1>4

LEMMA Quotient ==
  ASSUME NEW d \in Nat, d > 0, NEW p \in Nat, NEW q \in Nat, NEW i \in 0 .. d - 1, NEW j \in 0 .. d - 1,
         d * p + i = d * q + j
  PROVE  p = q
<1>1. d * p \in Nat /\ d * q \in Nat
  OBVIOUS
<1>2. ~(p < q)
  <2> SUFFICES ASSUME p < q PROVE FALSE
    OBVIOUS
  <2>1. d * p + d <= d * q
    BY Multiples
  <2> QED
    BY <1>1, <2>1
<1>3. ~(q < p)
  <2> SUFFICES ASSUME q < p PROVE FALSE
    OBVIOUS
  <2>1. d * q + d <= d * p
    BY Multiples
  <2> QED
    BY <1>1, <2>1
<1> QED
  BY <1>2, <1>3

LEMMA BlocksIs ==
  ASSUME NEW n \in Nat, n > 0, n <= VecSize * BufSize
  PROVE  /\ Blocks(n) \in 1 .. VecSize
         /\ Blocks(n) = IF n % BufSize = 0 THEN n \div BufSize ELSE n \div BufSize + 1
<1> DEFINE d == BufSize
           q == n \div d
           m == n % d
           k == Blocks(n)
           l == (n + d - 1) % d
<1>1. d \in Nat /\ d > 0 /\ VecSize \in Nat
  BY NewBlock
<1>2. q \in Nat /\ m \in 0 .. d - 1 /\ n = d * q + m
  BY <1>1, Division
<1>3. n + d - 1 \in Nat
  BY <1>1
<1>4. k \in Nat /\ l \in 0 .. d - 1 /\ n + d - 1 = d * k + l
  BY <1>1, <1>3, Division DEF Blocks
<1>5. n <= d * VecSize
  BY <1>1
<1> HIDE DEF q, m, k, l
<1>6. d * q \in Nat /\ d * (q + 1) = d * q + d
  BY <1>1, <1>2
<1>7. CASE m = 0
  <2>1. d * q + (d - 1) = d * k + l /\ d - 1 \in 0 .. d - 1
    BY <1>1, <1>2, <1>4, <1>6, <1>7
  <2>2. q = k
    BY <1>1, <1>2, <1>4, <2>1, Quotient
  <2>3. q # 0
    BY <1>1, <1>2, <1>7
  <2>4. ~(VecSize < q)
    <3> SUFFICES ASSUME VecSize < q PROVE FALSE
      OBVIOUS
    <3>1. d * VecSize + d <= d * q /\ d * VecSize \in Nat
      BY <1>1, <1>2, Multiples
    <3> QED
      BY <1>1, <1>2, <1>5, <1>6, <1>7, <3>1
  <2> QED
    BY <1>1, <1>2, <1>7, <2>2, <2>3, <2>4 DEF q, m, k
<1>8. CASE m # 0
  <2>1. d * (q + 1) + (m - 1) = d * k + l /\ m - 1 \in 0 .. d - 1 /\ q + 1 \in Nat
    BY <1>1, <1>2, <1>4, <1>6, <1>8
  <2>2. q + 1 = k
    BY <1>1, <1>2, <1>4, <2>1, Quotient
  <2>3. q < VecSize
    <3> SUFFICES ASSUME ~(q < VecSize) PROVE FALSE
      OBVIOUS
    <3>1. d * VecSize <= d * q /\ d * VecSize \in Nat
      <4>1. CASE q = VecSize
        BY <1>1, <1>6, <4>1
      <4>2. CASE VecSize < q
        <5>1. d * VecSize + d <= d * q /\ d * VecSize \in Nat
          BY <1>1, <1>2, <4>2, Multiples
        <5> QED
          BY <1>1, <1>6, <5>1
      <4> QED
        BY <1>1, <1>2, <4>1, <4>2
    <3> QED
      BY <1>1, <1>2, <1>5, <1>6, <1>8, <3>1
  <2> QED
    BY <1>1, <1>2, <1>8, <2>2, <2>3 DEF q, m, k
<1> QED
  BY <1>7, <1>8

LEMMA SoundSized ==
  ASSUME NEW h, NEW g, NEW b, Sound(h, b),
         \A a \in Bases(b.iov) : a \in DOMAIN g /\ Len(g[a]) = Len(h[a])
  PROVE  Sound(g, b)
BY DEF Sound, Bases

(* The blocks that bytes were put in leave the read buffer for a chain.    *)
FilledIs(filled, r, n) ==
    /\ filled \in Seq(IovT) /\ Len(filled) = VecSize
    /\ \A i \in 1 .. VecSize :
          /\ filled[i].base = r[i].base
          /\ filled[i].len = IF i = n \div BufSize + 1 /\ n % BufSize # 0
                             THEN n % BufSize ELSE BufSize

(* Every block but the last is full: block j starts at BufSize * (j - 1).  *)
FullBlocks(u) == \A j \in 1 .. Len(u) : LenUpto(u, j - 1) = BufSize * (j - 1)

LEMMA GoneLength ==
  ASSUME NEW r, NEW n \in Nat, n > 0, n <= VecSize * BufSize, NEW filled, FilledIs(filled, r, n),
         NEW u \in Seq(IovT), Len(u) = Blocks(n), \A j \in 1 .. Blocks(n) : u[j] = filled[j]
  PROVE  LenUpto(u, Len(u)) = n /\ FullBlocks(u)
<1> DEFINE d == BufSize
           q == n \div d
           m == n % d
           k == Blocks(n)
           f == [j \in 0 .. k |-> IF j <= q THEN d * j ELSE n]
<1>1. d \in Nat /\ d > 0 /\ VecSize \in Nat
  BY NewBlock
<1>2. q \in Nat /\ m \in 0 .. d - 1 /\ n = d * q + m
  BY <1>1, Division
<1>3. k \in 1 .. VecSize /\ k = IF m = 0 THEN q ELSE q + 1
  BY BlocksIs
<1>4. \A j \in 1 .. VecSize : filled[j].len = IF j = q + 1 /\ m # 0 THEN m ELSE d
  BY DEF FilledIs
<1> HIDE DEF d, q, m, k
<1>5. f[0] = 0
  BY <1>1, <1>2, <1>3
<1>6. \A j \in 1 .. k : f[j] = f[j - 1] + u[j].len
  <2> TAKE j \in 1 .. k
  <2>1. j \in 1 .. VecSize /\ j \in Nat /\ j - 1 \in 0 .. k /\ j \in 0 .. k
    BY <1>1, <1>3
  <2>2. u[j].len = IF j = q + 1 /\ m # 0 THEN m ELSE d
    BY <1>4, <2>1 DEF k
  <2>3. CASE j <= q
    <3>1. f[j] = d * j /\ f[j - 1] = d * (j - 1) /\ u[j].len = d
      BY <1>2, <2>1, <2>2, <2>3
    <3>2. d * j = d * (j - 1) + d
      BY <1>1, <2>1
    <3> QED
      BY <3>1, <3>2
  <2>4. CASE j > q
    <3>1. j = q + 1 /\ m # 0
      BY <1>1, <1>2, <1>3, <2>1, <2>4
    <3>2. f[j] = n /\ f[j - 1] = d * (j - 1) /\ u[j].len = m /\ j - 1 = q
      BY <1>2, <2>1, <2>2, <3>1
    <3> QED
      BY <1>2, <3>2
  <2> QED
    BY <1>2, <2>1, <2>3, <2>4
<1>7. f[k] = n
  BY <1>1, <1>2, <1>3
<1>8. k \in 0 .. Len(u) /\ k \in 0 .. k /\ Len(u) = k
  BY <1>1, <1>3 DEF k
<1>9. \A j \in 1 .. k : j - 1 \in 0 .. k /\ f[j - 1] = d * (j - 1)
  BY <1>1, <1>2, <1>3
<1> HIDE DEF f
<1>10. \A j \in 0 .. k : LenUpto(u, j) = f[j]
  BY <1>5, <1>6, <1>8, LenUptoUnique
<1>11. \A j \in 1 .. k : LenUpto(u, j - 1) = d * (j - 1)
  BY <1>9, <1>10
<1> QED
  BY <1>7, <1>8, <1>10, <1>11 DEF d, FullBlocks

LEMMA ReadOwned ==
  ASSUME NEW h, NEW r \in Seq(IovT), NEW b, NEW c, AllOwned(h, r, b, c), Full(h, r), Len(r) = VecSize,
         NEW n \in Nat, n > 0, n <= VecSize * BufSize,
         NEW g, IsHeap(g), DOMAIN g = DOMAIN h, \A a \in DOMAIN h : Len(g[a]) = Len(h[a]),
         NEW filled, FilledIs(filled, r, n)
  PROVE  LET gone == SubSeq(filled, 1, Blocks(n))
             rest == SubSeq(filled, Blocks(n) + 1, VecSize)
         IN  /\ AllOwned(g, rest, Extended(b, gone, n), c) /\ Full(g, rest) /\ Len(rest) <= VecSize
<1> DEFINE k == Blocks(n)
           gone == SubSeq(filled, 1, k)
           rest == SubSeq(filled, k + 1, VecSize)
           d == Extended(b, gone, n)
<1>1. /\ IsHeap(h) /\ Sound(h, b) /\ Sound(h, c) /\ Distinct(r)
      /\ DOMAIN h = Bases(r) \union Bases(b.iov) \union Bases(c.iov)
      /\ Bases(r) \intersect Bases(b.iov) = {} /\ Bases(r) \intersect Bases(c.iov) = {}
      /\ Bases(b.iov) \intersect Bases(c.iov) = {}
  BY ChainIs DEF AllOwned, Sound
<1>2. /\ filled \in Seq(IovT) /\ Len(filled) = VecSize /\ VecSize \in Nat /\ BufSize \in Nat /\ BufSize > 0
      /\ n % BufSize \in 0 .. BufSize - 1 /\ n \div BufSize \in Nat
  BY NewBlock, Division DEF FilledIs
<1>3. \A i \in 1 .. VecSize :
         /\ filled[i].base = r[i].base /\ filled[i].len > 0 /\ filled[i].len <= BufSize
         /\ r[i].base \in DOMAIN g /\ Len(g[r[i].base]) = BufSize
         /\ i > k => filled[i].len = BufSize
  <2> TAKE i \in 1 .. VecSize
  <2>1. filled[i].base = r[i].base /\ filled[i].len > 0 /\ filled[i].len <= BufSize
    <3>1. /\ filled[i].base = r[i].base
          /\ filled[i].len = IF i = n \div BufSize + 1 /\ n % BufSize # 0
                             THEN n % BufSize ELSE BufSize
      BY DEF FilledIs
    <3> DEFINE m == n % BufSize
    <3>2. m \in 0 .. BufSize - 1 /\ ((filled[i].len = m /\ m # 0) \/ filled[i].len = BufSize)
      BY <1>2, <3>1
    <3> HIDE DEF m
    <3> QED
      BY <1>2, <3>1, <3>2
  <2>2. r[i].base \in DOMAIN h
    BY <1>1 DEF Bases
  <2>3. r[i].base \in DOMAIN g /\ Len(g[r[i].base]) = BufSize
    BY <2>2 DEF Full
  <2>4. ASSUME i > k PROVE filled[i].len = BufSize
    <3>1. ~(i = n \div BufSize + 1 /\ n % BufSize # 0)
      BY <1>2, <2>4, BlocksIs
    <3> QED
      BY <3>1 DEF FilledIs
  <2> QED
    BY <2>1, <2>3, <2>4
<1>4. k \in 1 .. VecSize
  BY BlocksIs
<1> HIDE DEF k
<1>5. /\ gone \in Seq(IovT) /\ Len(gone) = k /\ \A j \in 1 .. k : gone[j] = filled[j]
      /\ Bases(gone) = Front(filled, k) /\ Bases(filled) = Front(filled, k) \union Back(filled, k)
      /\ Distinct(filled) => Front(filled, k) \intersect Back(filled, k) = {}
  <2>1. k \in 0 .. Len(filled)
    BY <1>2, <1>4
  <2> QED
    BY <1>2, <2>1, FrontIs
<1>6. /\ rest \in Seq(IovT) /\ Len(rest) = VecSize - k
      /\ \A j \in 1 .. VecSize - k : rest[j] = filled[k + j]
  <2>1. \A i \in k + 1 .. VecSize : filled[i] \in IovT
    BY <1>2, <1>4
  <2>2. k + 1 \in Int /\ VecSize \in Int
    BY <1>2, <1>4
  <2>3. /\ rest \in Seq(IovT)
        /\ Len(rest) = IF k + 1 <= VecSize THEN VecSize - (k + 1) + 1 ELSE 0
        /\ \A j \in 1 .. VecSize - (k + 1) + 1 : rest[j] = filled[(k + 1) + j - 1]
    BY <2>1, <2>2, SubSeqProperties
  <2> HIDE DEF rest
  <2>4. Len(rest) = VecSize - k /\ VecSize - (k + 1) + 1 = VecSize - k
    BY <1>2, <1>4, <2>3
  <2>5. \A j \in 1 .. VecSize - k : rest[j] = filled[k + j]
    <3> TAKE j \in 1 .. VecSize - k
    <3>1. (k + 1) + j - 1 = k + j
      BY <1>2, <1>4
    <3>2. rest[j] = filled[(k + 1) + j - 1]
      BY <2>3, <2>4
    <3> QED
      BY <3>1, <3>2
  <2> QED
    BY <2>3, <2>4, <2>5
<1> HIDE DEF gone, rest
<1>7. Distinct(filled) /\ Bases(filled) = Bases(r)
  BY <1>1, <1>2, <1>3 DEF Distinct, Bases
<1>8. Bases(rest) = Back(filled, k)
  <2>1. ASSUME NEW a \in Bases(rest) PROVE a \in Back(filled, k)
    <3>1. PICK j \in 1 .. Len(rest) : a = rest[j].base
      BY DEF Bases
    <3>2. k + j \in k + 1 .. Len(filled)
      BY <1>2, <1>4, <1>6
    <3>3. a = filled[k + j].base
      BY <1>6, <3>1
    <3> QED
      BY <3>2, <3>3 DEF Back
  <2>2. ASSUME NEW j \in k + 1 .. Len(filled) PROVE filled[j].base \in Bases(rest)
    <3>1. j - k \in 1 .. Len(rest) /\ k + (j - k) = j
      BY <1>2, <1>4, <1>6
    <3>2. rest[j - k].base = filled[j].base
      BY <1>6, <3>1
    <3> QED
      BY <3>1, <3>2 DEF Bases
  <2> QED
    BY <2>1, <2>2 DEF Back
<1>9. /\ Bases(r) = Bases(gone) \union Bases(rest) /\ Bases(gone) \intersect Bases(rest) = {}
  BY <1>5, <1>7, <1>8
<1>10. Sound(g, b) /\ Sound(g, c)
  <2>1. \A a \in Bases(b.iov) : a \in DOMAIN g /\ Len(g[a]) = Len(h[a])
    BY <1>1
  <2>2. \A a \in Bases(c.iov) : a \in DOMAIN g /\ Len(g[a]) = Len(h[a])
    BY <1>1
  <2> QED
    BY <1>1, <2>1, <2>2, SoundSized
<1>11. Sound(g, d) /\ Bases(d.iov) = Bases(b.iov) \union Bases(gone)
  <2>1. \A j \in 1 .. Len(gone) : /\ gone[j].len > 0 /\ gone[j].base \in DOMAIN g
                                  /\ gone[j].len <= Len(g[gone[j].base])
    <3> TAKE j \in 1 .. Len(gone)
    <3>1. j \in 1 .. VecSize /\ gone[j] = filled[j]
      BY <1>2, <1>4, <1>5
    <3> QED
      BY <1>3, <3>1
  <2>2. Distinct(gone)
    <3> SUFFICES ASSUME NEW i \in 1 .. Len(gone), NEW j \in 1 .. Len(gone), gone[i].base = gone[j].base
                 PROVE  i = j
      BY DEF Distinct
    <3>1. i \in 1 .. Len(filled) /\ j \in 1 .. Len(filled) /\ filled[i].base = filled[j].base
      BY <1>2, <1>4, <1>5
    <3> QED
      BY <1>7, <3>1 DEF Distinct
  <2>3. Bases(b.iov) \intersect Bases(gone) = {}
    BY <1>1, <1>9
  <2>4. gone \in Seq(IovT)
    BY <1>5
  <2>5. /\ Sound(g, Extended(b, gone, LenUpto(gone, Len(gone))))
        /\ Bases(Extended(b, gone, LenUpto(gone, Len(gone))).iov) = Bases(b.iov) \union Bases(gone)
    BY <1>10, <2>1, <2>2, <2>3, <2>4, ExtendedSound
  <2>6. LenUpto(gone, Len(gone)) = n
    <3>1. gone \in Seq(IovT) /\ Len(gone) = Blocks(n) /\ \A j \in 1 .. Blocks(n) : gone[j] = filled[j]
      BY <1>5 DEF k
    <3> HIDE DEF gone, k, d
    <3> QED
      BY <3>1, GoneLength
  <2> QED
    BY <2>5, <2>6
<1>12. Sound(g, Chain(rest))
  <2>1. \A j \in 1 .. Len(rest) : /\ rest[j].len > 0 /\ rest[j].base \in DOMAIN g
                                  /\ rest[j].len <= Len(g[rest[j].base])
    <3> TAKE j \in 1 .. Len(rest)
    <3>1. k + j \in 1 .. VecSize /\ rest[j] = filled[k + j]
      BY <1>2, <1>4, <1>6
    <3> QED
      BY <1>3, <3>1
  <2>2. Distinct(rest)
    <3> SUFFICES ASSUME NEW i \in 1 .. Len(rest), NEW j \in 1 .. Len(rest), rest[i].base = rest[j].base
                 PROVE  i = j
      BY DEF Distinct
    <3>1. /\ k + i \in 1 .. Len(filled) /\ k + j \in 1 .. Len(filled)
          /\ filled[k + i].base = filled[k + j].base
      BY <1>2, <1>4, <1>6
    <3>2. k + i = k + j
      BY <1>7, <3>1 DEF Distinct
    <3> QED
      BY <1>4, <3>2
  <2> QED
    BY <1>6, <2>1, <2>2, ChainSound
<1>13. Full(g, rest)
  <2> SUFFICES ASSUME NEW j \in 1 .. Len(rest)
               PROVE  rest[j].len = BufSize /\ Len(g[rest[j].base]) = BufSize
    BY DEF Full
  <2>1. k + j \in 1 .. VecSize /\ k + j > k /\ rest[j] = filled[k + j]
    BY <1>2, <1>4, <1>6
  <2> QED
    BY <1>3, <2>1
<1> HIDE DEF d
<1>14. AllOwned(g, rest, d, c)
  BY <1>1, <1>9, <1>10, <1>11, <1>12 DEF AllOwned
<1>15. Len(rest) <= VecSize
  BY <1>2, <1>4, <1>6
<1> QED
  BY <1>13, <1>14, <1>15 DEF d, gone, rest, k

-----------------------------------------------------------------------------
(* The inductive invariant.  A chain is sound only if its blocks are live,  *)
(* which a deletion elsewhere keeps because no block is in two chains; and  *)
(* the chains own everything because the heap has no other block.          *)
IInv == /\ taken \in 0 .. Len(Input)
        /\ AllOwned(heap, rdbuf, buf, body) /\ Full(heap, rdbuf)
        /\ Len(rdbuf) <= VecSize

LEMMA InitIInv == Init => IInv
<1> SUFFICES ASSUME Init PROVE IInv
  OBVIOUS
<1>1. taken = 0 /\ heap = <<>> /\ rdbuf = <<>> /\ buf = Empty /\ body = Empty
  BY DEF Init
<1>2. Len(Input) \in Nat /\ VecSize \in Nat
  BY SizeAssumption
<1>3. IsHeap(<<>>) /\ DOMAIN (<<>>) = {}
  BY FS_EmptySet DEF IsHeap
<1>4. /\ Sound(heap, Empty) /\ Bases(Empty.iov) = {} /\ Empty.iov = <<>>
  BY EmptySound DEF Empty
<1>5. Sound(heap, Chain(<<>>)) /\ Bases(<<>>) = {} /\ <<>> \in Seq(IovT) /\ Len(<<>>) = 0
  <2>1. Distinct(<<>>) /\ <<>> \in Seq(IovT)
    BY DEF Distinct
  <2>2. Len(<<>>) = 0 /\ Bases(<<>>) = {}
    BY DEF Bases
  <2>3. Sound(heap, Chain(<<>>))
    <3> DEFINE e == <<>>
    <3>1. e \in Seq(IovT) /\ Distinct(e) /\ Len(e) = 0
      BY <2>1, <2>2
    <3> HIDE DEF e
    <3>2. \A k \in 1 .. Len(e) : FALSE
      BY <3>1
    <3>3. Sound(heap, Chain(e))
      BY <3>1, <3>2, ChainSound
    <3> QED
      BY <3>3 DEF e
  <2> QED
    BY <2>1, <2>2, <2>3
<1> QED
  BY <1>1, <1>2, <1>3, <1>4, <1>5 DEF IInv, AllOwned, Full

LEMMA IInvType ==
  ASSUME IInv
  PROVE  /\ taken \in Nat /\ taken <= Len(Input) /\ Len(Input) \in Nat
         /\ rdbuf \in Seq(IovT) /\ buf \in BufT /\ body \in BufT
         /\ buf.iov \in Seq(IovT) /\ body.iov \in Seq(IovT)
         /\ Sound(heap, buf) /\ Sound(heap, body) /\ IsHeap(heap)
<1>1. Len(Input) \in Nat
  BY SizeAssumption
<1>2. Chain(rdbuf) \in BufT /\ Sound(heap, buf) /\ Sound(heap, body) /\ IsHeap(heap)
  BY DEF IInv, AllOwned, Sound
<1>3. rdbuf \in Seq(IovT)
  BY <1>2, ChainIs DEF BufT
<1> QED
  BY <1>1, <1>2, <1>3 DEF IInv, Sound, BufT

(* Whatever leaves the read buffer and its blocks alone.                   *)
LEMMA OthersKept ==
  ASSUME IInv, rdbuf' = rdbuf, taken' \in 0 .. Len(Input),
         \/ Owned(heap', Bases(rdbuf), buf', body') \/ Owned(heap', Bases(rdbuf), body', buf'),
         Keeps(heap, heap', Bases(rdbuf))
  PROVE  IInv'
<1>1. /\ AllOwned(heap, rdbuf, buf, body) /\ Full(heap, rdbuf) /\ Len(rdbuf) <= VecSize
  BY DEF IInv
<1>2. AllOwned(heap', rdbuf, buf', body') /\ Full(heap', rdbuf)
  BY <1>1, ThirdKept
<1> QED
  BY <1>1, <1>2 DEF IInv

(* A read of n bytes: the read buffer r has been made whole, its blocks     *)
(* filled, and no other block touched.                                     *)
HasRead(n, h, r, filled) ==
    /\ n > 0 /\ n <= VecSize * BufSize /\ n <= Len(Input) - taken /\ taken' = taken + n /\ result' = Done
    /\ r \in Seq(IovT) /\ AllOwned(h, r, buf, body) /\ Full(h, r) /\ Len(r) = VecSize
    /\ IsHeap(heap') /\ DOMAIN heap' = DOMAIN h /\ \A a \in DOMAIN h : Len(heap'[a]) = Len(h[a])
    /\ Keeps(heap, heap', Bases(buf.iov) \union Bases(body.iov))
    /\ \A i \in 1 .. VecSize : \A j \in 1 .. BufSize :
          BufSize * (i - 1) + j <= n => heap'[r[i].base][j] = taken + (BufSize * (i - 1) + j)
    /\ FilledIs(filled, r, n) /\ rdbuf' = SubSeq(filled, Blocks(n) + 1, VecSize)
    /\ \/ buf' = Extended(buf, SubSeq(filled, 1, Blocks(n)), n) /\ body' = body
       \/ body' = Extended(body, SubSeq(filled, 1, Blocks(n)), n) /\ buf' = buf

LEMMA ReadIs ==
  ASSUME IInv, read_
  PROVE  \E n \in Nat : \E h, r, filled : HasRead(n, h, r, filled)
<1>1. /\ AllOwned(heap, rdbuf, buf, body) /\ Full(heap, rdbuf) /\ Len(rdbuf) <= VecSize
      /\ taken \in Nat /\ taken <= Len(Input) /\ Len(Input) \in Nat
  BY IInvType DEF IInv
<1>2. BufSize \in Nat /\ BufSize > 0 /\ VecSize \in Nat
  BY NewBlock
<1> DEFINE st == set_empty_buf_
           h == st.heap
           r == st.rdbuf
<1>3. /\ AllOwned(h, r, buf, body) /\ Full(h, r) /\ Len(r) = VecSize /\ r \in Seq(IovT)
      /\ Keeps(heap, h, Bases(buf.iov) \union Bases(body.iov))
  BY <1>1, RefilledIs DEF Refilled
<1> HIDE DEF st
<1> DEFINE data(n, i) == [j \in 1 .. BufSize |-> LET k == (i - 1) * BufSize + j
                                                 IN  IF k <= n THEN taken + k ELSE Garbage]
           block(a) == CHOOSE i \in 1 .. VecSize : r[i].base = a
           filled(n) == [i \in 1 .. VecSize |->
                           IF i = n \div BufSize + 1 /\ n % BufSize # 0
                           THEN [r[i] EXCEPT !.len = n % BufSize] ELSE r[i]]
           gone(n) == SubSeq(filled(n), 1, Blocks(n))
           g(n) == [a \in DOMAIN h |-> IF \E i \in 1 .. VecSize : r[i].base = a
                                       THEN data(n, block(a)) ELSE h[a]]
<1>4. PICK n \in 1 .. Least(VecSize * BufSize, Len(Input) - taken) :
         /\ taken' = taken + n /\ heap' = g(n)
         /\ rdbuf' = SubSeq(filled(n), Blocks(n) + 1, VecSize) /\ result' = Done
         /\ \/ buf' = Extended(buf, gone(n), n) /\ UNCHANGED body
            \/ body' = Extended(body, gone(n), n) /\ UNCHANGED buf
  BY DEF read_, st
<1>5. n \in Nat /\ n > 0 /\ n <= VecSize * BufSize /\ n <= Len(Input) - taken
  <2>1. VecSize * BufSize \in Nat /\ Len(Input) - taken \in Nat
    BY <1>1, <1>2
  <2> QED
    BY <2>1 DEF Least
<1>6. IsHeap(h) /\ \A i \in 1 .. VecSize : r[i] \in IovT /\ r[i].len = BufSize /\ Len(h[r[i].base]) = BufSize
  BY <1>3 DEF AllOwned, Full
<1>7. FilledIs(filled(n), r, n)
  <2>1. n % BufSize \in Nat
    BY <1>2, <1>5, Division
  <2> DEFINE m == n % BufSize
             last(i) == i = n \div BufSize + 1 /\ m # 0
             s == [i \in 1 .. VecSize |-> IF last(i) THEN [r[i] EXCEPT !.len = m] ELSE r[i]]
  <2>2. m \in Nat /\ s = filled(n)
    BY <2>1
  <2> HIDE DEF m, last, h, r
  <2>3. \A i \in 1 .. VecSize : [r[i] EXCEPT !.len = m] = [base |-> r[i].base, len |-> m]
    BY <1>6 DEF IovT
  <2>4. \A i \in 1 .. VecSize : /\ s[i] = IF last(i) THEN [base |-> r[i].base, len |-> m] ELSE r[i]
                                /\ s[i] \in IovT
    BY <1>6, <2>2, <2>3 DEF IovT
  <2>5. s \in Seq(IovT) /\ Len(s) = VecSize
    <3>1. s \in [1 .. VecSize -> IovT]
      BY <2>4
    <3>2. \A l \in Nat : \A w \in [1 .. l -> IovT] : w \in Seq(IovT) /\ Len(w) = l
      OBVIOUS
    <3> HIDE DEF s
    <3> QED
      BY <1>2, <3>1, <3>2
  <2>6. \A i \in 1 .. VecSize : s[i].base = r[i].base /\ s[i].len = IF last(i) THEN m ELSE BufSize
    BY <1>6, <2>4
  <2> HIDE DEF s
  <2>7. FilledIs(s, r, n)
    BY <2>5, <2>6 DEF FilledIs, last, m
  <2> QED
    BY <2>2, <2>7
<1>8. IsHeap(g(n)) /\ DOMAIN g(n) = DOMAIN h /\ \A a \in DOMAIN h : Len(g(n)[a]) = Len(h[a])
  <2> DEFINE f == g(n)
  <2>1. \A i \in 1 .. VecSize : data(n, i) \in Seq(Nat) /\ Len(data(n, i)) = BufSize
    <3> TAKE i \in 1 .. VecSize
    <3>1. \A j \in 1 .. BufSize : (i - 1) * BufSize + j \in Nat
      <4>1. i - 1 \in Nat
        BY <1>2
      <4>2. (i - 1) * BufSize \in Nat
        BY <1>2, <4>1
      <4> QED
        BY <1>2, <4>2
    <3>2. data(n, i) \in [1 .. BufSize -> Nat]
      BY <1>1, <1>5, <3>1 DEF Garbage
    <3>3. \A l \in Nat : \A w \in [1 .. l -> Nat] : w \in Seq(Nat) /\ Len(w) = l
      OBVIOUS
    <3> HIDE DEF data
    <3> QED
      BY <1>2, <3>2, <3>3
  <2>2. \A a : (\E i \in 1 .. VecSize : r[i].base = a) => block(a) \in 1 .. VecSize /\ r[block(a)].base = a
    OBVIOUS
  <2>3. \A a \in DOMAIN h : f[a] = IF \E i \in 1 .. VecSize : r[i].base = a
                                   THEN data(n, block(a)) ELSE h[a]
    OBVIOUS
  <2>4. DOMAIN f = DOMAIN h /\ f = [a \in DOMAIN h |-> f[a]]
    OBVIOUS
  <2> HIDE DEF f, data, block, h, r
  <2>5. ASSUME NEW a \in DOMAIN h PROVE f[a] \in Seq(Nat) /\ Len(f[a]) = Len(h[a])
    <3>1. CASE \E i \in 1 .. VecSize : r[i].base = a
      <4>1. block(a) \in 1 .. VecSize /\ r[block(a)].base = a
        BY <2>2, <3>1
      <4> QED
        BY <1>6, <2>1, <2>3, <3>1, <4>1
    <3>2. CASE ~ \E i \in 1 .. VecSize : r[i].base = a
      <4>1. h[a] \in Seq(Nat)
        BY <1>6 DEF IsHeap
      <4> QED
        BY <2>3, <3>2, <4>1
    <3> QED
      BY <3>1, <3>2
  <2>6. IsHeap(f)
    BY <1>6, <2>4, <2>5 DEF IsHeap
  <2> QED
    BY <2>4, <2>5, <2>6 DEF f
<1>9. \A a : (\E i \in 1 .. VecSize : r[i].base = a) <=> a \in Bases(r)
  BY <1>3 DEF Bases
<1>10. Keeps(heap, heap', Bases(buf.iov) \union Bases(body.iov))
  <2> SUFFICES ASSUME NEW a \in Bases(buf.iov) \union Bases(body.iov) PROVE heap'[a] = heap[a]
    BY DEF Keeps
  <2>1. a \in DOMAIN h /\ a \notin Bases(r)
    BY <1>3 DEF AllOwned
  <2>2. g(n)[a] = h[a]
    BY <1>9, <2>1
  <2> HIDE DEF g, h
  <2> QED
    BY <1>3, <1>4, <2>2 DEF Keeps
<1>11. ASSUME NEW i \in 1 .. VecSize, NEW j \in 1 .. BufSize, BufSize * (i - 1) + j <= n
       PROVE  heap'[r[i].base][j] = taken + (BufSize * (i - 1) + j)
  <2> DEFINE a == r[i].base
  <2>1. a \in DOMAIN h /\ Distinct(r)
    <3>1. a \in Bases(r)
      BY <1>9
    <3> QED
      BY <1>3, <3>1, ChainIs DEF AllOwned, Sound
  <2>2. block(a) = i
    <3>1. block(a) \in 1 .. VecSize /\ r[block(a)].base = a
      OBVIOUS
    <3> QED
      BY <1>3, <2>1, <3>1 DEF Distinct
  <2>3. g(n)[a] = data(n, i)
    <3> HIDE DEF data, block
    <3> QED
      BY <2>1, <2>2
  <2>4. (i - 1) * BufSize = BufSize * (i - 1) /\ BufSize * (i - 1) \in Nat
    BY <1>2
  <2>5. data(n, i)[j] = taken + (BufSize * (i - 1) + j)
    BY <1>11, <2>4
  <2> HIDE DEF data, g, h, r
  <2> QED
    BY <1>4, <2>3, <2>5 DEF r
<1> HIDE DEF g, filled, h, r
<1>12. HasRead(n, h, r, filled(n))
  BY <1>3, <1>4, <1>5, <1>7, <1>8, <1>10, <1>11 DEF HasRead
<1> QED
  BY <1>5, <1>12

LEMMA ReadKeeps == IInv /\ read_ => IInv'
<1> SUFFICES ASSUME IInv, read_ PROVE IInv'
  OBVIOUS
<1>0. PICK n \in Nat : \E h, r, filled : HasRead(n, h, r, filled)
  BY ReadIs
<1>1. PICK h, r, filled : HasRead(n, h, r, filled)
  BY <1>0
<1>2. taken' \in 0 .. Len(Input)
  BY <1>1, IInvType DEF HasRead
<1>3. AllOwned(h, r, buf, body) /\ AllOwned(h, r, body, buf)
  BY <1>1 DEF HasRead, AllOwned
<1> DEFINE gone == SubSeq(filled, 1, Blocks(n))
<1>4. CASE buf' = Extended(buf, gone, n) /\ body' = body
  <2>1. AllOwned(heap', rdbuf', buf', body') /\ Full(heap', rdbuf') /\ Len(rdbuf') <= VecSize
    BY <1>1, <1>3, <1>4, ReadOwned DEF HasRead
  <2> QED
    BY <1>2, <2>1 DEF IInv
<1>5. CASE body' = Extended(body, gone, n) /\ buf' = buf
  <2>1. AllOwned(heap', rdbuf', body', buf') /\ Full(heap', rdbuf') /\ Len(rdbuf') <= VecSize
    BY <1>1, <1>3, <1>5, ReadOwned DEF HasRead
  <2>2. AllOwned(heap', rdbuf', buf', body')
    BY <2>1 DEF AllOwned
  <2> QED
    BY <1>2, <2>1, <2>2 DEF IInv
<1> QED
  BY <1>1, <1>4, <1>5 DEF HasRead

(* The other operations: two chains, and the blocks of the read buffer.    *)
LEMMA MoveKeeps == IInv /\ move_ => IInv'
<1> SUFFICES ASSUME IInv, move_ PROVE IInv'
  OBVIOUS
<1>1. PICK n \in 1 .. buf.size :
         /\ heap' = Moved(heap, buf, body, n).heap /\ buf' = Moved(heap, buf, body, n).from
         /\ body' = Moved(heap, buf, body, n).to /\ taken' = taken /\ rdbuf' = rdbuf
  BY DEF move_
<1>2. Owned(heap, Bases(rdbuf), buf, body)
  BY TwoOfThree DEF IInv
<1>3. Owned(heap', Bases(rdbuf), buf', body') /\ Keeps(heap, heap', Bases(rdbuf))
  BY <1>1, <1>2, MovedOwned
<1> QED
  BY <1>1, <1>3, OthersKept DEF IInv

LEMMA DeleteKeeps == IInv /\ delete_ => IInv'
<1> SUFFICES ASSUME IInv, delete_ PROVE IInv'
  OBVIOUS
<1>1. PICK n \in 1 .. buf.size :
         /\ heap' = delete_size_(heap, buf, n).heap /\ buf' = delete_size_(heap, buf, n).b
         /\ body' = body /\ taken' = taken /\ rdbuf' = rdbuf
  BY DEF delete_
<1>2. Owned(heap, Bases(rdbuf), buf, body) /\ n \in Nat
  BY IInvType, TwoOfThree DEF IInv, BufT
<1>3. Owned(heap', Bases(rdbuf), buf', body') /\ Keeps(heap, heap', Bases(rdbuf))
  BY <1>1, <1>2, DeleteOwned
<1> QED
  BY <1>1, <1>3, OthersKept DEF IInv

LEMMA WriteKeeps == IInv /\ write_ => IInv'
<1> SUFFICES ASSUME IInv, write_ PROVE IInv'
  OBVIOUS
<1>1. PICK n \in 1 .. LenUpto(body.iov, Least(IovMax, Len(body.iov))) :
         /\ heap' = delete_size_(heap, body, n).heap /\ body' = delete_size_(heap, body, n).b
         /\ buf' = buf /\ taken' = taken /\ rdbuf' = rdbuf
  BY DEF write_
<1>2. n \in Nat
  <2>1. body.iov \in Seq(IovT)
    BY IInvType
  <2>2. Least(IovMax, Len(body.iov)) \in 0 .. Len(body.iov)
    BY <2>1, SizeAssumption DEF Least
  <2>3. LenUpto(body.iov, Least(IovMax, Len(body.iov))) \in Nat
    BY <2>1, <2>2, LenUptoIs
  <2> QED
    BY <2>3
<1>3. Owned(heap, Bases(rdbuf), body, buf)
  BY TwoOfThree DEF IInv
<1>4. Owned(heap', Bases(rdbuf), body', buf') /\ Keeps(heap, heap', Bases(rdbuf))
  BY <1>1, <1>2, <1>3, DeleteOwned
<1> QED
  BY <1>1, <1>4, OthersKept DEF IInv

LEMMA AddStrKeeps == IInv /\ add_str => IInv'
<1> SUFFICES ASSUME IInv, add_str PROVE IInv'
  OBVIOUS
<1> DEFINE data(n) == [i \in 1 .. n |-> taken + i]
<1>1. PICK n \in 1 .. Len(Input) - taken :
         /\ taken' = taken + n /\ heap' = New(heap, data(n))
         /\ body' = push_back(body, Iov(Fresh(heap), n)) /\ buf' = buf /\ rdbuf' = rdbuf
  BY DEF add_str
<1>2. taken \in Nat /\ taken <= Len(Input) /\ Len(Input) \in Nat
  BY IInvType
<1>3. n \in Nat /\ n > 0 /\ taken' \in 0 .. Len(Input)
  BY <1>1, <1>2
<1>4. data(n) \in Seq(Nat) /\ Len(data(n)) = n
  <2>1. data(n) \in [1 .. n -> Nat]
    BY <1>2, <1>3
  <2>2. \A l \in Nat : \A w \in [1 .. l -> Nat] : w \in Seq(Nat) /\ Len(w) = l
    OBVIOUS
  <2> HIDE DEF data
  <2> QED
    BY <1>3, <2>1, <2>2
<1> HIDE DEF data
<1>5. data(n) # <<>>
  BY <1>3, <1>4
<1>6. Owned(heap, Bases(rdbuf), buf, body)
  BY TwoOfThree DEF IInv
<1>7. Owned(heap', Bases(rdbuf), buf', body') /\ Keeps(heap, heap', Bases(rdbuf))
  BY <1>1, <1>4, <1>5, <1>6, PushOwned
<1> QED
  BY <1>1, <1>3, <1>7, OthersKept

LEMMA ClearKeeps == IInv /\ clear_ => IInv'
<1> SUFFICES ASSUME IInv, clear_ PROVE IInv'
  OBVIOUS
<1>1. /\ heap' = Free(heap, body.iov) /\ body' = Empty
      /\ buf' = buf /\ taken' = taken /\ rdbuf' = rdbuf
  BY DEF clear_
<1>2. Owned(heap, Bases(rdbuf), body, buf) /\ body.size \in Nat
  BY IInvType, TwoOfThree DEF IInv, BufT
<1>3. delete_size_(heap, body, body.size) = [heap |-> heap', b |-> body']
  BY <1>1, <1>2 DEF delete_size_, Passed, delete_size_for_move_
<1>4. Owned(heap', Bases(rdbuf), body', buf') /\ Keeps(heap, heap', Bases(rdbuf))
  BY <1>1, <1>2, <1>3, DeleteOwned
<1> QED
  BY <1>1, <1>4, OthersKept DEF IInv

(* find_pos_ answers the position of the first LF in the chain, or -1 if    *)
(* there is none, or it is in a later block and beyond the limit.          *)
LEMMA FoundAt ==
  ASSUME NEW h, NEW b, Sound(h, b)
  PROVE  \/ find_pos_(h, b) = -1 /\ \A k \in 1 .. Len(b.iov) : LFs(h, b, k) = {}
         \/ \E k \in 1 .. Len(b.iov) : \E i \in LFs(h, b, k) :
               LET p == LenUpto(b.iov, k - 1) + i - 1
               IN  /\ \A l \in LFs(h, b, k) : i <= l
                   /\ \A m \in 1 .. Len(b.iov) : LFs(h, b, m) # {} => k <= m
                   /\ p \in 0 .. b.size - 1
                   /\ find_pos_(h, b) = IF k > 1 /\ p > MaxLine THEN -1 ELSE p
<1> DEFINE found == {k \in 1 .. Len(b.iov) : LFs(h, b, k) # {}}
           k == First(found)
           i == First(LFs(h, b, k))
<1>1. b.iov \in Seq(IovT) /\ Len(b.iov) \in Nat /\ b.size = LenUpto(b.iov, Len(b.iov))
  BY DEF Sound, BufT
<1>2. \A S : S \subseteq Nat /\ S # {} => First(S) \in S /\ \A l \in S : First(S) <= l
  <2> SUFFICES ASSUME NEW S, S \subseteq Nat, S # {}
               PROVE  First(S) \in S /\ \A l \in S : First(S) <= l
    OBVIOUS
  <2>1. \E m \in S : \A l \in S : m <= l
    BY LeastOf
  <2> QED
    BY <2>1 DEF First
<1>3. CASE found = {}
  <2>1. find_pos_(h, b) = -1
    BY <1>3 DEF find_pos_
  <2>2. \A m \in 1 .. Len(b.iov) : LFs(h, b, m) = {}
    BY <1>3
  <2> QED
    BY <2>1, <2>2
<1>4. CASE found # {}
  <2>1. found \subseteq Nat
    BY <1>1
  <2>2. k \in found /\ \A m \in found : k <= m
    <3> HIDE DEF found
    <3> QED
      BY <1>2, <1>4, <2>1
  <2> HIDE DEF k
  <2>3. /\ k \in 1 .. Len(b.iov) /\ LFs(h, b, k) # {}
        /\ \A m \in 1 .. Len(b.iov) : LFs(h, b, m) # {} => k <= m
    BY <2>2
  <2>4. LFs(h, b, k) \subseteq 1 .. b.iov[k].len
    BY DEF LFs
  <2>5. i \in 1 .. b.iov[k].len /\ i \in LFs(h, b, k) /\ \A l \in LFs(h, b, k) : i <= l
    <3>1. LFs(h, b, k) \subseteq Nat
      BY <2>4
    <3> QED
      BY <1>2, <2>3, <2>4, <3>1
  <2> HIDE DEF i
  <2>6. k - 1 \in 0 .. Len(b.iov) /\ k \in 0 .. Len(b.iov) /\ Len(b.iov) \in k .. Len(b.iov)
    BY <1>1, <2>3
  <2>7. /\ LenUpto(b.iov, k) = LenUpto(b.iov, k - 1) + b.iov[k].len
        /\ LenUpto(b.iov, k - 1) \in Nat /\ LenUpto(b.iov, k) \in Nat /\ b.size \in Nat
        /\ LenUpto(b.iov, k) <= b.size
    <3>1. /\ LenUpto(b.iov, k) = LenUpto(b.iov, k - 1) + b.iov[k].len
          /\ LenUpto(b.iov, k - 1) \in Nat /\ LenUpto(b.iov, k) \in Nat
      BY <1>1, <2>3, <2>6, LenUptoIs
    <3>2. LenUpto(b.iov, k) <= LenUpto(b.iov, Len(b.iov))
      BY <1>1, <2>6, LenUptoGrows
    <3> QED
      BY <1>1, <3>1, <3>2 DEF Sound, BufT
  <2>8. b.iov[k].len \in Nat
    <3>1. b.iov[k] \in IovT
      BY <1>1, <2>3
    <3> QED
      BY <3>1 DEF IovT
  <2> DEFINE p == LenUpto(b.iov, k - 1) + i - 1
  <2>9. p \in 0 .. b.size - 1
    BY <2>5, <2>7, <2>8
  <2>10. find_pos_(h, b) = IF k > 1 /\ p > MaxLine THEN -1 ELSE p
    BY <1>4 DEF find_pos_, k, i
  <2> QED
    BY <2>3, <2>5, <2>9, <2>10
<1> QED
  BY <1>3, <1>4

LEMMA FoundIs ==
  ASSUME NEW h, NEW b, Sound(h, b)
  PROVE  find_pos_(h, b) = -1 \/ find_pos_(h, b) \in 0 .. b.size - 1
BY FoundAt

LEMMA GetLineKeeps ==
  ASSUME NEW lf \in BOOLEAN, IInv, GetLine(lf)
  PROVE  IInv'
<1> DEFINE p == find_pos_(heap, buf)
<1>1. taken' = taken /\ rdbuf' = rdbuf /\ body' = body
  BY DEF GetLine
<1>2. p = -1 \/ p \in Nat
  <2>1. buf.size \in Nat /\ Sound(heap, buf)
    BY IInvType DEF BufT
  <2>2. p = -1 \/ p \in 0 .. buf.size - 1
    BY <2>1, FoundIs
  <2> QED
    BY <2>1, <2>2
<1>3. \/ heap' = heap /\ buf' = buf
      \/ \E n \in Nat : \E e \in Nat : TakeLine(n, e)
  <2>1. CASE p > 0 /\ p # -1 /\ p # 0
    <3>1. p \in Nat /\ p - 1 \in Nat
      BY <1>2, <2>1
    <3>2. NoLine("bare") \/ TakeLine(p - 1, 2) \/ TakeLine(p, 1)
      BY <2>1 DEF GetLine
    <3> QED
      BY <3>1, <3>2 DEF NoLine
  <2>2. CASE p = 0
    BY <2>2 DEF GetLine, NoLine
  <2>3. CASE p = -1
    BY <2>3 DEF GetLine, NoLine
  <2> QED
    BY <1>2, <2>1, <2>2, <2>3
<1>4. Owned(heap, Bases(rdbuf), buf, body)
  BY TwoOfThree DEF IInv
<1>5. Owned(heap', Bases(rdbuf), buf', body') /\ Keeps(heap, heap', Bases(rdbuf))
  <2>1. CASE heap' = heap /\ buf' = buf
    BY <1>1, <1>4, <2>1 DEF Keeps
  <2>2. ASSUME NEW n \in Nat, NEW e \in Nat, TakeLine(n, e)
        PROVE  Owned(heap', Bases(rdbuf), buf', body') /\ Keeps(heap, heap', Bases(rdbuf))
    <3> DEFINE d == delete_size_(heap, buf, n)
               f == delete_size_(d.heap, d.b, e)
    <3>1. heap' = f.heap /\ buf' = f.b
      BY <2>2 DEF TakeLine
    <3>2. Owned(d.heap, Bases(rdbuf), d.b, body) /\ Keeps(heap, d.heap, Bases(rdbuf))
      BY <1>4, DeleteOwned
    <3> HIDE DEF d
    <3>3. Owned(f.heap, Bases(rdbuf), f.b, body) /\ Keeps(d.heap, f.heap, Bases(rdbuf))
      BY <3>2, DeleteOwned
    <3> HIDE DEF f
    <3>4. Keeps(heap, f.heap, Bases(rdbuf))
      BY <3>2, <3>3 DEF Keeps
    <3> QED
      BY <1>1, <3>1, <3>3, <3>4
  <2> QED
    BY <1>3, <2>1, <2>2
<1> QED
  BY <1>1, <1>5, OthersKept DEF IInv

LEMMA StepIInv == IInv /\ [Next]_vars => IInv'
<1> SUFFICES ASSUME IInv, [Next]_vars PROVE IInv'
  OBVIOUS
<1>1. CASE read_
  BY <1>1, ReadKeeps
<1>2. CASE move_
  BY <1>2, MoveKeeps
<1>3. CASE delete_
  BY <1>3, DeleteKeeps
<1>4. CASE write_
  BY <1>4, WriteKeeps
<1>5. CASE add_str
  BY <1>5, AddStrKeeps
<1>6. CASE clear_
  BY <1>6, ClearKeeps
<1>7. ASSUME NEW lf \in BOOLEAN, GetLine(lf) PROVE IInv'
  BY <1>7, GetLineKeeps
<1>8. CASE UNCHANGED vars
  BY <1>8 DEF vars, IInv, AllOwned, Full
<1> QED
  BY <1>1, <1>2, <1>3, <1>4, <1>5, <1>6, <1>7, <1>8 DEF Next

LEMMA Invariance == Spec => []IInv
<1> QED
  BY InitIInv, StepIInv, PTL DEF Spec

-----------------------------------------------------------------------------
(* The properties.                                                         *)

LEMMA IInvOneOwner == IInv => OneOwner
<1> SUFFICES ASSUME IInv PROVE OneOwner
  OBVIOUS
<1> DEFINE s == rdbuf  t == buf.iov  u == body.iov
           st == s \o t
           w == Iovs
           n == Len(w)
<1>1. s \in Seq(IovT) /\ t \in Seq(IovT) /\ u \in Seq(IovT) /\ Distinct(s) /\ Distinct(t) /\ Distinct(u)
      /\ DOMAIN heap = Bases(s) \union Bases(t) \union Bases(u)
      /\ Bases(s) \intersect Bases(t) = {} /\ Bases(s) \intersect Bases(u) = {}
      /\ Bases(t) \intersect Bases(u) = {}
  BY IInvType, ChainIs DEF IInv, AllOwned, Sound
<1> HIDE DEF s, t, u
<1>2. st \in Seq(IovT) /\ Distinct(st) /\ Bases(st) = Bases(s) \union Bases(t)
  BY <1>1, ConcatDistinct
<1> HIDE DEF st
<1>3. w = st \o u
  BY DEF Iovs, s, t, u, st
<1>4. w \in Seq(IovT) /\ Distinct(w) /\ Bases(w) = Bases(st) \union Bases(u)
  <2>1. Bases(st) \intersect Bases(u) = {}
    BY <1>1, <1>2
  <2> QED
    BY <1>1, <1>2, <1>3, <2>1, ConcatDistinct
<1> HIDE DEF w
<1>5. n \in Nat
  BY <1>4
<1>6. ExistsBijection(1 .. n, Bases(w))
  <2> DEFINE f == [k \in 1 .. n |-> w[k].base]
  <2>1. f \in [1 .. n -> Bases(w)]
    BY DEF Bases
  <2>2. \A i, j \in 1 .. n : f[i] = f[j] => i = j
    BY <1>4 DEF Distinct
  <2>3. \A a \in Bases(w) : \E i \in 1 .. n : f[i] = a
    BY DEF Bases
  <2> HIDE DEF f
  <2>4. f \in Bijection(1 .. n, Bases(w))
    BY <2>1, <2>2, <2>3 DEF Bijection, Injection, IsInjective, Surjection
  <2> QED
    BY <2>4 DEF ExistsBijection
<1>7. Cardinality(Bases(w)) = n
  BY <1>5, <1>6, FS_CountingElements
<1>8. Bases(w) = DOMAIN heap
  BY <1>1, <1>2, <1>4
<1> QED
  BY <1>7, <1>8 DEF OneOwner, w

(* Every live block has exactly one owner, and every owner's block is live: *)
(* after any sequence of reads, moves (which give blocks away or copy),     *)
(* deletions, lines taken and writes, no block is leaked, freed twice or    *)
(* used after it was freed.                                                 *)
THEOREM OneOwnerAlways == Spec => []OneOwner
<1> QED
  BY Invariance, IInvOneOwner, PTL

(* _buf_size is the length of what the chain holds, no block in it is       *)
(* empty, and _partial_point never points past the first block.             *)
THEOREM CountsAlwaysAgree == Spec => []CountsAgree
<1>1. IInv => CountsAgree
  <2> SUFFICES ASSUME IInv PROVE CountsAgree
    OBVIOUS
  <2>1. ASSUME NEW b, Sound(heap, b) PROVE Chained(b)
    <3>1. /\ b.size = LenUpto(b.iov, Len(b.iov)) /\ (b.iov = <<>> => b.pp = 0) /\ b.iov \in Seq(IovT)
          /\ \A k \in 1 .. Len(b.iov) :
                b.iov[k].len > 0 /\ Used(b, k) + b.iov[k].len <= Len(heap[b.iov[k].base])
      BY <2>1 DEF Sound, BufT
    <3>2. CASE b.iov = <<>>
      BY <3>1, <3>2 DEF Chained
    <3>3. CASE b.iov # <<>>
      <4>1. 1 \in 1 .. Len(b.iov)
        BY <3>1, <3>3
      <4>2. b.pp + b.iov[1].len <= Len(heap[b.iov[1].base])
        BY <3>1, <4>1 DEF Used
      <4> QED
        BY <3>1, <3>3, <4>2 DEF Chained
    <3> QED
      BY <3>2, <3>3
  <2> QED
    BY <2>1, IInvType DEF CountsAgree
<1> QED
  BY <1>1, Invariance, PTL

(* What is left in the shared read buffer is whole blocks: one that carried *)
(* a short read has gone to a chain and is never filled again.              *)
THEOREM ReadBufferAlwaysWhole == Spec => []ReadBufferWhole
<1>1. IInv => ReadBufferWhole
  BY DEF IInv, Full, ReadBufferWhole
<1> QED
  BY <1>1, Invariance, PTL

-----------------------------------------------------------------------------
(* The bytes of a chain.  They are told by their place: byte j of block k   *)
(* follows the bytes of the blocks before it.                              *)
Bytes(h, b) == BytesUpto(h, b, Len(b.iov))
Prefix(q, n) == SubSeq(q, 1, n)
Drop(q, n)   == SubSeq(q, n + 1, Len(q))
Join(p, q)   == p \o q

LEMMA DropIs ==
  ASSUME NEW q \in Seq(Nat), NEW n \in 0 .. Len(q)
  PROVE  /\ Drop(q, n) \in Seq(Nat) /\ Len(Drop(q, n)) = Len(q) - n
         /\ \A i \in 1 .. Len(q) - n : Drop(q, n)[i] = q[n + i]
<1>1. Len(q) \in Nat /\ n \in Nat /\ n <= Len(q) /\ n + 1 \in Int /\ Len(q) \in Int
  OBVIOUS
<1>2. \A i \in n + 1 .. Len(q) : q[i] \in Nat
  BY <1>1
<1>3. /\ Drop(q, n) \in Seq(Nat)
      /\ Len(Drop(q, n)) = IF n + 1 <= Len(q) THEN Len(q) - (n + 1) + 1 ELSE 0
      /\ \A i \in 1 .. Len(q) - (n + 1) + 1 : Drop(q, n)[i] = q[(n + 1) + i - 1]
  BY <1>1, <1>2, SubSeqProperties DEF Drop
<1>4. Len(Drop(q, n)) = Len(q) - n /\ Len(q) - (n + 1) + 1 = Len(q) - n
  BY <1>1, <1>3
<1>5. \A i \in 1 .. Len(q) - n : Drop(q, n)[i] = q[n + i]
  <2> TAKE i \in 1 .. Len(q) - n
  <2>1. (n + 1) + i - 1 = n + i
    BY <1>1
  <2>2. Drop(q, n)[i] = q[(n + 1) + i - 1]
    BY <1>3, <1>4
  <2> QED
    BY <2>1, <2>2
<1> QED
  BY <1>3, <1>4, <1>5

LEMMA PrefixIs ==
  ASSUME NEW q \in Seq(Nat), NEW n \in 0 .. Len(q)
  PROVE  /\ Prefix(q, n) \in Seq(Nat) /\ Len(Prefix(q, n)) = n
         /\ \A i \in 1 .. n : Prefix(q, n)[i] = q[i]
<1> DEFINE u == Prefix(q, n)
<1>1. Len(q) \in Nat /\ n \in Nat /\ n <= Len(q) /\ n \in Int /\ 1 \in Int
  OBVIOUS
<1>2. \A i \in 1 .. n : q[i] \in Nat
  BY <1>1
<1>3. /\ u \in Seq(Nat) /\ Len(u) = IF 1 <= n THEN n - 1 + 1 ELSE 0
      /\ \A i \in 1 .. n - 1 + 1 : u[i] = q[1 + i - 1]
  BY <1>1, <1>2, SubSeqProperties DEF Prefix
<1> HIDE DEF u
<1>4. Len(u) = n /\ n - 1 + 1 = n
  BY <1>1, <1>3
<1>5. \A i \in 1 .. n : u[i] = q[i]
  <2> TAKE i \in 1 .. n
  <2>1. 1 + i - 1 = i
    BY <1>1
  <2>2. u[i] = q[1 + i - 1]
    BY <1>3, <1>4
  <2> QED
    BY <2>1, <2>2
<1> QED
  BY <1>3, <1>4, <1>5 DEF u

LEMMA JoinIs ==
  ASSUME NEW p \in Seq(Nat), NEW q \in Seq(Nat)
  PROVE  /\ Join(p, q) \in Seq(Nat) /\ Len(Join(p, q)) = Len(p) + Len(q)
         /\ \A i \in 1 .. Len(p) + Len(q) : Join(p, q)[i] = IF i <= Len(p) THEN p[i] ELSE q[i - Len(p)]
BY ConcatProperties DEF Join

LEMMA JoinAssociative ==
  ASSUME NEW p \in Seq(Nat), NEW q \in Seq(Nat), NEW r \in Seq(Nat)
  PROVE  Join(Join(p, q), r) = Join(p, Join(q, r))
<1>1. (p \o q) \o r = p \o (q \o r)
  OBVIOUS
<1> QED
  BY <1>1 DEF Join

LEMMA SameBytes ==
  ASSUME NEW p \in Seq(Nat), NEW q \in Seq(Nat), Len(p) = Len(q), \A i \in 1 .. Len(p) : p[i] = q[i]
  PROVE  p = q
OBVIOUS

(* A slice is the bytes of the block from where they begin.                *)
LEMMA SliceAt ==
  ASSUME NEW h, IsHeap(h), NEW b, Sound(h, b), NEW k \in 1 .. Len(b.iov)
  PROVE  /\ Slice(h, b, k) \in Seq(Nat) /\ Len(Slice(h, b, k)) = b.iov[k].len /\ b.iov[k].len \in Nat
         /\ \A j \in 1 .. b.iov[k].len : Slice(h, b, k)[j] = h[b.iov[k].base][Used(b, k) + j]
<1> DEFINE w == h[b.iov[k].base]
           u == Used(b, k)
           len == b.iov[k].len
           s == Slice(h, b, k)
<1>1. b.iov \in Seq(IovT) /\ b.pp \in Nat
  BY DEF Sound, BufT
<1>2. len \in Nat
  <2>1. b.iov[k] \in IovT
    BY <1>1
  <2> QED
    BY <2>1 DEF IovT
<1>3. w \in Seq(Nat) /\ u + len <= Len(w)
  BY DEF Sound, IsHeap
<1>4. u \in Nat
  BY <1>1 DEF Used
<1>5. s = SubSeq(w, u + 1, u + len)
  BY DEF Slice, Used
<1>6. len \in 0 .. len
  BY <1>2
<1>7. s \in Seq(Nat) /\ Len(s) = len
  BY <1>6, SliceIs
<1>8. Len(w) \in Nat
  BY <1>3
<1> HIDE DEF w, u, len
<1>9. \A j \in 1 .. len : s[j] = w[u + j]
  <2>1. \A i \in u + 1 .. u + len : w[i] \in Nat
    BY <1>2, <1>3, <1>4, <1>8
  <2>2. u + 1 \in Int /\ u + len \in Int
    BY <1>2, <1>4
  <2>3. \A i \in 1 .. (u + len) - (u + 1) + 1 : s[i] = w[(u + 1) + i - 1]
    BY <1>5, <2>1, <2>2, SubSeqProperties
  <2> HIDE DEF s
  <2> TAKE j \in 1 .. len
  <2>4. j \in 1 .. (u + len) - (u + 1) + 1 /\ (u + 1) + j - 1 = u + j
    BY <1>2, <1>4
  <2> QED
    BY <2>3, <2>4
<1> QED
  BY <1>2, <1>7, <1>9 DEF w, u, len

LEMMA BytesIs ==
  ASSUME NEW h, IsHeap(h), NEW b, Sound(h, b)
  PROVE  /\ BytesUpto(h, b, 0) = <<>>
         /\ \A k \in 1 .. Len(b.iov) : BytesUpto(h, b, k) = BytesUpto(h, b, k - 1) \o Slice(h, b, k)
         /\ \A k \in 0 .. Len(b.iov) : /\ BytesUpto(h, b, k) \in Seq(Nat)
                                       /\ Len(BytesUpto(h, b, k)) = LenUpto(b.iov, k)
<1> DEFINE n == Len(b.iov)
           none == <<>>
           step == [p \in (1 .. n) \X Seq(Nat) |-> p[2] \o Slice(h, b, p[1])]
           Is(f) == f = [i \in 0 .. n |-> IF i = 0 THEN none ELSE f[i - 1] \o Slice(h, b, i)]
<1>1. n \in Nat /\ b.iov \in Seq(IovT)
  BY DEF Sound, BufT
<1>2. \A k \in 1 .. n : Slice(h, b, k) \in Seq(Nat) /\ Len(Slice(h, b, k)) = b.iov[k].len
  BY SliceAt
<1>3. \A k \in 1 .. n : LenUpto(b.iov, k) = LenUpto(b.iov, k - 1) + b.iov[k].len
  BY <1>1, LenUptoIs
<1>4. LenUpto(b.iov, 0) = 0
  BY <1>1, LenUptoIs
<1>18. none \in Seq(Nat) /\ Len(none) = 0
  OBVIOUS
<1> HIDE DEF n, none
<1>5. step \in [(1 .. n) \X Seq(Nat) -> Seq(Nat)]
  <2>1. \A p \in (1 .. n) \X Seq(Nat) : p[2] \o Slice(h, b, p[1]) \in Seq(Nat)
    BY <1>2
  <2> QED
    BY <2>1
<1>6. PICK g \in [0 .. n -> Seq(Nat)] :
         g[0] = none /\ \A k \in 1 .. n : g[k] = step[<<k, g[k - 1]>>]
  <2> HIDE DEF step
  <2>1. Iterated(n, Seq(Nat), none, step)
    BY <1>1, <1>5, <1>18, Recursion
  <2> QED
    BY <2>1 DEF Iterated
<1>7. Is(g)
  <2>1. \A k \in 1 .. n : g[k] = g[k - 1] \o Slice(h, b, k)
    <3> TAKE k \in 1 .. n
    <3>1. k - 1 \in 0 .. n
      BY <1>1
    <3>2. g[k - 1] \in Seq(Nat)
      BY <3>1
    <3>3. step[<<k, g[k - 1]>>] = g[k - 1] \o Slice(h, b, k)
      BY <3>2
    <3> QED
      BY <1>6, <3>3
  <2>2. DOMAIN g = 0 .. n /\ g = [i \in 0 .. n |-> g[i]]
    BY <1>6
  <2>3. \A i \in 0 .. n : g[i] = IF i = 0 THEN none ELSE g[i - 1] \o Slice(h, b, i)
    <3> TAKE i \in 0 .. n
    <3>1. CASE i = 0
      BY <1>6, <3>1
    <3>2. CASE i # 0
      <4>1. i \in 1 .. n
        BY <1>1, <3>2
      <4> QED
        BY <2>1, <3>2, <4>1, Zenon
    <3> QED
      BY <3>1, <3>2
  <2> QED
    BY <2>2, <2>3, Zenon
<1> DEFINE f == CHOOSE f : Is(f)
<1>8. Is(f)
  <2> HIDE DEF Is
  <2> QED
    BY <1>7
<1>9. \A k \in 0 .. n : BytesUpto(h, b, k) = f[k]
  BY DEF BytesUpto, n, none
<1> HIDE DEF f
<1>10. f[0] = none /\ \A k \in 1 .. n : f[k] = f[k - 1] \o Slice(h, b, k)
  <2>1. \A i \in 0 .. n : f[i] = IF i = 0 THEN none ELSE f[i - 1] \o Slice(h, b, i)
    BY <1>8, Zenon
  <2>2. 0 \in 0 .. n /\ \A k \in 1 .. n : k \in 0 .. n /\ k # 0
    BY <1>1
  <2> QED
    BY <2>1, <2>2
<1> HIDE DEF Is, step
<1> DEFINE T == {k \in 0 .. n : f[k] \in Seq(Nat) /\ Len(f[k]) = LenUpto(b.iov, k)}
<1>11. 0 \in T
  <2>1. f[0] \in Seq(Nat) /\ Len(f[0]) = LenUpto(b.iov, 0)
    BY <1>4, <1>10, <1>18, Zenon
  <2> QED
    BY <1>1, <2>1
<1>12. ASSUME NEW k \in 0 .. n - 1, k \in T PROVE k + 1 \in T
  <2>1. k + 1 \in 1 .. n /\ (k + 1) - 1 = k
    BY <1>1
  <2>2. f[k] \in Seq(Nat) /\ Len(f[k]) = LenUpto(b.iov, k)
    BY <1>12
  <2>3. f[k + 1] = f[k] \o Slice(h, b, k + 1)
    BY <1>10, <2>1
  <2>4. Slice(h, b, k + 1) \in Seq(Nat) /\ Len(Slice(h, b, k + 1)) = b.iov[k + 1].len
    BY <1>2, <2>1
  <2>5. LenUpto(b.iov, k + 1) = LenUpto(b.iov, k) + b.iov[k + 1].len
    BY <1>3, <2>1
  <2>6. f[k + 1] \in Seq(Nat) /\ Len(f[k + 1]) = LenUpto(b.iov, k + 1)
    <3> DEFINE s == f[k]  t == Slice(h, b, k + 1)
    <3>1. s \in Seq(Nat) /\ t \in Seq(Nat)
      BY <2>2, <2>4
    <3> HIDE DEF s, t
    <3>2. s \o t \in Seq(Nat) /\ Len(s \o t) = Len(s) + Len(t)
      BY <3>1, ConcatProperties
    <3> QED
      BY <2>2, <2>3, <2>4, <2>5, <3>2 DEF s, t
  <2> QED
    BY <1>1, <2>1, <2>6
<1>13. \A k \in 0 .. n : k \in T
  <2> HIDE DEF T
  <2> QED
    BY <1>1, <1>11, <1>12, NatCounts
<1>14. \A k \in 0 .. n : f[k] \in Seq(Nat) /\ Len(f[k]) = LenUpto(b.iov, k)
  BY <1>13
<1> HIDE DEF T
<1>15. BytesUpto(h, b, 0) = <<>>
  BY <1>1, <1>9, <1>10 DEF none
<1>16. \A k \in 1 .. n : BytesUpto(h, b, k) = BytesUpto(h, b, k - 1) \o Slice(h, b, k)
  <2> TAKE k \in 1 .. n
  <2>1. k \in 0 .. n /\ k - 1 \in 0 .. n
    BY <1>1
  <2> QED
    BY <1>9, <1>10, <2>1
<1>17. \A k \in 0 .. n : BytesUpto(h, b, k) \in Seq(Nat) /\ Len(BytesUpto(h, b, k)) = LenUpto(b.iov, k)
  BY <1>9, <1>14
<1> QED
  BY <1>15, <1>16, <1>17 DEF n

(* The bytes of the first blocks are a prefix of those of more.            *)
LEMMA BytesPrefix ==
  ASSUME NEW h, IsHeap(h), NEW b, Sound(h, b), NEW j \in 0 .. Len(b.iov), NEW k \in j .. Len(b.iov)
  PROVE  \A i \in 1 .. LenUpto(b.iov, j) : BytesUpto(h, b, k)[i] = BytesUpto(h, b, j)[i]
<1> DEFINE n == Len(b.iov)
           L == LenUpto(b.iov, j)
           T == {m \in 0 .. k - j : \A i \in 1 .. L : BytesUpto(h, b, j + m)[i] = BytesUpto(h, b, j)[i]}
<1>1. n \in Nat /\ b.iov \in Seq(IovT) /\ j \in Nat /\ k \in Nat /\ k - j \in Nat /\ j <= k /\ k <= n
  BY DEF Sound, BufT
<1>2. L \in Nat
  BY <1>1, LenUptoIs
<1>3. 0 \in T
  <2>1. j + 0 = j
    BY <1>1
  <2> QED
    BY <1>1, <2>1
<1>4. ASSUME NEW m \in 0 .. (k - j) - 1, m \in T PROVE m + 1 \in T
  <2>1. /\ j + (m + 1) \in 1 .. n /\ (j + (m + 1)) - 1 = j + m /\ j + m \in 0 .. n
        /\ j + m \in j .. n /\ m + 1 \in 0 .. k - j
    BY <1>1
  <2>2. BytesUpto(h, b, j + (m + 1)) = BytesUpto(h, b, j + m) \o Slice(h, b, j + (m + 1))
    BY <2>1, BytesIs
  <2>3. BytesUpto(h, b, j + m) \in Seq(Nat) /\ Len(BytesUpto(h, b, j + m)) = LenUpto(b.iov, j + m)
    BY <2>1, BytesIs
  <2>4. Slice(h, b, j + (m + 1)) \in Seq(Nat)
    BY <2>1, SliceAt
  <2>5. L <= LenUpto(b.iov, j + m) /\ LenUpto(b.iov, j + m) \in Nat
    BY <1>1, <2>1, LenUptoGrows, LenUptoIs
  <2>6. \A i \in 1 .. L : BytesUpto(h, b, j + (m + 1))[i] = BytesUpto(h, b, j + m)[i]
    BY <1>2, <2>2, <2>3, <2>4, <2>5, ConcatProperties
  <2> QED
    BY <1>4, <2>1, <2>6
<1>5. \A m \in 0 .. k - j : m \in T
  <2> HIDE DEF T
  <2> QED
    BY <1>1, <1>3, <1>4, NatCounts
<1>6. k - j \in 0 .. k - j /\ j + (k - j) = k
  BY <1>1
<1> QED
  BY <1>5, <1>6

LEMMA BytesAt ==
  ASSUME NEW h, IsHeap(h), NEW b, Sound(h, b)
  PROVE  /\ Bytes(h, b) \in Seq(Nat) /\ Len(Bytes(h, b)) = b.size
         /\ \A k \in 1 .. Len(b.iov) : \A j \in 1 .. b.iov[k].len :
               /\ LenUpto(b.iov, k - 1) + j \in 1 .. b.size
               /\ Bytes(h, b)[LenUpto(b.iov, k - 1) + j] = Slice(h, b, k)[j]
               /\ Bytes(h, b)[LenUpto(b.iov, k - 1) + j] = h[b.iov[k].base][Used(b, k) + j]
<1> DEFINE n == Len(b.iov)
<1>1. n \in Nat /\ b.iov \in Seq(IovT) /\ b.size = LenUpto(b.iov, n) /\ n \in 0 .. n /\ b.size \in Nat
  BY DEF Sound, BufT
<1>2. Bytes(h, b) \in Seq(Nat) /\ Len(Bytes(h, b)) = b.size
  BY <1>1, BytesIs DEF Bytes
<1>3. ASSUME NEW k \in 1 .. n, NEW j \in 1 .. b.iov[k].len
      PROVE  /\ LenUpto(b.iov, k - 1) + j \in 1 .. b.size
             /\ Bytes(h, b)[LenUpto(b.iov, k - 1) + j] = Slice(h, b, k)[j]
             /\ Bytes(h, b)[LenUpto(b.iov, k - 1) + j] = h[b.iov[k].base][Used(b, k) + j]
  <2> DEFINE a == LenUpto(b.iov, k - 1)
             c == LenUpto(b.iov, k)
  <2>1. k \in 0 .. n /\ k - 1 \in 0 .. n /\ n \in k .. n
    BY <1>1
  <2>2. a \in Nat /\ c = a + b.iov[k].len /\ c \in Nat
    BY <1>1, <2>1, LenUptoIs
  <2>3. b.iov[k].len \in Nat
    BY SliceAt
  <2>4. c <= b.size
    BY <1>1, <2>1, LenUptoGrows
  <2>5. a + j \in 1 .. c /\ a + j \in 1 .. b.size
    BY <1>1, <2>2, <2>3, <2>4
  <2>6. Bytes(h, b)[a + j] = BytesUpto(h, b, k)[a + j]
    BY <2>1, <2>5, BytesPrefix DEF Bytes
  <2>7. BytesUpto(h, b, k) = BytesUpto(h, b, k - 1) \o Slice(h, b, k)
    BY BytesIs
  <2>8. BytesUpto(h, b, k - 1) \in Seq(Nat) /\ Len(BytesUpto(h, b, k - 1)) = a
    BY <2>1, BytesIs
  <2>9. Slice(h, b, k) \in Seq(Nat) /\ Len(Slice(h, b, k)) = b.iov[k].len
    BY SliceAt
  <2>10. Slice(h, b, k)[j] = h[b.iov[k].base][Used(b, k) + j]
    BY SliceAt
  <2> HIDE DEF a, c, n
  <2>11. BytesUpto(h, b, k)[a + j] = Slice(h, b, k)[j]
    <3> DEFINE s == BytesUpto(h, b, k - 1)  t == Slice(h, b, k)
    <3>1. s \in Seq(Nat) /\ t \in Seq(Nat) /\ Len(s) = a /\ Len(t) = b.iov[k].len
      BY <2>8, <2>9
    <3>2. BytesUpto(h, b, k) = s \o t
      BY <2>7
    <3> HIDE DEF s, t
    <3>3. \A i \in 1 .. Len(s) + Len(t) : (s \o t)[i] = IF i <= Len(s) THEN s[i] ELSE t[i - Len(s)]
      BY <3>1, ConcatProperties
    <3>4. a + j \in 1 .. Len(s) + Len(t) /\ ~(a + j <= Len(s)) /\ (a + j) - Len(s) = j
      BY <2>2, <2>3, <3>1
    <3>5. (s \o t)[a + j] = t[j]
      BY <3>3, <3>4
    <3> QED
      BY <3>2, <3>5 DEF t
  <2> QED
    BY <2>5, <2>6, <2>10, <2>11 DEF a
<1> QED
  BY <1>2, <1>3

(* Every place is in some block.                                           *)
LEMMA Located ==
  ASSUME NEW s \in Seq(IovT), NEW i \in 1 .. LenUpto(s, Len(s))
  PROVE  \E k \in 1 .. Len(s) : \E j \in 1 .. s[k].len : i = LenUpto(s, k - 1) + j
<1> DEFINE m == Whole(s, i - 1)
<1>1. Len(s) \in Nat /\ LenUpto(s, Len(s)) \in Nat /\ i \in Nat /\ i - 1 \in Nat
  <2>1. Len(s) \in 0 .. Len(s)
    OBVIOUS
  <2>2. LenUpto(s, Len(s)) \in Nat
    BY <2>1, LenUptoIs
  <2> QED
    BY <2>2
<1>2. m \in 0 .. Len(s) /\ LenUpto(s, m) <= i - 1 /\ (m = Len(s) \/ LenUpto(s, m + 1) > i - 1)
  BY <1>1, WholeIs
<1> HIDE DEF m
<1>3. m # Len(s)
  BY <1>1, <1>2
<1>4. m + 1 \in 1 .. Len(s) /\ (m + 1) - 1 = m
  BY <1>1, <1>2, <1>3
<1>5. LenUpto(s, m + 1) = LenUpto(s, m) + s[m + 1].len /\ LenUpto(s, m) \in Nat
  BY <1>2, <1>4, LenUptoIs
<1>6. s[m + 1].len \in Nat
  <2>1. s[m + 1] \in IovT
    BY <1>4
  <2> QED
    BY <2>1 DEF IovT
<1> DEFINE j == i - LenUpto(s, m)
<1>7. j \in 1 .. s[m + 1].len /\ i = LenUpto(s, m) + j
  BY <1>1, <1>2, <1>3, <1>5, <1>6
<1> HIDE DEF j
<1> QED
  BY <1>4, <1>7

LEMMA BytesAre ==
  ASSUME NEW h, IsHeap(h), NEW b, Sound(h, b), NEW q \in Seq(Nat), Len(q) = b.size,
         \A k \in 1 .. Len(b.iov) : \A j \in 1 .. b.iov[k].len :
            q[LenUpto(b.iov, k - 1) + j] = h[b.iov[k].base][Used(b, k) + j]
  PROVE  Bytes(h, b) = q
<1>1. Bytes(h, b) \in Seq(Nat) /\ Len(Bytes(h, b)) = b.size
  BY BytesAt
<1>2. ASSUME NEW i \in 1 .. b.size PROVE Bytes(h, b)[i] = q[i]
  <2>1. b.iov \in Seq(IovT) /\ i \in 1 .. LenUpto(b.iov, Len(b.iov))
    BY DEF Sound, BufT
  <2>2. PICK k \in 1 .. Len(b.iov) : \E j \in 1 .. b.iov[k].len : i = LenUpto(b.iov, k - 1) + j
    BY <2>1, Located
  <2>3. PICK j \in 1 .. b.iov[k].len : i = LenUpto(b.iov, k - 1) + j
    BY <2>2
  <2>4. Bytes(h, b)[LenUpto(b.iov, k - 1) + j] = h[b.iov[k].base][Used(b, k) + j]
    BY BytesAt
  <2> QED
    BY <2>3, <2>4
<1> QED
  BY <1>1, <1>2, SameBytes

(* Pieces of a sequence.                                                   *)
LEMMA TwoPieces ==
  ASSUME NEW q \in Seq(Nat), NEW a \in 0 .. Len(q), NEW c \in 0 .. Len(q) - a
  PROVE  /\ Join(Prefix(q, a), Prefix(Drop(q, a), c)) = Prefix(q, a + c)
         /\ Drop(Drop(q, a), c) = Drop(q, a + c)
<1> DEFINE s == Prefix(q, a)
           r == Drop(q, a)
           t == Prefix(r, c)
           w == Join(s, t)
           u == Prefix(q, a + c)
           d == Drop(r, c)
           e == Drop(q, a + c)
<1>1. Len(q) \in Nat /\ a \in Nat /\ c \in Nat /\ a + c \in 0 .. Len(q) /\ a + c \in Nat
  OBVIOUS
<1>2. s \in Seq(Nat) /\ Len(s) = a /\ \A i \in 1 .. a : s[i] = q[i]
  BY PrefixIs
<1>3. r \in Seq(Nat) /\ Len(r) = Len(q) - a /\ \A i \in 1 .. Len(q) - a : r[i] = q[a + i]
  BY DropIs
<1> HIDE DEF s, r
<1>4. c \in 0 .. Len(r)
  BY <1>3
<1>5. t \in Seq(Nat) /\ Len(t) = c /\ \A i \in 1 .. c : t[i] = r[i]
  BY <1>3, <1>4, PrefixIs
<1>6. d \in Seq(Nat) /\ Len(d) = Len(r) - c /\ \A i \in 1 .. Len(r) - c : d[i] = r[c + i]
  BY <1>3, <1>4, DropIs
<1>7. u \in Seq(Nat) /\ Len(u) = a + c /\ \A i \in 1 .. a + c : u[i] = q[i]
  BY <1>1, PrefixIs
<1>8. e \in Seq(Nat) /\ Len(e) = Len(q) - (a + c) /\ \A i \in 1 .. Len(q) - (a + c) : e[i] = q[a + c + i]
  BY <1>1, DropIs
<1> HIDE DEF t, u, d, e
<1>9. /\ w \in Seq(Nat) /\ Len(w) = a + c
      /\ \A i \in 1 .. a + c : w[i] = IF i <= a THEN s[i] ELSE t[i - a]
  BY <1>2, <1>5, JoinIs
<1> HIDE DEF w
<1>10. w = u
  <2>1. \A i \in 1 .. a + c : w[i] = u[i]
    <3> TAKE i \in 1 .. a + c
    <3>1. CASE i <= a
      <4>1. i \in 1 .. a
        BY <1>1, <3>1
      <4>2. w[i] = s[i] /\ s[i] = q[i] /\ u[i] = q[i]
        BY <1>2, <1>7, <1>9, <4>1, <3>1
      <4> QED
        BY <4>2
    <3>2. CASE i > a
      <4>1. i - a \in 1 .. c /\ i - a \in 1 .. Len(q) - a /\ a + (i - a) = i
        BY <1>1, <3>2
      <4>2. t[i - a] = q[i]
        BY <1>3, <1>5, <4>1
      <4> QED
        <5>1. ~(i <= a)
          BY <1>1, <3>2
        <5>2. w[i] = t[i - a] /\ u[i] = q[i]
          BY <1>7, <1>9, <5>1
        <5> QED
          BY <4>2, <5>2
    <3> QED
      BY <1>1, <3>1, <3>2
  <2> QED
    BY <1>7, <1>9, <2>1, SameBytes
<1>11. d = e
  <2>1. Len(d) = Len(e) /\ Len(d) = Len(q) - (a + c)
    BY <1>1, <1>3, <1>6, <1>8
  <2>2. \A i \in 1 .. Len(d) : d[i] = e[i]
    <3> TAKE i \in 1 .. Len(d)
    <3>1. /\ i \in 1 .. Len(r) - c /\ c + i \in 1 .. Len(q) - a /\ i \in 1 .. Len(q) - (a + c)
          /\ a + (c + i) = a + c + i
      BY <1>1, <1>3, <2>1
    <3>2. d[i] = q[a + (c + i)]
      BY <1>3, <1>6, <3>1
    <3> QED
      BY <1>8, <3>1, <3>2
  <2> QED
    BY <1>6, <1>8, <2>1, <2>2, SameBytes
<1> QED
  BY <1>10, <1>11 DEF s, r, t, w, u, d, e

(* Chains do not notice what happens to other blocks.                      *)
LEMMA BytesFrame ==
  ASSUME NEW h, IsHeap(h), NEW g, IsHeap(g), NEW b, Sound(h, b),
         \A a \in Bases(b.iov) : a \in DOMAIN g /\ g[a] = h[a]
  PROVE  Bytes(g, b) = Bytes(h, b)
<1>1. Sound(g, b)
  BY SoundFrame
<1>2. Bytes(h, b) \in Seq(Nat) /\ Len(Bytes(h, b)) = b.size
  BY BytesAt
<1>3. \A k \in 1 .. Len(b.iov) : g[b.iov[k].base] = h[b.iov[k].base]
  BY DEF Bases
<1>4. \A k \in 1 .. Len(b.iov) : \A j \in 1 .. b.iov[k].len :
         Bytes(h, b)[LenUpto(b.iov, k - 1) + j] = g[b.iov[k].base][Used(b, k) + j]
  BY <1>3, BytesAt
<1> QED
  BY <1>1, <1>2, <1>4, BytesAre

(* Deletion drops bytes from the front.                                    *)
LEMMA BytesLeft ==
  ASSUME NEW h, IsHeap(h), NEW b, Sound(h, b), NEW n \in 0 .. b.size
  PROVE  Bytes(h, delete_size_for_move_(b, n)) = Drop(Bytes(h, b), n)
<1> DEFINE d == delete_size_for_move_(b, n)
           p == Bytes(h, b)
           q == Drop(p, n)
           s == b.iov
           t == d.iov
<1>1. /\ b.size \in Nat /\ s \in Seq(IovT) /\ n \in Nat /\ n <= b.size /\ Len(s) \in Nat
      /\ b.size = LenUpto(s, Len(s)) /\ b.pp \in Nat
  BY DEF Sound, BufT
<1>2. p \in Seq(Nat) /\ Len(p) = b.size
  BY BytesAt
<1>7. \A o \in 1 .. Len(b.iov) : \A j \in 1 .. b.iov[o].len :
         Bytes(h, b)[LenUpto(b.iov, o - 1) + j] = h[b.iov[o].base][Used(b, o) + j]
  <2> HIDE DEF d, p, q, s, t
  <2> QED
    BY BytesAt
<1>3. q \in Seq(Nat) /\ Len(q) = b.size - n /\ \A i \in 1 .. b.size - n : q[i] = p[n + i]
  BY <1>2, DropIs
<1>4. Sound(h, d)
  BY LeftSound
<1>5. CASE n = b.size
  <2>1. d = Empty
    BY <1>1, <1>5 DEF delete_size_for_move_
  <2>2. d.iov = <<>> /\ d.size = 0
    BY <2>1 DEF Empty
  <2>3. \A k \in 1 .. Len(d.iov) : FALSE
    BY <2>2
  <2>4. Len(q) = d.size
    BY <1>1, <1>3, <1>5, <2>2
  <2> HIDE DEF d, q
  <2>5. Bytes(h, d) = q
    BY <1>3, <1>4, <2>3, <2>4, BytesAre
  <2> QED
    BY <2>5 DEF d, q
<1>6. CASE n < b.size
  <2> DEFINE k == Whole(s, n)
             left == n - LenUpto(s, k)
  <2>1. IsRest(b, d, k, left)
    BY <1>1, <1>6, DeletedIsRest
  <2>2. /\ k \in 0 .. Len(s) - 1 /\ left \in 0 .. s[k + 1].len - 1
        /\ t \in Seq(IovT) /\ Len(t) = Len(s) - k
        /\ \A j \in 1 .. Len(t) :
              /\ t[j].base = s[k + j].base
              /\ t[j].len = IF j = 1 THEN s[k + j].len - left ELSE s[k + j].len
        /\ d.pp = Used(b, k + 1) + left
        /\ d.size = b.size - (LenUpto(s, k) + left)
    BY <2>1 DEF IsRest, BufT
  <2> HIDE DEF k, d, p, s, t
  <2>10. \A o \in 1 .. Len(s) : \A j \in 1 .. s[o].len :
            p[LenUpto(s, o - 1) + j] = h[s[o].base][Used(b, o) + j]
    BY <1>7 DEF p, s
  <2>3. k \in 0 .. Len(s) /\ k + 1 \in 1 .. Len(s) /\ k \in Nat /\ Len(t) \in Nat /\ Len(t) >= 1
    BY <1>1, <2>2
  <2>4. LenUpto(s, k) \in Nat
    BY <1>1, <2>3, LenUptoIs
  <2>5. left \in Nat /\ d.size = b.size - n /\ n = LenUpto(s, k) + left
    <3>1. s[k + 1].len \in Nat
      <4>1. s[k + 1] \in IovT
        BY <1>1, <2>3
      <4> QED
        BY <4>1 DEF IovT
    <3> QED
      BY <1>1, <2>2, <2>4, <3>1
  <2> HIDE DEF left
  <2>6. \A i \in 1 .. Len(t) : LenUpto(t, i) = LenUpto(s, k + i) - LenUpto(s, k) - left
    <3>1. t[1].len = s[k + 1].len - left /\ \A j \in 2 .. Len(t) : t[j].len = s[k + j].len
      BY <2>2, <2>3
    <3> QED
      BY <1>1, <2>2, <2>5, <3>1, LenUptoRest
  <2>7. ASSUME NEW i \in 1 .. Len(t), NEW j \in 1 .. t[i].len
        PROVE  q[LenUpto(t, i - 1) + j] = h[t[i].base][Used(d, i) + j]
    <3> DEFINE l == IF i = 1 THEN left + j ELSE j
    <3>1. k + i \in 1 .. Len(s) /\ (k + i) - 1 = k + (i - 1) /\ k + (i - 1) \in 0 .. Len(s)
      BY <1>1, <2>2, <2>3
    <3>2. s[k + i].len \in Nat /\ t[i].len \in Nat /\ i \in Nat /\ j \in Nat
      <4>1. s[k + i] \in IovT /\ t[i] \in IovT
        BY <1>1, <2>2, <3>1
      <4> QED
        BY <2>3, <4>1 DEF IovT
    <3>3. l \in 1 .. s[k + i].len
      BY <2>2, <2>5, <3>2
    <3>4. n + (LenUpto(t, i - 1) + j) = LenUpto(s, (k + i) - 1) + l
      <4>1. CASE i = 1
        <5>1. LenUpto(t, 0) = 0
          BY <2>2, LenUptoIs
        <5>2. i - 1 = 0 /\ (k + i) - 1 = k /\ l = left + j
          BY <2>3, <4>1
        <5> QED
          BY <2>4, <2>5, <3>2, <5>1, <5>2
      <4>2. CASE i > 1
        <5>1. i - 1 \in 1 .. Len(t)
          BY <2>3, <4>2
        <5>2. LenUpto(t, i - 1) = LenUpto(s, k + (i - 1)) - LenUpto(s, k) - left
          BY <2>6, <5>1
        <5>3. LenUpto(s, k + (i - 1)) \in Nat
          BY <1>1, <3>1, LenUptoIs
        <5>4. l = j
          BY <4>2
        <5> DEFINE x == LenUpto(s, k + (i - 1))  y == LenUpto(s, k)  z == LenUpto(t, i - 1)
        <5>5. x \in Nat /\ y \in Nat /\ z = x - y - left /\ n = y + left /\ l = j /\ left \in Nat /\ j \in Nat
          BY <2>4, <2>5, <3>2, <5>2, <5>3, <5>4
        <5> HIDE DEF x, y, z, l
        <5>6. n + (z + j) = x + l
          BY <5>5
        <5> QED
          BY <3>1, <5>6 DEF x, z
      <4> QED
        BY <2>3, <4>1, <4>2
    <3>5. LenUpto(t, i - 1) + j \in 1 .. b.size - n
      <4>1. i - 1 \in 0 .. Len(t) /\ i \in 0 .. Len(t) /\ Len(t) \in i .. Len(t)
        BY <2>3, <3>2
      <4>2. /\ LenUpto(t, i) = LenUpto(t, i - 1) + t[i].len /\ LenUpto(t, i - 1) \in Nat
            /\ LenUpto(t, i) \in Nat
        BY <2>2, <4>1, LenUptoIs
      <4>3. LenUpto(t, i) <= LenUpto(t, Len(t))
        BY <2>2, <4>1, LenUptoGrows
      <4>4. LenUpto(t, Len(t)) = b.size - n
        BY <1>4, <2>5 DEF Sound, t
      <4> QED
        <5> DEFINE x == LenUpto(t, i)  y == LenUpto(t, i - 1)  z == LenUpto(t, Len(t))
        <5>1. /\ x = y + t[i].len /\ x \in Nat /\ y \in Nat /\ x <= z /\ z = b.size - n
              /\ t[i].len \in Nat /\ j \in 1 .. t[i].len /\ b.size \in Nat /\ n \in Nat
          BY <1>1, <3>2, <4>2, <4>3, <4>4
        <5> HIDE DEF x, y, z, t
        <5>2. y + j \in 1 .. b.size - n
          BY <5>1
        <5> QED
          BY <5>2 DEF y
    <3>6. q[LenUpto(t, i - 1) + j] = p[LenUpto(s, (k + i) - 1) + l]
      BY <1>3, <3>4, <3>5
    <3> HIDE DEF l, q
    <3>7. p[LenUpto(s, (k + i) - 1) + l] = h[s[k + i].base][Used(b, k + i) + l]
      BY <2>10, <3>1, <3>3
    <3>8. Used(b, k + i) + l = Used(d, i) + j
      <4>1. CASE i = 1
        BY <1>1, <2>2, <2>5, <3>2, <4>1 DEF l, Used
      <4>2. CASE i > 1
        BY <2>3, <3>2, <4>2 DEF l, Used
      <4> QED
        BY <3>2, <4>1, <4>2
    <3>9. t[i].base = s[k + i].base
      BY <2>2
    <3> QED
      BY <3>6, <3>7, <3>8, <3>9
  <2>8. Len(q) = d.size
    BY <1>3, <2>5
  <2> HIDE DEF q
  <2>9. Bytes(h, d) = q
    BY <1>3, <1>4, <2>7, <2>8, BytesAre DEF t
  <2> QED
    BY <2>9 DEF q, p, d
<1> QED
  BY <1>1, <1>5, <1>6

(* What is put behind a chain follows its bytes.                           *)
LEMMA BytesExtended ==
  ASSUME NEW h, IsHeap(h), NEW c, Sound(h, c), NEW u \in Seq(IovT), NEW m, Sound(h, Extended(c, u, m))
  PROVE  /\ Sound(h, Chain(u)) /\ Bytes(h, Extended(c, u, m)) = Join(Bytes(h, c), Bytes(h, Chain(u)))
         /\ Len(Bytes(h, Chain(u))) = LenUpto(u, Len(u))
<1> DEFINE s == c.iov
           d == Extended(c, u, m)
           w == s \o u
           e == Chain(u)
           p == Bytes(h, c)
           r == Bytes(h, e)
           q == Join(p, r)
<1>1. /\ s \in Seq(IovT) /\ Len(s) \in Nat /\ Len(u) \in Nat /\ c.size = LenUpto(s, Len(s))
      /\ c.pp \in Nat /\ (s = <<>> => c.pp = 0)
  BY DEF Sound, BufT
<1>2. d.iov = w /\ d.pp = c.pp
  <2>1. c = [iov |-> s, size |-> c.size, pp |-> c.pp]
    BY DEF Sound, BufT
  <2>2. d = [c EXCEPT !.iov = w, !.size = c.size + m]
    BY DEF Extended
  <2> HIDE DEF s, w, d
  <2> QED
    BY <2>1, <2>2
<1>3. /\ w \in Seq(IovT) /\ Len(w) = Len(s) + Len(u)
      /\ \A i \in 1 .. Len(s) + Len(u) : w[i] = IF i <= Len(s) THEN s[i] ELSE u[i - Len(s)]
  BY <1>1, ConcatProperties
<1>4. d.size = LenUpto(w, Len(w)) /\ Distinct(w)
  BY <1>2 DEF Sound
<1>5. \A i \in 1 .. Len(w) : /\ w[i].len > 0 /\ w[i].base \in DOMAIN h
                             /\ Used(d, i) + w[i].len <= Len(h[w[i].base])
  BY <1>2 DEF Sound
<1>6. /\ \A i \in 0 .. Len(s) : LenUpto(w, i) = LenUpto(s, i)
      /\ \A i \in 0 .. Len(u) : LenUpto(w, Len(s) + i) = LenUpto(s, Len(s)) + LenUpto(u, i)
  BY <1>1, LenUptoConcat
<1> HIDE DEF s, w, d
<1>7. \A i \in 1 .. Len(u) : u[i].len \in Nat
  <2>1. \A i \in 1 .. Len(u) : u[i] \in IovT
    OBVIOUS
  <2> QED
    BY <2>1 DEF IovT
<1>8. \A i \in 1 .. Len(u) : Len(s) + i \in 1 .. Len(w) /\ w[Len(s) + i] = u[i]
  <2> TAKE i \in 1 .. Len(u)
  <2>1. Len(s) + i \in 1 .. Len(w) /\ ~(Len(s) + i <= Len(s)) /\ (Len(s) + i) - Len(s) = i
    BY <1>1, <1>3
  <2> QED
    BY <1>3, <2>1
<1>9. \A i \in 1 .. Len(u) : Used(d, Len(s) + i) = 0
  <2> TAKE i \in 1 .. Len(u)
  <2>1. CASE Len(s) = 0
    <3>1. s = <<>>
      BY <1>1, <2>1
    <3> QED
      BY <1>1, <1>2, <3>1 DEF Used
  <2>2. CASE Len(s) > 0
    <3>1. Len(s) + i # 1
      BY <1>1, <2>2
    <3> QED
      BY <3>1 DEF Used
  <2> QED
    BY <1>1, <2>1, <2>2
<1>10. Sound(h, e)
  <2>1. Distinct(u)
    <3> SUFFICES ASSUME NEW i \in 1 .. Len(u), NEW j \in 1 .. Len(u), u[i].base = u[j].base
                 PROVE  i = j
      BY DEF Distinct
    <3>1. Len(s) + i = Len(s) + j
      BY <1>4, <1>8 DEF Distinct
    <3> QED
      BY <1>1, <3>1
  <2>2. \A i \in 1 .. Len(u) : /\ u[i].len > 0 /\ u[i].base \in DOMAIN h
                               /\ u[i].len <= Len(h[u[i].base])
    <3> TAKE i \in 1 .. Len(u)
    <3>1. 0 + u[i].len = u[i].len
      BY <1>7
    <3> QED
      BY <1>5, <1>8, <1>9, <3>1
  <2> QED
    BY <2>1, <2>2, ChainSound
<1>11. /\ p \in Seq(Nat) /\ Len(p) = c.size
       /\ \A k \in 1 .. Len(s) : \A j \in 1 .. s[k].len :
             /\ LenUpto(s, k - 1) + j \in 1 .. c.size
             /\ p[LenUpto(s, k - 1) + j] = h[s[k].base][Used(c, k) + j]
  BY BytesAt DEF s
<1>12. /\ r \in Seq(Nat) /\ Len(r) = LenUpto(u, Len(u))
       /\ \A k \in 1 .. Len(u) : \A j \in 1 .. u[k].len :
             /\ LenUpto(u, k - 1) + j \in 1 .. Len(r)
             /\ r[LenUpto(u, k - 1) + j] = h[u[k].base][0 + j]
  <2>1. /\ r \in Seq(Nat) /\ Len(r) = e.size
        /\ \A k \in 1 .. Len(e.iov) : \A j \in 1 .. e.iov[k].len :
              /\ LenUpto(e.iov, k - 1) + j \in 1 .. e.size
              /\ r[LenUpto(e.iov, k - 1) + j] = h[e.iov[k].base][Used(e, k) + j]
    BY <1>10, BytesAt
  <2>2. e.iov = u /\ e.size = LenUpto(u, Len(u)) /\ \A k : Used(e, k) = 0
    BY ChainIs
  <2> HIDE DEF e, r
  <2> QED
    BY <2>1, <2>2
<1> HIDE DEF p, r, e
<1>13. /\ q \in Seq(Nat) /\ Len(q) = Len(p) + Len(r) /\ Len(p) \in Nat /\ Len(r) \in Nat
       /\ \A i \in 1 .. Len(p) + Len(r) : q[i] = IF i <= Len(p) THEN p[i] ELSE r[i - Len(p)]
  <2>1. p \in Seq(Nat) /\ r \in Seq(Nat)
    BY <1>11, <1>12
  <2>2. Len(p) \in Nat /\ Len(r) \in Nat
    BY <2>1
  <2> QED
    BY <2>1, <2>2, JoinIs
<1>14. Len(q) = d.size
  <2>1. LenUpto(w, Len(s) + Len(u)) = LenUpto(s, Len(s)) + LenUpto(u, Len(u))
    BY <1>1, <1>6
  <2> QED
    BY <1>1, <1>3, <1>4, <1>11, <1>12, <1>13, <2>1
<1> HIDE DEF q
<1>15. ASSUME NEW k \in 1 .. Len(w), NEW j \in 1 .. w[k].len
       PROVE  q[LenUpto(w, k - 1) + j] = h[w[k].base][Used(d, k) + j]
  <2>1. CASE k <= Len(s)
    <3>1. k \in 1 .. Len(s) /\ k - 1 \in 0 .. Len(s) /\ w[k] = s[k] /\ Used(d, k) = Used(c, k)
      BY <1>1, <1>2, <1>3, <2>1 DEF Used
    <3>2. LenUpto(w, k - 1) = LenUpto(s, k - 1)
      BY <1>6, <3>1
    <3>3. LenUpto(s, k - 1) + j \in 1 .. Len(p)
      BY <1>11, <3>1
    <3>4. q[LenUpto(s, k - 1) + j] = p[LenUpto(s, k - 1) + j]
      BY <1>13, <3>3
    <3> QED
      BY <1>11, <3>1, <3>2, <3>4
  <2>2. CASE k > Len(s)
    <3> DEFINE i == k - Len(s)
    <3>1. i \in 1 .. Len(u) /\ Len(s) + i = k /\ Len(s) + (i - 1) = k - 1 /\ i - 1 \in 0 .. Len(u)
      BY <1>1, <1>3, <2>2
    <3> HIDE DEF i
    <3>2. w[k] = u[i] /\ Used(d, k) = 0
      BY <1>8, <1>9, <3>1
    <3>3. LenUpto(w, k - 1) = Len(p) + LenUpto(u, i - 1)
      BY <1>1, <1>6, <1>11, <3>1
    <3>4. LenUpto(u, i - 1) \in Nat
      BY <3>1, LenUptoIs
    <3>5. LenUpto(u, i - 1) + j \in 1 .. Len(r) /\ r[LenUpto(u, i - 1) + j] = h[u[i].base][0 + j]
      BY <1>12, <3>1, <3>2
    <3> DEFINE l == LenUpto(u, i - 1)
    <3>6. j \in Nat
      BY <1>7, <3>1, <3>2
    <3>7. /\ (Len(p) + l) + j \in 1 .. Len(p) + Len(r) /\ ~((Len(p) + l) + j <= Len(p))
          /\ ((Len(p) + l) + j) - Len(p) = l + j
      <4>1. l \in Nat /\ l + j \in 1 .. Len(r)
        BY <3>4, <3>5
      <4> HIDE DEF l
      <4> QED
        BY <1>13, <3>6, <4>1
    <3> HIDE DEF l
    <3>8. q[(Len(p) + l) + j] = r[l + j]
      BY <1>13, <3>7
    <3> QED
      BY <3>2, <3>3, <3>5, <3>8 DEF l
  <2> QED
    BY <1>1, <1>3, <2>1, <2>2
<1>16. Bytes(h, d) = q
  <2>1. \A k \in 1 .. Len(d.iov) : \A j \in 1 .. d.iov[k].len :
           q[LenUpto(d.iov, k - 1) + j] = h[d.iov[k].base][Used(d, k) + j]
    BY <1>2, <1>15
  <2>2. Sound(h, d)
    BY DEF d
  <2> QED
    BY <1>13, <1>14, <2>1, <2>2, BytesAre
<1> QED
  BY <1>10, <1>12, <1>16 DEF q, p, r, e, d

LEMMA DeleteBytes ==
  ASSUME NEW h, NEW X, NEW b, NEW c, Owned(h, X, b, c), NEW n \in 0 .. b.size
  PROVE  /\ Bytes(delete_size_(h, b, n).heap, delete_size_(h, b, n).b) = Drop(Bytes(h, b), n)
         /\ Bytes(delete_size_(h, b, n).heap, c) = Bytes(h, c)
<1> DEFINE g == Free(h, Passed(b, n))
           d == delete_size_for_move_(b, n)
<1>1. delete_size_(h, b, n).heap = g /\ delete_size_(h, b, n).b = d
  BY DEF delete_size_
<1>2. IsHeap(h) /\ Sound(h, b) /\ Sound(h, c) /\ n \in Nat
  BY DEF Owned, Sound, BufT
<1>3. Owned(g, X, d, c)
  BY <1>1, <1>2, DeleteOwned
<1>4. /\ IsHeap(g) /\ \A a \in DOMAIN g : a \in DOMAIN h /\ g[a] = h[a]
  BY <1>2, FreeIs
<1>5. Sound(h, d) /\ Bytes(h, d) = Drop(Bytes(h, b), n)
  BY <1>2, LeftSound, BytesLeft
<1> HIDE DEF g, d
<1>6. Bytes(g, d) = Bytes(h, d)
  <2>1. \A a \in Bases(d.iov) : a \in DOMAIN g /\ g[a] = h[a]
    BY <1>3, <1>4 DEF Owned
  <2> QED
    BY <1>2, <1>4, <1>5, <2>1, BytesFrame
<1>7. Bytes(g, c) = Bytes(h, c)
  <2>1. \A a \in Bases(c.iov) : a \in DOMAIN g /\ g[a] = h[a]
    BY <1>3, <1>4 DEF Owned
  <2> QED
    BY <1>2, <1>4, <2>1, BytesFrame
<1> QED
  BY <1>1, <1>5, <1>6, <1>7

LEMMA PushBytes ==
  ASSUME NEW h, NEW X, NEW b, NEW c, Owned(h, X, b, c), NEW data \in Seq(Nat), data # <<>>
  PROVE  /\ Bytes(New(h, data), b) = Bytes(h, b)
         /\ Bytes(New(h, data), push_back(c, Iov(Fresh(h), Len(data)))) = Join(Bytes(h, c), data)
<1> DEFINE g == New(h, data)
           v == Iov(Fresh(h), Len(data))
           u == <<v>>
           a == Fresh(h)
           e == Chain(u)
<1>1. /\ IsHeap(h) /\ Sound(h, b) /\ Sound(h, c)
      /\ DOMAIN h = X \union Bases(b.iov) \union Bases(c.iov)
  BY DEF Owned
<1>2. Len(data) \in Nat
  OBVIOUS
<1>3. a \in Nat /\ a \notin DOMAIN h
  BY <1>1, FreshIs
<1>4. /\ IsHeap(g) /\ DOMAIN g = DOMAIN h \union {a} /\ g[a] = data
      /\ \A x \in DOMAIN h : g[x] = h[x]
  BY <1>1, NewIs
<1>5. v \in IovT /\ v.base = a /\ v.len = Len(data)
  BY <1>2, <1>3 DEF Iov, IovT
<1>6. c \in BufT /\ c.iov \in Seq(IovT) /\ c.size \in Nat
  BY <1>1 DEF Sound, BufT
<1>7. Sound(g, push_back(c, v))
  BY PushOwned DEF Owned
<1> HIDE DEF a, v, g
<1>8. push_back(c, v) = Extended(c, u, v.len)
  BY <1>5, <1>6, AppendIsConcat DEF push_back, Extended
<1>9. u \in Seq(IovT) /\ Len(u) = 1 /\ u[1] = v
  BY <1>5
<1> HIDE DEF u
<1>10. Bytes(g, b) = Bytes(h, b) /\ Bytes(g, c) = Bytes(h, c) /\ Sound(g, c)
  <2>1. \A x \in Bases(b.iov) : x \in DOMAIN g /\ g[x] = h[x]
    BY <1>1, <1>4
  <2>2. \A x \in Bases(c.iov) : x \in DOMAIN g /\ g[x] = h[x]
    BY <1>1, <1>4
  <2> QED
    BY <1>1, <1>4, <2>1, <2>2, BytesFrame, SoundFrame
<1>11. /\ Sound(g, e) /\ Bytes(g, Extended(c, u, v.len)) = Join(Bytes(g, c), Bytes(g, e))
  BY <1>4, <1>7, <1>8, <1>9, <1>10, BytesExtended
<1>12. Bytes(g, e) = data
  <2>1. e.iov = u /\ e.size = LenUpto(u, 1) /\ Used(e, 1) = 0
    BY <1>9, ChainIs
  <2>2. LenUpto(u, 0) = 0 /\ LenUpto(u, 1) = v.len
    <3>1. /\ \A k \in 1 .. Len(u) : LenUpto(u, k) = LenUpto(u, k - 1) + u[k].len
          /\ LenUpto(u, 0) = 0
      BY <1>9, LenUptoIs
    <3>2. 1 \in 1 .. Len(u) /\ 1 - 1 = 0
      BY <1>9
    <3>3. LenUpto(u, 1) = LenUpto(u, 0) + u[1].len
      BY <3>1, <3>2
    <3> QED
      BY <1>2, <1>5, <1>9, <3>1, <3>3
  <2> HIDE DEF e
  <2>3. \A k \in 1 .. Len(e.iov) : k = 1 /\ k - 1 = 0
    <3>1. Len(e.iov) = 1
      BY <1>9, <2>1
    <3> QED
      BY <3>1
  <2>4. \A j \in 1 .. v.len : 0 + j = j
    BY <1>2, <1>5
  <2>5. \A k \in 1 .. Len(e.iov) : \A j \in 1 .. e.iov[k].len :
           data[LenUpto(e.iov, k - 1) + j] = g[e.iov[k].base][Used(e, k) + j]
    BY <1>4, <1>5, <1>9, <2>1, <2>2, <2>3, <2>4
  <2>6. Len(data) = e.size
    BY <1>5, <2>1, <2>2
  <2> QED
    BY <1>4, <1>11, <2>5, <2>6, BytesAre
<1> QED
  BY <1>8, <1>10, <1>11, <1>12 DEF g, v, a

LEMMA CopyBytes ==
  ASSUME NEW h, NEW X, NEW b, NEW c, Owned(h, X, b, c),
         NEW from, Sound(h, from), NEW k \in 1 .. Len(from.iov), NEW n \in 1 .. from.iov[k].len
  PROVE  /\ Bytes(copy(h, from, c, k, n).heap, b) = Bytes(h, b)
         /\ Bytes(copy(h, from, c, k, n).heap, copy(h, from, c, k, n).to)
               = Join(Bytes(h, c), Prefix(Slice(h, from, k), n))
<1> DEFINE data == Prefix(Slice(h, from, k), n)
<1>1. IsHeap(h)
  BY DEF Owned
<1>2. n \in 0 .. from.iov[k].len /\ n > 0
  OBVIOUS
<1>3. data \in Seq(Nat) /\ Len(data) = n
  BY <1>1, <1>2, SliceIs DEF Prefix
<1>4. /\ copy(h, from, c, k, n).heap = New(h, data)
      /\ copy(h, from, c, k, n).to = push_back(c, Iov(Fresh(h), n))
  BY DEF copy, Prefix
<1> HIDE DEF data
<1>5. data # <<>>
  BY <1>2, <1>3
<1>6. /\ Bytes(New(h, data), b) = Bytes(h, b)
      /\ Bytes(New(h, data), push_back(c, Iov(Fresh(h), Len(data)))) = Join(Bytes(h, c), data)
  BY <1>3, <1>5, PushBytes
<1> QED
  BY <1>3, <1>4, <1>6 DEF data

(* The blocks passed and the part of the next hold the first n bytes.      *)
LEMMA FrontBytes ==
  ASSUME NEW h, IsHeap(h), NEW b, Sound(h, b), NEW k \in 0 .. Len(b.iov)
  PROVE  /\ LenUpto(b.iov, k) \in 0 .. b.size
         /\ BytesUpto(h, b, k) = Prefix(Bytes(h, b), LenUpto(b.iov, k))
         /\ k + 1 \in 1 .. Len(b.iov) => \A n \in 0 .. b.iov[k + 1].len :
               /\ LenUpto(b.iov, k) + n \in 0 .. b.size
               /\ Join(Prefix(Bytes(h, b), LenUpto(b.iov, k)), Prefix(Slice(h, b, k + 1), n))
                     = Prefix(Bytes(h, b), LenUpto(b.iov, k) + n)
<1> DEFINE s == b.iov
           q == Bytes(h, b)
           l == LenUpto(s, k)
           p == Prefix(q, l)
<1>1. s \in Seq(IovT) /\ Len(s) \in Nat /\ k \in Nat /\ b.size = LenUpto(s, Len(s)) /\ b.size \in Nat
  BY DEF Sound, BufT
<1>2. q \in Seq(Nat) /\ Len(q) = b.size
  BY BytesAt
<1>3. l \in Nat /\ l <= b.size /\ l \in 0 .. Len(q)
  <2>1. Len(s) \in k .. Len(s)
    BY <1>1
  <2>2. l \in Nat /\ l <= LenUpto(s, Len(s))
    BY <1>1, <2>1, LenUptoIs, LenUptoGrows
  <2> QED
    BY <1>1, <1>2, <2>2
<1>4. p \in Seq(Nat) /\ Len(p) = l /\ \A i \in 1 .. l : p[i] = q[i]
  BY <1>2, <1>3, PrefixIs
<1>5. BytesUpto(h, b, k) = p
  <2> DEFINE w == BytesUpto(h, b, k)
  <2>1. w \in Seq(Nat) /\ Len(w) = l
    BY BytesIs
  <2>2. \A i \in 1 .. l : q[i] = w[i]
    <3>1. Len(s) \in k .. Len(s)
      BY <1>1
    <3> QED
      BY <3>1, BytesPrefix DEF Bytes
  <2> HIDE DEF w, p, q, l
  <2>3. w = p
    BY <1>4, <2>1, <2>2, SameBytes
  <2> QED
    BY <2>3 DEF w
<1>6. ASSUME k + 1 \in 1 .. Len(s), NEW n \in 0 .. s[k + 1].len
      PROVE  l + n \in 0 .. b.size /\ Join(p, Prefix(Slice(h, b, k + 1), n)) = Prefix(q, l + n)
  <2> DEFINE t == Slice(h, b, k + 1)
             u == Prefix(t, n)
             w == Prefix(q, l + n)
             x == Join(p, u)
  <2>1. t \in Seq(Nat) /\ Len(t) = s[k + 1].len /\ s[k + 1].len \in Nat
    BY <1>6, SliceAt
  <2>2. n \in 0 .. Len(t) /\ n \in Nat
    BY <2>1
  <2>3. \A j \in 1 .. s[k + 1].len : l + j \in 1 .. b.size /\ q[l + j] = t[j]
    <3>1. (k + 1) - 1 = k
      BY <1>1
    <3>2. \A j \in 1 .. s[k + 1].len : /\ LenUpto(s, (k + 1) - 1) + j \in 1 .. b.size
                                       /\ q[LenUpto(s, (k + 1) - 1) + j] = t[j]
      BY <1>6, BytesAt
    <3> QED
      BY <3>1, <3>2
  <2> HIDE DEF t
  <2>4. u \in Seq(Nat) /\ Len(u) = n /\ \A i \in 1 .. n : u[i] = t[i]
    BY <2>1, <2>2, PrefixIs
  <2>5. l + n \in 0 .. b.size
    <3>1. CASE n = 0
      BY <1>3, <3>1
    <3>2. CASE n # 0
      <4>1. n \in 1 .. s[k + 1].len
        BY <2>1, <2>2, <3>2
      <4>2. l + n \in 1 .. b.size
        BY <2>3, <4>1
      <4> QED
        BY <1>1, <4>2
    <3> QED
      BY <3>1, <3>2
  <2>6. w \in Seq(Nat) /\ Len(w) = l + n /\ \A i \in 1 .. l + n : w[i] = q[i]
    BY <1>2, <2>5, PrefixIs
  <2> HIDE DEF u, w, p, l, q, s
  <2>7. /\ x \in Seq(Nat) /\ Len(x) = l + n
        /\ \A i \in 1 .. l + n : x[i] = IF i <= l THEN p[i] ELSE u[i - l]
    BY <1>4, <2>4, JoinIs
  <2> HIDE DEF x
  <2>8. \A i \in 1 .. l + n : x[i] = w[i]
    <3> TAKE i \in 1 .. l + n
    <3>1. CASE i <= l
      <4>1. i \in 1 .. l
        BY <1>3, <3>1
      <4> QED
        BY <1>4, <2>6, <2>7, <3>1, <4>1
    <3>2. CASE i > l
      <4>1. i - l \in 1 .. n /\ i - l \in 1 .. s[k + 1].len /\ l + (i - l) = i /\ ~(i <= l)
        BY <1>3, <2>1, <2>2, <3>2
      <4>2. x[i] = u[i - l] /\ u[i - l] = t[i - l] /\ q[l + (i - l)] = t[i - l]
        BY <2>3, <2>4, <2>7, <4>1
      <4> QED
        BY <2>6, <4>1, <4>2
    <3> QED
      BY <1>3, <2>2, <3>1, <3>2
  <2>9. x = w
    BY <2>6, <2>7, <2>8, SameBytes
  <2> QED
    BY <2>5, <2>9 DEF x, w, u, t
<1> QED
  BY <1>1, <1>2, <1>3, <1>5, <1>6

(* get_str_ copies the first n bytes.                                      *)
LEMMA StrIs ==
  ASSUME NEW h, IsHeap(h), NEW b, Sound(h, b), NEW n \in 0 .. b.size
  PROVE  get_str_(h, b, n) = Prefix(Bytes(h, b), n)
<1> DEFINE k == Whole(b.iov, n)
           left == n - LenUpto(b.iov, k)
           part == Prefix(Slice(h, b, k + 1), left)
<1>1. /\ k \in 0 .. Len(b.iov) /\ left \in Nat
      /\ left # 0 => k + 1 \in 1 .. Len(b.iov) /\ left \in 1 .. b.iov[k + 1].len
  BY LeftSound
<1>2. get_str_(h, b, n) = BytesUpto(h, b, k) \o (IF left = 0 THEN <<>> ELSE part)
  BY DEF get_str_, Prefix
<1>3. LenUpto(b.iov, k) \in Nat /\ n \in Nat
  <2>1. b.size \in Nat
    BY DEF Sound, BufT
  <2> QED
    BY <1>1, <2>1, FrontBytes
<1>4. BytesUpto(h, b, k) \in Seq(Nat) /\ BytesUpto(h, b, k) = Prefix(Bytes(h, b), LenUpto(b.iov, k))
  BY <1>1, BytesIs, FrontBytes
<1> HIDE DEF k
<1>5. CASE left = 0
  <2>1. LenUpto(b.iov, k) = n
    BY <1>3, <1>5
  <2>2. BytesUpto(h, b, k) \o <<>> = BytesUpto(h, b, k)
    BY <1>4, ConcatEmptySeq
  <2> QED
    BY <1>2, <1>4, <1>5, <2>1, <2>2
<1>6. CASE left # 0
  <2>1. LenUpto(b.iov, k) + left = n
    BY <1>3
  <2> HIDE DEF left
  <2>2. left \in 0 .. b.iov[k + 1].len /\ k + 1 \in 1 .. Len(b.iov)
    BY <1>1, <1>6
  <2>3. Join(Prefix(Bytes(h, b), LenUpto(b.iov, k)), part) = Prefix(Bytes(h, b), LenUpto(b.iov, k) + left)
    BY <1>1, <2>2, FrontBytes
  <2> QED
    BY <1>2, <1>4, <1>6, <2>1, <2>3 DEF Join
<1> QED
  BY <1>5, <1>6

-----------------------------------------------------------------------------
(* Moving: what `to' gains is what `from' loses.                           *)
LEMMA GivenBytes ==
  ASSUME NEW h, NEW X, NEW b, NEW c, Owned(h, X, b, c), b.pp = 0, NEW n \in 0 .. b.size
  PROVE  LET k == Whole(b.iov, n)
             left == n - LenUpto(b.iov, k)
             given == Extended(c, SubSeq(b.iov, 1, k), n - left)
         IN  Bytes(h, given) = Join(Bytes(h, c), Prefix(Bytes(h, b), LenUpto(b.iov, k)))
<1> DEFINE s == b.iov
           k == Whole(s, n)
           left == n - LenUpto(s, k)
           u == SubSeq(s, 1, k)
           given == Extended(c, u, n - left)
           e == Chain(u)
           l == LenUpto(s, k)
           q == Prefix(Bytes(h, b), l)
<1>1. IsHeap(h) /\ Sound(h, b) /\ Sound(h, c) /\ c \in BufT /\ c.size \in Nat
  BY DEF Owned, Sound, BufT
<1>2. /\ s \in Seq(IovT) /\ Len(s) \in Nat /\ b.size \in Nat /\ n \in Nat
      /\ k \in 0 .. Len(s) /\ k \in Nat /\ \A j : Used(b, j) = 0
  <2>1. s \in Seq(IovT) /\ b.size \in Nat
    BY <1>1 DEF Sound, BufT
  <2>2. k \in 0 .. Len(s)
    BY <1>1, LeftSound
  <2>3. \A j : Used(b, j) = 0
    BY DEF Used
  <2> QED
    BY <2>1, <2>2, <2>3
<1>3. Sound(h, given)
  BY GivenOwned DEF Owned
<1>4. l \in Nat /\ l \in 0 .. b.size
  BY <1>1, <1>2, FrontBytes
<1>5. /\ Bytes(h, b) \in Seq(Nat) /\ Len(Bytes(h, b)) = b.size
      /\ \A i \in 1 .. Len(s) : \A j \in 1 .. s[i].len :
            Bytes(h, b)[LenUpto(s, i - 1) + j] = h[s[i].base][Used(b, i) + j]
  BY <1>1, BytesAt
<1>6. q \in Seq(Nat) /\ Len(q) = l /\ \A i \in 1 .. l : q[i] = Bytes(h, b)[i]
  BY <1>4, <1>5, PrefixIs
<1> HIDE DEF s, k
<1>7. u \in Seq(IovT) /\ Len(u) = k /\ \A j \in 1 .. k : u[j] = s[j]
  BY <1>2, FrontIs
<1> HIDE DEF u
<1>8. given = Extended(c, u, l)
  <2>1. n - left = l
    BY <1>1, <1>2, <1>4
  <2> HIDE DEF left, l
  <2> QED
    BY <2>1
<1>9. \A j \in 0 .. k : LenUpto(s, j) = LenUpto(u, j)
  <2>1. \A j \in 1 .. k : s[j].len = u[j].len
    BY <1>7
  <2> QED
    BY <1>2, <1>7, <2>1, LenUptoSame
<1> HIDE DEF given, left
<1>10. Sound(h, e) /\ Bytes(h, given) = Join(Bytes(h, c), Bytes(h, e))
  BY <1>1, <1>3, <1>7, <1>8, BytesExtended
<1>11. e.iov = u /\ e.size = l /\ \A j : Used(e, j) = 0
  <2>1. LenUpto(u, Len(u)) = l
    BY <1>2, <1>7, <1>9
  <2> QED
    BY <2>1, ChainIs
<1> HIDE DEF e, q
<1>12. ASSUME NEW i \in 1 .. k, NEW j \in 1 .. u[i].len
       PROVE  q[LenUpto(u, i - 1) + j] = h[u[i].base][0 + j]
  <2>1. i \in 1 .. Len(s) /\ i \in 0 .. Len(s) /\ i - 1 \in 0 .. k /\ i - 1 \in 0 .. Len(s) /\ u[i] = s[i] /\ k \in i .. Len(s)
    BY <1>2, <1>7
  <2>2. s[i].len \in Nat
    BY <1>1, <2>1, SliceAt DEF s
  <2>3. /\ LenUpto(s, i) = LenUpto(s, i - 1) + s[i].len /\ LenUpto(s, i - 1) \in Nat
        /\ LenUpto(s, i) \in Nat /\ LenUpto(s, i) <= l
    BY <1>2, <2>1, LenUptoIs, LenUptoGrows
  <2> DEFINE a == LenUpto(s, i - 1)
             z == s[i].len
  <2>4. j \in 1 .. z
    BY <2>1
  <2> HIDE DEF l
  <2>5. a + j \in 1 .. l
    <3>1. a \in Nat /\ z \in Nat /\ a + z <= l /\ l \in Nat
      BY <1>4, <2>2, <2>3
    <3> HIDE DEF a, z
    <3> QED
      BY <2>4, <3>1
  <2>6. Bytes(h, b)[a + j] = h[s[i].base][0 + j]
    BY <1>2, <1>5, <2>1, <2>4
  <2>7. q[a + j] = Bytes(h, b)[a + j]
    BY <1>6, <2>5
  <2> QED
    BY <1>9, <2>1, <2>6, <2>7
<1>13. Bytes(h, e) = q
  <2>1. \A i \in 1 .. Len(e.iov) : \A j \in 1 .. e.iov[i].len :
           q[LenUpto(e.iov, i - 1) + j] = h[e.iov[i].base][Used(e, i) + j]
    BY <1>7, <1>11, <1>12
  <2>2. q \in Seq(Nat) /\ Len(q) = e.size /\ IsHeap(h) /\ Sound(h, e)
    BY <1>1, <1>6, <1>10, <1>11
  <2> QED
    BY <2>1, <2>2, BytesAre
<1> QED
  BY <1>10, <1>13 DEF q, given, left, u, k, s

LEMMA NonpartialBytes ==
  ASSUME NEW h, NEW X, NEW b, NEW c, Owned(h, X, b, c), b.pp = 0, NEW n \in 0 .. b.size
  PROVE  LET m == move_nonpartial_case_(h, b, c, n)
         IN  /\ Bytes(m.heap, m.from) = Drop(Bytes(h, b), n)
             /\ Bytes(m.heap, m.to) = Join(Bytes(h, c), Prefix(Bytes(h, b), n))
<1> DEFINE d == delete_size_for_move_(b, n)
           k == Whole(b.iov, n)
           left == n - LenUpto(b.iov, k)
           given == Extended(c, SubSeq(b.iov, 1, k), n - left)
           m == move_nonpartial_case_(h, b, c, n)
           to == copy(h, b, given, k + 1, left)
           part == Prefix(Slice(h, b, k + 1), left)
<1>1. Owned(h, X, d, given)
  BY GivenOwned
<1>2. IsHeap(h) /\ Sound(h, b) /\ Sound(h, c) /\ b.size \in Nat
  BY DEF Owned, Sound, BufT
<1>3. /\ k \in 0 .. Len(b.iov)
      /\ left # 0 => k + 1 \in 1 .. Len(b.iov) /\ left \in 1 .. b.iov[k + 1].len
  BY <1>2, LeftSound
<1>4. /\ m.from = d
      /\ left = 0 => m.heap = h /\ m.to = given
      /\ left # 0 => m.heap = to.heap /\ m.to = to.to
  BY DEF move_nonpartial_case_, Give
<1>5. Bytes(h, d) = Drop(Bytes(h, b), n)
  BY <1>2, BytesLeft
<1>6. Bytes(h, given) = Join(Bytes(h, c), Prefix(Bytes(h, b), LenUpto(b.iov, k)))
  BY GivenBytes
<1> DEFINE l == LenUpto(b.iov, k)
<1>7. l \in 0 .. b.size /\ l \in Nat /\ n \in Nat
  BY <1>2, <1>3, FrontBytes
<1>8. l + left = n
  BY <1>7
<1> HIDE DEF d, k, left, given, m
<1>9. CASE left = 0
  <2>1. l = n
    BY <1>7, <1>8, <1>9
  <2> QED
    BY <1>4, <1>5, <1>6, <1>9, <2>1 DEF m
<1>10. CASE left # 0
  <2>1. k + 1 \in 1 .. Len(b.iov) /\ left \in 1 .. b.iov[k + 1].len /\ left \in 0 .. b.iov[k + 1].len
    BY <1>3, <1>10
  <2>2. Bytes(to.heap, d) = Bytes(h, d) /\ Bytes(to.heap, to.to) = Join(Bytes(h, given), part)
    <3>1. Owned(h, X, d, given) /\ Sound(h, b)
      BY <1>1, <1>2
    <3>2. Bytes(to.heap, d) = Bytes(h, d)
      BY <2>1, <3>1, CopyBytes
    <3>3. Bytes(to.heap, to.to) = Join(Bytes(h, given), part)
      BY <2>1, <3>1, CopyBytes
    <3> QED
      BY <3>2, <3>3
  <2>3. Join(Prefix(Bytes(h, b), l), part) = Prefix(Bytes(h, b), l + left)
    <3>1. IsHeap(h) /\ Sound(h, b) /\ k \in 0 .. Len(b.iov)
      BY <1>2, <1>3
    <3> QED
      BY <2>1, <3>1, FrontBytes
  <2>4. part \in Seq(Nat) /\ Bytes(h, c) \in Seq(Nat) /\ Prefix(Bytes(h, b), l) \in Seq(Nat)
    <3>1. Bytes(h, c) \in Seq(Nat) /\ Bytes(h, b) \in Seq(Nat) /\ Len(Bytes(h, b)) = b.size
      BY <1>2, BytesAt
    <3>2. part \in Seq(Nat)
      BY <1>2, <2>1, SliceIs DEF Prefix
    <3> QED
      BY <1>7, <3>1, <3>2, PrefixIs
  <2> HIDE DEF to, part, l
  <2>5. Join(Join(Bytes(h, c), Prefix(Bytes(h, b), l)), part) = Join(Bytes(h, c), Prefix(Bytes(h, b), n))
    BY <1>8, <2>3, <2>4, JoinAssociative
  <2> QED
    <3>1. Bytes(m.heap, m.from) = Drop(Bytes(h, b), n)
      BY <1>4, <1>5, <1>10, <2>2
    <3>2. Bytes(m.heap, m.to) = Join(Bytes(h, c), Prefix(Bytes(h, b), n))
      BY <1>4, <1>6, <1>10, <2>2, <2>5 DEF l
    <3> QED
      BY <3>1, <3>2 DEF m
<1> QED
  BY <1>9, <1>10

LEMMA PartialBytes ==
  ASSUME NEW h, NEW X, NEW b, NEW c, Owned(h, X, b, c), b.pp > 0, NEW n \in 1 .. b.size
  PROVE  LET m == move_partial_case_(h, b, c, n)
         IN  /\ Bytes(m.heap, m.from) = Drop(Bytes(h, b), n)
             /\ Bytes(m.heap, m.to) = Join(Bytes(h, c), Prefix(Bytes(h, b), n))
<1> DEFINE first == b.iov[1].len
           m == move_partial_case_(h, b, c, n)
           q == Bytes(h, b)
           front(a) == Prefix(Slice(h, b, 1), a)
<1>1. /\ IsHeap(h) /\ Sound(h, b) /\ Sound(h, c) /\ b.iov # <<>> /\ b.size \in Nat /\ b.iov \in Seq(IovT)
      /\ n \in Nat /\ n <= b.size /\ n \in 0 .. b.size
  BY DEF Owned, Sound, BufT
<1>2. first \in Nat /\ first > 0 /\ first <= b.size /\ Len(b.iov) > 0 /\ 1 \in 1 .. Len(b.iov)
  <2>1. first \in Nat /\ first > 0 /\ first <= b.size /\ Len(b.iov) > 0
    BY <1>1, FirstBlock
  <2> QED
    BY <1>1, <2>1
<1>3. q \in Seq(Nat) /\ Len(q) = b.size /\ Bytes(h, c) \in Seq(Nat)
  BY <1>1, BytesAt
<1>4. ASSUME NEW a \in 0 .. first PROVE front(a) = Prefix(q, a) /\ front(a) \in Seq(Nat)
  <2>1. LenUpto(b.iov, 0) = 0 /\ 0 \in 0 .. Len(b.iov) /\ 0 + 1 = 1 /\ a \in Nat /\ a <= b.size
    BY <1>1, <1>2, LenUptoIs
  <2>2. front(a) \in Seq(Nat)
    BY <1>1, <1>2, SliceIs DEF Prefix
  <2>3. Prefix(q, 0) = <<>>
    BY SubSeqEmpty DEF Prefix
  <2>4. Join(Prefix(q, LenUpto(b.iov, 0)), Prefix(Slice(h, b, 0 + 1), a)) = Prefix(q, LenUpto(b.iov, 0) + a)
    BY <1>1, <1>2, <2>1, FrontBytes
  <2>5. LenUpto(b.iov, 0) + a = a
    BY <2>1
  <2>6. Join(<<>>, front(a)) = front(a)
    BY <2>2, ConcatEmptySeq DEF Join
  <2> QED
    BY <2>1, <2>2, <2>3, <2>4, <2>5, <2>6
<1>5. CASE n < first
  <2> DEFINE o == copy(h, b, c, 1, n)
             d == delete_size_for_move_(b, n)
  <2>1. m.heap = o.heap /\ m.to = o.to /\ m.from = d
    BY <1>5 DEF move_partial_case_
  <2>2. n \in 1 .. first /\ n \in 0 .. first
    BY <1>1, <1>2, <1>5
  <2>3. Owned(o.heap, X, b, o.to)
    BY <1>1, <1>2, <2>2, CopyOwned
  <2>4. Bytes(o.heap, b) = q /\ Bytes(o.heap, o.to) = Join(Bytes(h, c), front(n))
    BY <1>1, <1>2, <2>2, CopyBytes
  <2> HIDE DEF o, m
  <2>5. Bytes(o.heap, d) = Drop(Bytes(o.heap, b), n)
    <3>1. Sound(o.heap, b) /\ IsHeap(o.heap)
      BY <2>3 DEF Owned
    <3> QED
      BY <1>1, <3>1, BytesLeft
  <2> HIDE DEF d, q, front
  <2> QED
    BY <1>4, <2>1, <2>2, <2>4, <2>5 DEF m, q
<1>6. CASE n >= first
  <2> DEFINE o == copy(h, b, c, 1, first)
             d == delete_size_(o.heap, b, first)
             e == move_nonpartial_case_(d.heap, d.b, o.to, n - first)
  <2>1. /\ n = first => m.heap = d.heap /\ m.to = o.to /\ m.from = d.b
        /\ n # first => m = e
    <3>1. ~(n < first)
      BY <1>1, <1>2, <1>6
    <3> QED
      BY <3>1 DEF move_partial_case_
  <2>2. first \in 1 .. first /\ first \in 0 .. first /\ first \in 0 .. b.size
    BY <1>1, <1>2
  <2>3. Owned(o.heap, X, b, o.to)
    BY <1>1, <1>2, <2>2, CopyOwned
  <2>4. Bytes(o.heap, b) = q /\ Bytes(o.heap, o.to) = Join(Bytes(h, c), Prefix(q, first))
    BY <1>1, <1>2, <1>4, <2>2, CopyBytes
  <2>5. d.b = delete_size_for_move_(b, first)
    BY DEF delete_size_
  <2> HIDE DEF o
  <2>6. Owned(d.heap, X, d.b, o.to)
    BY <1>2, <2>3, DeleteOwned
  <2>7. Bytes(d.heap, d.b) = Drop(q, first) /\ Bytes(d.heap, o.to) = Join(Bytes(h, c), Prefix(q, first))
    BY <2>2, <2>3, <2>4, DeleteBytes
  <2>8. CASE n = first
    <3> HIDE DEF d, q
    <3> QED
      BY <2>1, <2>7, <2>8 DEF q
  <2>9. CASE n # first
    <3>1. first \in 0 .. b.size /\ first < b.size
      BY <1>1, <1>2, <1>6, <2>9
    <3>2. Whole(b.iov, first) = 1 /\ LenUpto(b.iov, 1) = first
      BY <1>1, <1>2, FirstBlock
    <3>3. /\ delete_size_for_move_(b, first).size = b.size - first
          /\ delete_size_for_move_(b, first).pp
                = Used(b, Whole(b.iov, first) + 1) + (first - LenUpto(b.iov, Whole(b.iov, first)))
      BY <1>1, <3>1, LeftSound
    <3>4. d.b.size = b.size - first /\ d.b.pp = 0
      BY <1>2, <2>5, <3>2, <3>3 DEF Used
    <3>5. n - first \in 0 .. d.b.size /\ n - first \in 0 .. b.size - first /\ first + (n - first) = n
      BY <1>1, <1>2, <1>6, <3>4
    <3> HIDE DEF d, m
    <3>6. /\ Bytes(e.heap, e.from) = Drop(Bytes(d.heap, d.b), n - first)
          /\ Bytes(e.heap, e.to) = Join(Bytes(d.heap, o.to), Prefix(Bytes(d.heap, d.b), n - first))
      BY <2>6, <3>4, <3>5, NonpartialBytes
    <3> HIDE DEF e, q
    <3>7. /\ Join(Prefix(q, first), Prefix(Drop(q, first), n - first)) = Prefix(q, n)
          /\ Drop(Drop(q, first), n - first) = Drop(q, n)
      <4> DEFINE a == first  w == n - first
      <4>1. q \in Seq(Nat) /\ a \in 0 .. Len(q) /\ w \in 0 .. Len(q) - a
        BY <1>3, <2>2, <3>5
      <4>2. a + w = n
        BY <3>5
      <4> HIDE DEF a, w
      <4>3. Join(Prefix(q, a), Prefix(Drop(q, a), w)) = Prefix(q, a + w)
        BY <4>1, TwoPieces
      <4>4. Drop(Drop(q, a), w) = Drop(q, a + w)
        BY <4>1, TwoPieces
      <4> QED
        BY <4>2, <4>3, <4>4 DEF a, w
    <3>8. Prefix(q, first) \in Seq(Nat) /\ Prefix(Drop(q, first), n - first) \in Seq(Nat)
      <4>1. Prefix(q, first) \in Seq(Nat)
        BY <1>3, <2>2, PrefixIs
      <4>2. Drop(q, first) \in Seq(Nat) /\ Len(Drop(q, first)) = b.size - first
        <5>1. q \in Seq(Nat) /\ Len(q) = b.size /\ first \in 0 .. Len(q)
          BY <1>3, <2>2
        <5> HIDE DEF first
        <5> QED
          BY <5>1, DropIs
      <4> QED
        BY <3>5, <4>1, <4>2, PrefixIs
    <3>9. Join(Join(Bytes(h, c), Prefix(q, first)), Prefix(Drop(q, first), n - first))
             = Join(Bytes(h, c), Prefix(q, n))
      BY <1>3, <3>7, <3>8, JoinAssociative
    <3> QED
      BY <2>1, <2>7, <2>9, <3>6, <3>7, <3>9 DEF m, q
  <2> QED
    BY <2>8, <2>9
<1> QED
  BY <1>1, <1>2, <1>5, <1>6

LEMMA MovedBytes ==
  ASSUME NEW h, NEW X, NEW b, NEW c, Owned(h, X, b, c), NEW n \in 1 .. b.size
  PROVE  /\ Bytes(Moved(h, b, c, n).heap, Moved(h, b, c, n).from) = Drop(Bytes(h, b), n)
         /\ Bytes(Moved(h, b, c, n).heap, Moved(h, b, c, n).to) = Join(Bytes(h, c), Prefix(Bytes(h, b), n))
<1>1. b.pp \in Nat /\ b.size \in Nat /\ n \in 0 .. b.size
  BY DEF Owned, Sound, BufT
<1>2. CASE b.pp > 0
  <2>1. Moved(h, b, c, n) = move_partial_case_(h, b, c, n)
    BY <1>2 DEF Moved
  <2> QED
    BY <1>2, <2>1, PartialBytes
<1>3. CASE b.pp = 0
  <2>1. Moved(h, b, c, n) = move_nonpartial_case_(h, b, c, n)
    BY <1>3 DEF Moved
  <2> QED
    BY <1>1, <1>3, <2>1, NonpartialBytes
<1> QED
  BY <1>1, <1>2, <1>3

(* Reading: what is new is what has arrived.                               *)
Upto(n) == [i \in 1 .. n |-> taken + i]

LEMMA UptoIs ==
  ASSUME NEW n \in Nat, taken \in Nat
  PROVE  /\ Upto(n) \in Seq(Nat) /\ Len(Upto(n)) = n
         /\ \A i \in 1 .. n : Upto(n)[i] = taken + i
<1>1. Upto(n) \in [1 .. n -> Nat]
  BY DEF Upto
<1>2. \A l \in Nat : \A w \in [1 .. l -> Nat] : w \in Seq(Nat) /\ Len(w) = l
  OBVIOUS
<1>3. \A i \in 1 .. n : Upto(n)[i] = taken + i
  BY DEF Upto
<1> QED
  BY <1>1, <1>2, <1>3

LEMMA ReadBytes ==
  ASSUME IInv, NEW n \in Nat, NEW h, NEW r, NEW filled, HasRead(n, h, r, filled),
         NEW b, NEW c, AllOwned(h, r, b, c), Sound(heap, b), Sound(heap, c),
         Keeps(heap, heap', Bases(b.iov) \union Bases(c.iov))
  PROVE  /\ Bytes(heap', Extended(b, SubSeq(filled, 1, Blocks(n)), n)) = Join(Bytes(heap, b), Upto(n))
         /\ Bytes(heap', c) = Bytes(heap, c)
<1> DEFINE g == heap'
           gone == SubSeq(filled, 1, Blocks(n))
           e == Chain(gone)
<1>1. /\ n > 0 /\ n <= VecSize * BufSize /\ r \in Seq(IovT) /\ Full(h, r) /\ Len(r) = VecSize
      /\ IsHeap(g) /\ DOMAIN g = DOMAIN h /\ \A a \in DOMAIN h : Len(g[a]) = Len(h[a])
      /\ FilledIs(filled, r, n)
      /\ \A i \in 1 .. VecSize : \A j \in 1 .. BufSize :
            BufSize * (i - 1) + j <= n => g[r[i].base][j] = taken + (BufSize * (i - 1) + j)
  BY DEF HasRead
<1>2. IsHeap(heap) /\ taken \in Nat /\ BufSize \in Nat /\ BufSize > 0 /\ VecSize \in Nat
  BY IInvType, NewBlock
<1> HIDE DEF g
<1>3. \A a \in Bases(b.iov) \union Bases(c.iov) : a \in DOMAIN g /\ g[a] = heap[a]
  BY <1>1 DEF AllOwned, Keeps, g
<1>4. Bytes(g, b) = Bytes(heap, b) /\ Sound(g, b)
  BY <1>1, <1>2, <1>3, BytesFrame, SoundFrame
<1>5. Bytes(g, c) = Bytes(heap, c)
  BY <1>1, <1>2, <1>3, BytesFrame
<1>6. Sound(g, Extended(b, gone, n))
  <2>1. AllOwned(g, SubSeq(filled, Blocks(n) + 1, VecSize), Extended(b, gone, n), c)
    BY <1>1, ReadOwned
  <2> HIDE DEF gone
  <2> QED
    BY <2>1 DEF AllOwned
<1>7. Blocks(n) \in 1 .. VecSize
  BY <1>1, BlocksIs
<1>8. gone \in Seq(IovT) /\ Len(gone) = Blocks(n) /\ \A j \in 1 .. Blocks(n) : gone[j] = filled[j]
  <2>1. filled \in Seq(IovT) /\ Blocks(n) \in 0 .. Len(filled)
    BY <1>1, <1>2, <1>7 DEF FilledIs
  <2> QED
    BY <2>1, FrontIs
<1> HIDE DEF gone
<1>20. LenUpto(gone, Len(gone)) = n /\ FullBlocks(gone)
  BY <1>1, <1>8, GoneLength
<1>9. LenUpto(gone, Len(gone)) = n /\ \A j \in 1 .. Len(gone) : LenUpto(gone, j - 1) = BufSize * (j - 1)
  BY <1>20 DEF FullBlocks
<1>10. Sound(g, e) /\ Bytes(g, Extended(b, gone, n)) = Join(Bytes(g, b), Bytes(g, e))
  BY <1>1, <1>4, <1>6, <1>8, BytesExtended
<1>11. e.iov = gone /\ e.size = n /\ \A j : Used(e, j) = 0
  BY <1>9, ChainIs
<1> HIDE DEF e
<1>12. ASSUME NEW k \in 1 .. Len(gone), NEW j \in 1 .. gone[k].len
       PROVE  Upto(n)[LenUpto(gone, k - 1) + j] = g[gone[k].base][0 + j]
  <2>1. k \in 1 .. VecSize /\ gone[k] = filled[k] /\ gone[k].base = r[k].base
    BY <1>1, <1>2, <1>7, <1>8 DEF FilledIs
  <2>2. gone[k].len \in Nat /\ gone[k].len <= BufSize
    <3>1. gone[k].len = IF k = n \div BufSize + 1 /\ n % BufSize # 0 THEN n % BufSize ELSE BufSize
      BY <1>1, <2>1 DEF FilledIs
    <3>2. n % BufSize \in 0 .. BufSize - 1
      BY <1>2, Division
    <3> DEFINE m == n % BufSize
    <3>3. m \in 0 .. BufSize - 1 /\ (gone[k].len = m \/ gone[k].len = BufSize)
      BY <3>1, <3>2
    <3> HIDE DEF m
    <3> QED
      BY <1>2, <3>3
  <2>3. j \in 1 .. BufSize /\ j \in Nat
    BY <1>2, <2>2
  <2>4. LenUpto(gone, k - 1) + j \in 1 .. n /\ LenUpto(gone, k - 1) = BufSize * (k - 1)
    <3>1. \A i \in 1 .. Len(e.iov) : \A l \in 1 .. e.iov[i].len : LenUpto(e.iov, i - 1) + l \in 1 .. e.size
      BY <1>1, <1>10, BytesAt
    <3> QED
      BY <1>9, <1>11, <3>1
  <2> DEFINE z == BufSize * (k - 1) + j
  <2>5. z \in 1 .. n /\ LenUpto(gone, k - 1) + j = z
    BY <2>4
  <2>6. g[r[k].base][j] = taken + z
    BY <1>1, <2>1, <2>3, <2>5
  <2> HIDE DEF z
  <2>7. Upto(n)[z] = taken + z
    BY <1>2, <2>5, UptoIs
  <2>8. 0 + j = j
    BY <2>3
  <2> QED
    BY <2>1, <2>5, <2>6, <2>7, <2>8
<1>13. Bytes(g, e) = Upto(n)
  <2>1. \A k \in 1 .. Len(e.iov) : \A j \in 1 .. e.iov[k].len :
           Upto(n)[LenUpto(e.iov, k - 1) + j] = g[e.iov[k].base][Used(e, k) + j]
    BY <1>11, <1>12
  <2>2. Upto(n) \in Seq(Nat) /\ Len(Upto(n)) = e.size
    BY <1>2, <1>11, UptoIs
  <2>3. IsHeap(g) /\ Sound(g, e)
    BY <1>1, <1>10
  <2> QED
    BY <2>1, <2>2, <2>3, BytesAre
<1> QED
  BY <1>4, <1>5, <1>10, <1>13 DEF g, gone

(* Lines: the position found is that of the first LF in the chain's bytes. *)
IsLF(q, i)      == Input[q[i]] = "lf"
IsFirstLF(q, p) == IsLF(q, p) /\ \A i \in 1 .. p - 1 : ~IsLF(q, i)

LEMMA FirstFound ==
  ASSUME NEW h, IsHeap(h), NEW b, Sound(h, b)
  PROVE  LET p == find_pos_(h, b)
         IN  /\ p # -1 => p \in 0 .. b.size - 1 /\ IsFirstLF(Bytes(h, b), p + 1)
             /\ p = -1 => \A i \in 1 .. b.size : IsFirstLF(Bytes(h, b), i) => i > MaxLine
<1> DEFINE q == Bytes(h, b)
           s == b.iov
           p == find_pos_(h, b)
<1>1. s \in Seq(IovT) /\ Len(s) \in Nat /\ b.size = LenUpto(s, Len(s)) /\ b.size \in Nat /\ MaxLine \in Nat
  BY SizeAssumption DEF Sound, BufT
<1>2. \A k \in 1 .. Len(s) : \A j \in 1 .. s[k].len :
         LenUpto(s, k - 1) + j \in 1 .. b.size /\ q[LenUpto(s, k - 1) + j] = Slice(h, b, k)[j]
  BY BytesAt
<1>3. \A k \in 1 .. Len(s) : \A j : j \in LFs(h, b, k) <=> j \in 1 .. s[k].len /\ Input[Slice(h, b, k)[j]] = "lf"
  BY DEF LFs
<1> HIDE DEF q
<1>4. ASSUME NEW i \in 1 .. b.size, IsLF(q, i)
      PROVE  \E k \in 1 .. Len(s) : \E j \in LFs(h, b, k) : i = LenUpto(s, k - 1) + j
  <2>1. i \in 1 .. LenUpto(s, Len(s))
    BY <1>1
  <2>2. PICK k \in 1 .. Len(s) : \E j \in 1 .. s[k].len : i = LenUpto(s, k - 1) + j
    BY <1>1, <2>1, Located
  <2>3. PICK j \in 1 .. s[k].len : i = LenUpto(s, k - 1) + j
    BY <2>2
  <2>4. j \in LFs(h, b, k)
    BY <1>2, <1>3, <1>4, <2>3 DEF IsLF
  <2> QED
    BY <2>3, <2>4
<1>5. CASE p = -1 /\ \A k \in 1 .. Len(s) : LFs(h, b, k) = {}
  <2>1. \A i \in 1 .. b.size : ~IsLF(q, i)
    BY <1>4, <1>5
  <2> QED
    BY <1>5, <2>1 DEF IsFirstLF, q
<1>6. ASSUME NEW k \in 1 .. Len(s), NEW i \in LFs(h, b, k),
             \A l \in LFs(h, b, k) : i <= l,
             \A m \in 1 .. Len(s) : LFs(h, b, m) # {} => k <= m,
             LenUpto(s, k - 1) + i - 1 \in 0 .. b.size - 1,
             p = IF k > 1 /\ LenUpto(s, k - 1) + i - 1 > MaxLine THEN -1 ELSE LenUpto(s, k - 1) + i - 1
      PROVE  /\ p # -1 => p \in 0 .. b.size - 1 /\ IsFirstLF(q, p + 1)
             /\ p = -1 => \A j \in 1 .. b.size : IsFirstLF(q, j) => j > MaxLine
  <2> DEFINE a == LenUpto(s, k - 1)
             at == a + i
  <2>1. i \in 1 .. s[k].len /\ i \in Nat /\ Input[Slice(h, b, k)[i]] = "lf" /\ a \in Nat /\ s[k].len \in Nat
    <3>1. k - 1 \in 0 .. Len(s)
      BY <1>1
    <3>2. s[k] \in IovT
      BY <1>1
    <3> QED
      BY <1>1, <1>3, <3>1, <3>2, LenUptoIs DEF IovT
  <2>2. at \in 1 .. b.size /\ IsLF(q, at)
    BY <1>2, <2>1 DEF IsLF
  <2>3. ASSUME NEW j \in 1 .. b.size, IsLF(q, j) PROVE at <= j
    <3>1. PICK m \in 1 .. Len(s) : \E l \in LFs(h, b, m) : j = LenUpto(s, m - 1) + l
      BY <1>4, <2>3
    <3>2. PICK l \in LFs(h, b, m) : j = LenUpto(s, m - 1) + l
      BY <3>1
    <3>3. k <= m /\ l \in Nat /\ l >= 1
      <4>1. s[m] \in IovT
        BY <1>1
      <4>2. s[m].len \in Nat /\ l \in 1 .. s[m].len
        BY <1>3, <3>2, <4>1 DEF IovT
      <4> QED
        BY <1>6, <3>2, <4>2
    <3>4. CASE m = k
      <4>1. i <= l
        BY <1>6, <3>2, <3>4
      <4> HIDE DEF a
      <4>2. j = a + l
        BY <3>2, <3>4 DEF a
      <4> QED
        BY <2>1, <3>3, <4>1, <4>2
    <3>5. CASE m # k
      <4>1. m - 1 \in k .. Len(s) /\ k \in 0 .. Len(s) /\ m - 1 \in 0 .. Len(s)
        BY <1>1, <3>3, <3>5
      <4>2. /\ LenUpto(s, k) <= LenUpto(s, m - 1) /\ LenUpto(s, k) \in Nat /\ LenUpto(s, m - 1) \in Nat
            /\ LenUpto(s, k) = a + s[k].len
        BY <1>1, <4>1, LenUptoGrows, LenUptoIs
      <4> HIDE DEF a
      <4> DEFINE x == LenUpto(s, k)  y == LenUpto(s, m - 1)
      <4>3. at <= x /\ at \in Nat
        BY <2>1, <4>2
      <4>4. x \in Nat /\ y \in Nat /\ x <= y /\ j = y + l
        BY <3>2, <4>2
      <4> HIDE DEF at, x, y
      <4> QED
        BY <3>3, <4>3, <4>4
    <3> QED
      BY <3>4, <3>5
  <2>5. p = IF k > 1 /\ at - 1 > MaxLine THEN -1 ELSE at - 1
    <3>1. a + i - 1 = at - 1
      BY <2>1
    <3> QED
      BY <1>6, <3>1
  <2> HIDE DEF a
  <2>4. at \in Nat /\ at >= 1
    BY <1>1, <2>2
  <2> HIDE DEF at, p
  <2>6. IsFirstLF(q, at)
    <3>1. \A j \in 1 .. at - 1 : j \in 1 .. b.size /\ ~(at <= j)
      BY <1>1, <2>2, <2>4
    <3> QED
      BY <2>2, <2>3, <3>1 DEF IsFirstLF
  <2>7. ASSUME p # -1 PROVE p \in 0 .. b.size - 1 /\ p + 1 = at
    BY <1>1, <2>2, <2>4, <2>5, <2>7
  <2>8. ASSUME p = -1, NEW j \in 1 .. b.size, IsFirstLF(q, j) PROVE j > MaxLine
    <3>1. at <= j
      BY <2>3, <2>8 DEF IsFirstLF
    <3>2. at - 1 > MaxLine
      BY <2>4, <2>5, <2>8
    <3> QED
      BY <1>1, <2>4, <3>1, <3>2
  <2> QED
    BY <2>6, <2>7, <2>8
<1>7. \/ p = -1 /\ \A k \in 1 .. Len(s) : LFs(h, b, k) = {}
      \/ \E k \in 1 .. Len(s) : \E i \in LFs(h, b, k) :
            /\ \A l \in LFs(h, b, k) : i <= l
            /\ \A m \in 1 .. Len(s) : LFs(h, b, m) # {} => k <= m
            /\ LenUpto(s, k - 1) + i - 1 \in 0 .. b.size - 1
            /\ p = IF k > 1 /\ LenUpto(s, k - 1) + i - 1 > MaxLine THEN -1 ELSE LenUpto(s, k - 1) + i - 1
  BY FoundAt
<1> QED
  BY <1>5, <1>6, <1>7 DEF q

(* pos_val_ looks at one of the chain's bytes.                             *)
LEMMA ValIs ==
  ASSUME NEW h, IsHeap(h), NEW b, Sound(h, b), NEW pos \in 0 .. b.size - 1
  PROVE  pos_val_(h, b, pos) = Bytes(h, b)[pos + 1]
<1> DEFINE s == b.iov
           k == Whole(s, pos)
           j == pos - LenUpto(s, k) + 1
<1>1. s \in Seq(IovT) /\ Len(s) \in Nat /\ b.size = LenUpto(s, Len(s)) /\ b.size \in Nat /\ pos \in Nat
  BY DEF Sound, BufT
<1>2. k \in 0 .. Len(s) /\ LenUpto(s, k) <= pos /\ (k = Len(s) \/ LenUpto(s, k + 1) > pos)
  BY <1>1, WholeIs
<1>3. pos_val_(h, b, pos) = Slice(h, b, k + 1)[j]
  BY DEF pos_val_
<1> HIDE DEF k
<1>4. k # Len(s)
  BY <1>1, <1>2
<1>5. k + 1 \in 1 .. Len(s) /\ (k + 1) - 1 = k
  BY <1>1, <1>2, <1>4
<1>6. s[k + 1].len \in Nat
  <2>1. s[k + 1] \in IovT
    BY <1>1, <1>5
  <2> QED
    BY <2>1 DEF IovT
<1>7. /\ LenUpto(s, k + 1) = LenUpto(s, k) + s[k + 1].len /\ LenUpto(s, k) \in Nat
  <2>1. LenUpto(s, k + 1) = LenUpto(s, (k + 1) - 1) + s[k + 1].len
    BY <1>1, <1>5, LenUptoIs
  <2>2. LenUpto(s, k) \in Nat
    BY <1>1, <1>2, LenUptoIs
  <2> QED
    BY <1>5, <2>1, <2>2
<1>8. j \in 1 .. s[k + 1].len /\ LenUpto(s, k) + j = pos + 1
  <2> DEFINE l == LenUpto(s, k)  z == s[k + 1].len
  <2>1. l \in Nat /\ z \in Nat /\ l <= pos /\ l + z > pos
    BY <1>2, <1>4, <1>6, <1>7
  <2> HIDE DEF l, z
  <2>2. pos - l + 1 \in 1 .. z /\ l + (pos - l + 1) = pos + 1
    BY <1>1, <2>1
  <2> QED
    BY <2>2 DEF l, z
<1> HIDE DEF j
<1>9. Bytes(h, b)[LenUpto(s, (k + 1) - 1) + j] = Slice(h, b, k + 1)[j]
  BY <1>5, <1>8, BytesAt
<1> QED
  BY <1>3, <1>5, <1>8, <1>9

-----------------------------------------------------------------------------
(* The chains implement the queues: Content is the mapping.                *)
LEMMA ContentIs ==
  /\ Content(buf) = Bytes(heap, buf) /\ Content(body) = Bytes(heap, body)
  /\ Content(buf)' = Bytes(heap', buf') /\ Content(body)' = Bytes(heap', body')
BY DEF Content, Bytes

LEMMA ContentLength ==
  ASSUME IInv
  PROVE  /\ Content(buf) \in Seq(Nat) /\ Len(Content(buf)) = buf.size /\ buf.size \in Nat
         /\ Content(body) \in Seq(Nat) /\ Len(Content(body)) = body.size /\ body.size \in Nat
<1>1. IsHeap(heap) /\ Sound(heap, buf) /\ Sound(heap, body) /\ buf.size \in Nat /\ body.size \in Nat
  BY IInvType DEF BufT
<1>2. Bytes(heap, buf) \in Seq(Nat) /\ Len(Bytes(heap, buf)) = buf.size
  BY <1>1, BytesAt
<1>3. Bytes(heap, body) \in Seq(Nat) /\ Len(Bytes(heap, body)) = body.size
  BY <1>1, BytesAt
<1> QED
  BY <1>1, <1>2, <1>3, ContentIs

LEMMA MoveRefines ==
  ASSUME IInv, move_
  PROVE  Queues!Move
<1>1. PICK n \in 1 .. buf.size :
         /\ heap' = Moved(heap, buf, body, n).heap /\ buf' = Moved(heap, buf, body, n).from
         /\ body' = Moved(heap, buf, body, n).to /\ taken' = taken /\ result' = Done
  BY DEF move_
<1>2. Owned(heap, Bases(rdbuf), buf, body)
  BY TwoOfThree DEF IInv
<1>3. /\ Bytes(heap', buf') = Drop(Bytes(heap, buf), n)
      /\ Bytes(heap', body') = Join(Bytes(heap, body), Prefix(Bytes(heap, buf), n))
  BY <1>1, <1>2, MovedBytes
<1>4. Queues!Drop(Content(buf), n) = Drop(Content(buf), n)
  BY DEF Queues!Drop, Drop
<1>5. Content(body) \o SubSeq(Content(buf), 1, n) = Join(Content(body), Prefix(Content(buf), n))
  BY DEF Join, Prefix
<1>6. n \in 1 .. Len(Content(buf)) /\ Queues!Done = Done
  BY ContentLength DEF Queues!Done, Done, Queues!Answer, Answer
<1>7. /\ Content(body)' = Content(body) \o SubSeq(Content(buf), 1, n)
      /\ Content(buf)' = Queues!Drop(Content(buf), n)
  BY <1>3, <1>4, <1>5, ContentIs
<1> QED
  BY <1>1, <1>6, <1>7 DEF Queues!Move

LEMMA DeleteRefines ==
  ASSUME IInv, delete_
  PROVE  Queues!Delete
<1>1. PICK n \in 1 .. buf.size :
         /\ heap' = delete_size_(heap, buf, n).heap /\ buf' = delete_size_(heap, buf, n).b
         /\ body' = body /\ taken' = taken /\ result' = Done
  BY DEF delete_
<1>2. Owned(heap, Bases(rdbuf), buf, body) /\ n \in 0 .. buf.size
  BY ContentLength, TwoOfThree DEF IInv
<1>3. Bytes(heap', buf') = Drop(Bytes(heap, buf), n) /\ Bytes(heap', body') = Bytes(heap, body)
  BY <1>1, <1>2, DeleteBytes
<1>4. n \in 1 .. Len(Content(buf)) /\ Queues!Done = Done
  BY ContentLength DEF Queues!Done, Done, Queues!Answer, Answer
<1>5. Content(buf)' = Queues!Drop(Content(buf), n) /\ Content(body)' = Content(body)
  BY <1>3, ContentIs DEF Queues!Drop, Drop
<1> QED
  BY <1>1, <1>4, <1>5 DEF Queues!Delete

LEMMA WriteRefines ==
  ASSUME IInv, write_
  PROVE  Queues!Write
<1>1. PICK n \in 1 .. LenUpto(body.iov, Least(IovMax, Len(body.iov))) :
         /\ heap' = delete_size_(heap, body, n).heap /\ body' = delete_size_(heap, body, n).b
         /\ result' = Answer("write", get_str_(heap, body, n))
         /\ buf' = buf /\ taken' = taken
  BY DEF write_
<1>2. Owned(heap, Bases(rdbuf), body, buf) /\ IsHeap(heap) /\ Sound(heap, body) /\ body.size \in Nat
  BY IInvType, ContentLength, TwoOfThree DEF IInv
<1>3. n \in 1 .. body.size /\ n \in 0 .. body.size
  <2> DEFINE k == Least(IovMax, Len(body.iov))
  <2>1. body.iov \in Seq(IovT)
    BY IInvType
  <2>2. k \in 0 .. Len(body.iov)
    BY <2>1, SizeAssumption DEF Least
  <2> HIDE DEF k
  <2>3. LenUpto(body.iov, k) \in 0 .. body.size
    BY <1>2, <2>2, FrontBytes
  <2> QED
    BY <1>2, <2>3 DEF k
<1>4. Bytes(heap', body') = Drop(Bytes(heap, body), n) /\ Bytes(heap', buf') = Bytes(heap, buf)
  BY <1>1, <1>2, <1>3, DeleteBytes
<1>5. n \in 1 .. Len(Content(body))
  BY <1>3, ContentLength
<1>6. Content(body)' = Queues!Drop(Content(body), n) /\ Content(buf)' = Content(buf)
  BY <1>4, ContentIs DEF Queues!Drop, Drop
<1>7. result' = Queues!Answer("write", SubSeq(Content(body), 1, n))
  BY <1>1, <1>2, <1>3, StrIs, ContentIs DEF Queues!Answer, Answer, Prefix
<1> QED
  BY <1>1, <1>5, <1>6, <1>7 DEF Queues!Write

LEMMA ClearRefines ==
  ASSUME IInv, clear_
  PROVE  Queues!Clear
<1>1. /\ heap' = Free(heap, body.iov) /\ body' = Empty
      /\ buf' = buf /\ taken' = taken /\ result' = Done
  BY DEF clear_
<1>2. Owned(heap, Bases(rdbuf), body, buf) /\ body.size \in 0 .. body.size /\ body.size \in Nat
  BY ContentLength, TwoOfThree DEF IInv
<1>3. delete_size_(heap, body, body.size) = [heap |-> heap', b |-> body']
  BY <1>1, <1>2 DEF delete_size_, Passed, delete_size_for_move_
<1>4. Bytes(heap', body') = Drop(Bytes(heap, body), body.size) /\ Bytes(heap', buf') = Bytes(heap, buf)
  BY <1>1, <1>2, <1>3, DeleteBytes
<1>5. Drop(Content(body), body.size) = <<>>
  <2> DEFINE w == Content(body)
             q == Drop(w, body.size)
  <2>0. w \in Seq(Nat) /\ Len(w) = body.size
    BY ContentLength
  <2> HIDE DEF w
  <2>1. q \in Seq(Nat) /\ Len(q) = Len(w) - body.size
    BY <1>2, <2>0, DropIs
  <2>2. Len(q) = 0
    BY <1>2, <2>0, <2>1
  <2> HIDE DEF q
  <2>3. q = <<>>
    BY <2>1, <2>2, EmptySeq
  <2> QED
    BY <2>3 DEF q, w
<1>6. Content(body)' = <<>> /\ Content(buf)' = Content(buf)
  BY <1>4, <1>5, ContentIs
<1> QED
  BY <1>1, <1>6 DEF Queues!Clear, Queues!Done, Done, Queues!Answer, Answer

LEMMA AddStrRefines ==
  ASSUME IInv, add_str
  PROVE  Queues!Take
<1>1. PICK n \in 1 .. Len(Input) - taken :
         /\ taken' = taken + n /\ heap' = New(heap, Upto(n))
         /\ body' = push_back(body, Iov(Fresh(heap), n)) /\ buf' = buf /\ result' = Done
  BY DEF add_str, Upto
<1>2. taken \in Nat /\ taken <= Len(Input) /\ Len(Input) \in Nat
  BY IInvType
<1>3. n \in Nat /\ n > 0
  BY <1>1, <1>2
<1>4. Upto(n) \in Seq(Nat) /\ Len(Upto(n)) = n
  BY <1>2, <1>3, UptoIs
<1>5. Upto(n) # <<>>
  BY <1>3, <1>4
<1>6. Owned(heap, Bases(rdbuf), buf, body)
  BY TwoOfThree DEF IInv
<1>7. Bytes(heap', buf') = Bytes(heap, buf) /\ Bytes(heap', body') = Join(Bytes(heap, body), Upto(n))
  BY <1>1, <1>4, <1>5, <1>6, PushBytes
<1>8. Content(buf)' = Content(buf) /\ Content(body)' = Content(body) \o Queues!Upto(n)
  BY <1>7, ContentIs DEF Join, Upto, Queues!Upto
<1> QED
  BY <1>1, <1>8 DEF Queues!Take, Queues!Done, Done, Queues!Answer, Answer

LEMMA ReadRefines ==
  ASSUME IInv, read_
  PROVE  Queues!Take
<1>1. PICK n \in Nat : \E h, r, filled : HasRead(n, h, r, filled)
  BY ReadIs
<1>2. PICK h, r, filled : HasRead(n, h, r, filled)
  BY <1>1
<1>3. /\ n > 0 /\ n <= Len(Input) - taken /\ taken' = taken + n /\ result' = Done
      /\ AllOwned(h, r, buf, body) /\ AllOwned(h, r, body, buf)
      /\ Keeps(heap, heap', Bases(buf.iov) \union Bases(body.iov))
      /\ Keeps(heap, heap', Bases(body.iov) \union Bases(buf.iov))
  BY <1>2 DEF HasRead, AllOwned, Keeps
<1>4. Sound(heap, buf) /\ Sound(heap, body) /\ taken \in Nat /\ taken <= Len(Input) /\ Len(Input) \in Nat
  BY IInvType
<1>5. n \in 1 .. Len(Input) - taken
  BY <1>3, <1>4
<1> DEFINE gone == SubSeq(filled, 1, Blocks(n))
<1>6. CASE buf' = Extended(buf, gone, n) /\ body' = body
  <2>1. Bytes(heap', buf') = Join(Bytes(heap, buf), Upto(n)) /\ Bytes(heap', body') = Bytes(heap, body)
    BY <1>2, <1>3, <1>4, <1>6, ReadBytes
  <2>2. Content(body)' = Content(body) /\ Content(buf)' = Content(buf) \o Queues!Upto(n)
    BY <2>1, ContentIs DEF Join, Upto, Queues!Upto
  <2> QED
    BY <1>3, <1>5, <2>2 DEF Queues!Take, Queues!Done, Done, Queues!Answer, Answer
<1>7. CASE body' = Extended(body, gone, n) /\ buf' = buf
  <2>1. Bytes(heap', body') = Join(Bytes(heap, body), Upto(n)) /\ Bytes(heap', buf') = Bytes(heap, buf)
    BY <1>2, <1>3, <1>4, <1>7, ReadBytes
  <2>2. Content(buf)' = Content(buf) /\ Content(body)' = Content(body) \o Queues!Upto(n)
    BY <2>1, ContentIs DEF Join, Upto, Queues!Upto
  <2> QED
    BY <1>3, <1>5, <2>2 DEF Queues!Take, Queues!Done, Done, Queues!Answer, Answer
<1> QED
  BY <1>2, <1>6, <1>7 DEF HasRead

(* A line goes in two deletions, the end of the line by itself.            *)
LEMMA TakeLineBytes ==
  ASSUME IInv, NEW n \in Nat, NEW e \in Nat, n + e <= buf.size, TakeLine(n, e), body' = body
  PROVE  /\ result' = Answer("line", Prefix(Content(buf), n))
         /\ Content(buf)' = Drop(Content(buf), n + e) /\ Content(body)' = Content(body)
<1> DEFINE d == delete_size_(heap, buf, n)
           f == delete_size_(d.heap, d.b, e)
           q == Bytes(heap, buf)
<1>1. /\ result' = Answer("line", get_str_(heap, buf, n))
      /\ heap' = f.heap /\ buf' = f.b
  BY DEF TakeLine
<1>2. /\ Owned(heap, Bases(rdbuf), buf, body) /\ IsHeap(heap) /\ Sound(heap, buf) /\ buf.size \in Nat
      /\ n \in 0 .. buf.size
  BY IInvType, ContentLength, TwoOfThree DEF IInv
<1>3. q \in Seq(Nat) /\ Len(q) = buf.size
  BY <1>2, BytesAt
<1>4. Owned(d.heap, Bases(rdbuf), d.b, body)
  BY <1>2, DeleteOwned
<1>5. Bytes(d.heap, d.b) = Drop(q, n) /\ Bytes(d.heap, body) = Bytes(heap, body)
  BY <1>2, DeleteBytes
<1>6. get_str_(heap, buf, n) = Prefix(q, n)
  BY <1>2, StrIs
<1> HIDE DEF d, q
<1>7. e \in 0 .. d.b.size /\ e \in 0 .. Len(q) - n /\ n \in 0 .. Len(q)
  <2>1. Len(Drop(q, n)) = buf.size - n
    BY <1>2, <1>3, DropIs
  <2>2. Len(Bytes(d.heap, d.b)) = d.b.size
    BY <1>4, BytesAt DEF Owned
  <2> QED
    BY <1>2, <1>3, <1>5, <2>1, <2>2
<1>8. Bytes(f.heap, f.b) = Drop(Bytes(d.heap, d.b), e) /\ Bytes(f.heap, body) = Bytes(d.heap, body)
  BY <1>4, <1>7, DeleteBytes
<1> HIDE DEF f
<1>9. Drop(Drop(q, n), e) = Drop(q, n + e)
  BY <1>3, <1>7, TwoPieces
<1>10. /\ Bytes(heap', buf') = Drop(q, n + e) /\ Bytes(heap', body') = Bytes(heap, body)
  BY <1>1, <1>5, <1>8, <1>9
<1> QED
  BY <1>1, <1>6, <1>10, ContentIs DEF q

LEMMA GetLineRefines ==
  ASSUME IInv, NEW lf \in BOOLEAN, GetLine(lf)
  PROVE  Queues!GetLine /\ UNCHANGED <<taken, Content(body)>>
<1> DEFINE q == Content(buf)
           p == find_pos_(heap, buf)
           cr == Input[pos_val_(heap, buf, p - 1)] = "cr"
<1>1. taken' = taken /\ body' = body
  BY DEF GetLine
<1>2. /\ q \in Seq(Nat) /\ Len(q) = buf.size /\ buf.size \in Nat /\ q = Bytes(heap, buf)
      /\ IsHeap(heap) /\ Sound(heap, buf)
  BY IInvType, ContentLength, ContentIs
<1>3. /\ p # -1 => p \in 0 .. buf.size - 1 /\ IsFirstLF(q, p + 1)
      /\ p = -1 => \A i \in 1 .. buf.size : IsFirstLF(q, i) => i > MaxLine
  BY <1>2, FirstFound
<1>4. p - 1 \in 0 .. buf.size - 1 => pos_val_(heap, buf, p - 1) = q[p - 1 + 1]
  BY <1>2, ValIs
<1>5. \A i : Queues!IsFirstLF(q, i) <=> IsFirstLF(q, i)
  BY DEF IsFirstLF, IsLF, Queues!IsFirstLF, Queues!IsLF
<1>6. \/ p = -1 /\ NoLine("none")
      \/ p = 0 /\ NoLine("bare")
      \/ p \in Nat /\ p > 0 /\ cr /\ TakeLine(p - 1, 2)
      \/ p \in Nat /\ p > 0 /\ ~cr /\ (TakeLine(p, 1) \/ NoLine("bare"))
  <2>1. p = -1 \/ (p \in Nat /\ p # -1)
    BY <1>2, <1>3
  <2>2. CASE p = -1
    BY <2>2 DEF GetLine
  <2>3. CASE p = 0
    BY <2>3 DEF GetLine
  <2>4. CASE p \in Nat /\ p > 0 /\ cr
    BY <2>4 DEF GetLine
  <2>5. CASE p \in Nat /\ p > 0 /\ ~cr
    BY <2>5 DEF GetLine
  <2> QED
    BY <2>1, <2>2, <2>3, <2>4, <2>5
<1>7. \A kind, w : Queues!Answer(kind, w) = Answer(kind, w)
  BY DEF Queues!Answer, Answer
<1>8. \A n : Queues!Drop(q, n) = Drop(q, n) /\ Prefix(q, n) = SubSeq(q, 1, n)
  BY DEF Queues!Drop, Drop, Prefix
<1>9. ASSUME NEW kind, NoLine(kind)
      PROVE  result' = Queues!Answer(kind, <<>>) /\ Content(buf)' = q /\ Content(body)' = Content(body)
  BY <1>1, <1>7, <1>9, ContentIs DEF NoLine
<1> HIDE DEF p, cr, q
<1>10. CASE p = -1 /\ NoLine("none")
  <2>1. \A i \in 1 .. Len(q) : Queues!IsFirstLF(q, i) => i > MaxLine
    BY <1>2, <1>3, <1>5, <1>10
  <2> QED
    BY <1>1, <1>9, <1>10, <2>1 DEF Queues!GetLine, q
<1>11. CASE p \in Nat /\ (p = 0 \/ ~cr) /\ NoLine("bare")
  <2>1. p + 1 \in 1 .. Len(q) /\ Queues!IsFirstLF(q, p + 1) /\ p + 1 - 1 = p /\ (p + 1 > 1 <=> p > 0)
    BY <1>2, <1>3, <1>5, <1>11
  <2>2. p > 0 => Input[q[p]] # "cr"
    BY <1>2, <1>4, <1>11, <2>1 DEF cr
  <2> QED
    BY <1>1, <1>9, <1>11, <2>1, <2>2 DEF Queues!GetLine, q
<1>12. ASSUME NEW l \in 1 .. Len(q), IsFirstLF(q, l), l > 1,
              result' = Answer("line", Prefix(q, IF Input[q[l - 1]] = "cr" THEN l - 2 ELSE l - 1)),
              Content(buf)' = Drop(q, l), Content(body)' = Content(body)
       PROVE  Queues!GetLine /\ UNCHANGED <<taken, Content(body)>>
  <2>1. Queues!IsFirstLF(q, l) /\ Content(buf)' = Queues!Drop(q, l)
    BY <1>5, <1>8, <1>12
  <2> DEFINE is == l > 1 /\ Input[q[l - 1]] = "cr"
             n == IF Input[q[l - 1]] = "cr" THEN l - 2 ELSE l - 1
  <2>2. result' = Queues!Answer("line", SubSeq(q, 1, IF is THEN l - 2 ELSE l - 1))
    <3>1. (IF is THEN l - 2 ELSE l - 1) = n
      BY <1>12
    <3>2. result' = Queues!Answer("line", Prefix(q, n))
      BY <1>7, <1>12
    <3>3. Prefix(q, n) = SubSeq(q, 1, n)
      BY <1>8
    <3> HIDE DEF n, is
    <3> QED
      BY <3>1, <3>2, <3>3
  <2> QED
    BY <1>1, <1>12, <2>1, <2>2 DEF Queues!GetLine, q
<1>13. CASE p \in Nat /\ p > 0 /\ cr /\ TakeLine(p - 1, 2)
  <2>1. /\ p + 1 \in 1 .. Len(q) /\ IsFirstLF(q, p + 1) /\ p + 1 > 1 /\ (p - 1) + 2 = p + 1
        /\ (p + 1) - 1 = p /\ (p + 1) - 2 = p - 1 /\ p - 1 \in Nat /\ p + 1 <= buf.size
        /\ p - 1 \in 0 .. buf.size - 1 /\ (p - 1) + 1 = p
    BY <1>2, <1>3, <1>13
  <2>2. Input[q[p]] = "cr"
    BY <1>4, <1>13, <2>1 DEF cr
  <2>3. /\ result' = Answer("line", Prefix(q, p - 1))
        /\ Content(buf)' = Drop(q, (p - 1) + 2) /\ Content(body)' = Content(body)
    BY <1>1, <1>13, <2>1, TakeLineBytes DEF q
  <2> QED
    BY <1>12, <2>1, <2>2, <2>3
<1>14. CASE p \in Nat /\ p > 0 /\ ~cr /\ TakeLine(p, 1)
  <2>1. /\ p + 1 \in 1 .. Len(q) /\ IsFirstLF(q, p + 1) /\ p + 1 > 1
        /\ (p + 1) - 1 = p /\ p + 1 <= buf.size
        /\ p - 1 \in 0 .. buf.size - 1 /\ (p - 1) + 1 = p
    BY <1>2, <1>3, <1>14
  <2>2. Input[q[p]] # "cr"
    BY <1>4, <1>14, <2>1 DEF cr
  <2>3. /\ result' = Answer("line", Prefix(q, p))
        /\ Content(buf)' = Drop(q, p + 1) /\ Content(body)' = Content(body)
    BY <1>1, <1>14, <2>1, TakeLineBytes DEF q
  <2> QED
    BY <1>12, <2>1, <2>2, <2>3
<1> QED
  BY <1>6, <1>10, <1>11, <1>13, <1>14

LEMMA InitRefines == Init => Queues!Init
<1> SUFFICES ASSUME Init PROVE Queues!Init
  OBVIOUS
<1>1. taken = 0 /\ buf = Empty /\ body = Empty /\ result = Done
  BY DEF Init
<1>2. Sound(heap, Empty) /\ IsHeap(heap)
  BY InitIInv, IInvType, <1>1
<1>3. Content(Empty) = <<>>
  <2>1. Len(Empty.iov) = 0
    BY DEF Empty
  <2> QED
    BY <1>2, <2>1, BytesIs DEF Content
<1> QED
  BY <1>1, <1>3 DEF Queues!Init, Queues!Done, Done, Queues!Answer, Answer

LEMMA StepRefines == IInv /\ [Next]_vars => [Queues!Next]_(Queues!vars)
<1> SUFFICES ASSUME IInv, [Next]_vars PROVE [Queues!Next]_(Queues!vars)
  OBVIOUS
<1>1. CASE read_
  BY <1>1, ReadRefines DEF Queues!Next
<1>2. CASE move_
  BY <1>2, MoveRefines DEF Queues!Next
<1>3. CASE delete_
  BY <1>3, DeleteRefines DEF Queues!Next
<1>4. CASE write_
  BY <1>4, WriteRefines DEF Queues!Next
<1>5. CASE add_str
  BY <1>5, AddStrRefines DEF Queues!Next
<1>6. CASE clear_
  BY <1>6, ClearRefines DEF Queues!Next
<1>7. ASSUME NEW lf \in BOOLEAN, GetLine(lf) PROVE Queues!Next
  BY <1>7, GetLineRefines DEF Queues!Next
<1>8. CASE UNCHANGED vars
  <2>1. taken' = taken /\ heap' = heap /\ buf' = buf /\ body' = body /\ result' = result
    BY <1>8 DEF vars
  <2>2. Content(buf)' = Content(buf) /\ Content(body)' = Content(body)
    BY <2>1, ContentIs
  <2> QED
    BY <2>1, <2>2 DEF Queues!vars
<1> QED
  BY <1>1, <1>2, <1>3, <1>4, <1>5, <1>6, <1>7, <1>8 DEF Next

(* Whatever the blocks, the chains are the queues of bytes that the callers *)
(* take them for: no byte is lost, repeated, reordered or made up, a write  *)
(* sends the front of the queue, and a line is what precedes the first LF.  *)
THEOREM ChainsAreQueues == Spec => ImplementsByteQueue
BY InitRefines, StepRefines, Invariance, PTL DEF Spec, ImplementsByteQueue, Queues!Spec

=============================================================================
