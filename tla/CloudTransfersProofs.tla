------------------------ MODULE CloudTransfersProofs ------------------------
(***************************************************************************)
(* Proofs about CloudTransfers, for any number of files, revisions, parts  *)
(* and entries of the cache and whatever the other clients do: no half     *)
(* document appears, the cache is sound and serves what was listed, and a  *)
(* download that is reported as done is whole.                             *)
(*                                                                         *)
(* First what the operations of CloudContent do to the entries of the      *)
(* cache and to their bytes, for caches of any length.  The induction they *)
(* need is that every set of numbers that is not empty has a least one.    *)
(* Then Inductive, the invariant of the uploads, and Kept, that of the     *)
(* cache, the nodes and the download.                                      *)
(***************************************************************************)
EXTENDS CloudTransfers, WellFoundedInduction, TLAPS

LEMMA Least ==
    ASSUME NEW T \in SUBSET Nat, T # {}
    PROVE  \E x \in T : \A y \in T : x <= y
<1>1. PICK x \in T : \A y \in T : <<y, x>> \notin OpToRel(<, Nat)
  BY NatLessThanWellFounded, WFMin
<1>2. \A y \in T : ~ (y < x)
  BY <1>1 DEF OpToRel
<1>3. \A y \in T : x <= y
  BY <1>2
<1> QED  BY <1>3

LEMMA MinIsLeast ==
    ASSUME NEW T \in SUBSET Nat, T # {}
    PROVE  Min(T) \in T /\ \A y \in T : Min(T) <= y
BY Least DEF Min

\* Induction up to N over the numbers that have a property.
LEMMA Induction ==
    ASSUME NEW N \in Nat, NEW S, 0 \in S,
           \A n \in 0 .. N - 1 : n \in S => n + 1 \in S
    PROVE  \A n \in 0 .. N : n \in S
<1> DEFINE T == (0 .. N) \ S
<1> SUFFICES ASSUME T # {} PROVE FALSE
  OBVIOUS
<1>1. PICK x \in T : \A y \in T : x <= y
  <2>1. T \in SUBSET Nat
    OBVIOUS
  <2> HIDE DEF T
  <2> QED  BY <2>1, Least
<1>2. x # 0 /\ x - 1 \in 0 .. N - 1 /\ x - 1 \notin T
  BY <1>1
<1>3. x - 1 \in S
  BY <1>2
<1> QED  BY <1>2, <1>3

\* What recursion up to N by the steps of G makes of a.
IsStep(G, A, N) == G \in [A \X (1 .. N) -> A]
Recurses(f, a, G, A, N) ==
    /\ f \in [0 .. N -> A]
    /\ f[0] = a
    /\ \A n \in 1 .. N : f[n] = G[<<f[n - 1], n>>]

LEMMA Recursion ==
    ASSUME NEW N \in Nat, NEW A, NEW a \in A, NEW G, IsStep(G, A, N)
    PROVE  \E f : Recurses(f, a, G, A, N)
<1> USE DEF IsStep
<1> DEFINE Fits(f, m) == f[0] = a /\ \A n \in 1 .. m : f[n] = G[<<f[n - 1], n>>]
           S == {m \in 0 .. N : \E f \in [0 .. m -> A] : Fits(f, m)}
<1>1. 0 \in S
  <2> DEFINE h == [i \in 0 .. 0 |-> a]
  <2>1. h \in [0 .. 0 -> A] /\ Fits(h, 0)
    OBVIOUS
  <2> HIDE DEF h
  <2>2. \E f \in [0 .. 0 -> A] : Fits(f, 0)
    BY <2>1
  <2> QED  BY <2>2
<1>2. ASSUME NEW m \in 0 .. N - 1, m \in S PROVE m + 1 \in S
  <2>1. PICK f \in [0 .. m -> A] : Fits(f, m)
    BY <1>2
  <2> DEFINE g == [i \in 0 .. m + 1 |-> IF i <= m THEN f[i] ELSE G[<<f[m], m + 1>>]]
  <2>2. G[<<f[m], m + 1>>] \in A
    BY <2>1
  <2>3. g \in [0 .. m + 1 -> A]
    BY <2>2
  <2>4. \A i \in 0 .. m : g[i] = f[i]
    OBVIOUS
  <2>5. g[m + 1] = G[<<f[m], m + 1>>]
    OBVIOUS
  <2> HIDE DEF g
  <2>6. ASSUME NEW n \in 1 .. m + 1 PROVE g[n] = G[<<g[n - 1], n>>]
    <3>1. CASE n = m + 1
      BY <2>4, <2>5, <3>1
    <3>2. CASE n # m + 1
      <4>1. n \in 1 .. m /\ n - 1 \in 0 .. m
        BY <3>2
      <4> QED  BY <2>1, <2>4, <4>1
    <3> QED  BY <3>1, <3>2
  <2>7. g[0] = a
    BY <2>1, <2>4
  <2>8. Fits(g, m + 1)
    BY <2>6, <2>7
  <2> QED  BY <2>3, <2>8
<1> HIDE DEF S
<1>3. N \in S
  BY <1>1, <1>2, Induction
<1> QED  BY <1>3 DEF S, Recurses

-----------------------------------------------------------------------------
(* The count of the bytes. *)

Entries(D) == Seq([doc : D, rev : Nat, offset : Nat, bytes : Slice])

\* u counts the bytes of the first entries of s, for every number of them.
Counts(u, s) ==
    /\ u \in [0 .. Len(s) -> Nat]
    /\ u[0] = 0
    /\ \A n \in 1 .. Len(s) : u[n] = u[n - 1] + s[n].bytes.len

LEMMA LenIsNat ==
    ASSUME NEW D, NEW s \in Entries(D), NEW n \in 1 .. Len(s)
    PROVE  s[n].bytes.len \in Nat
<1> DEFINE E == [doc : D, rev : Nat, offset : Nat, bytes : Slice]
<1>1. s \in Seq(E)
  BY DEF Entries
<1>2. s[n] \in E
  <2> HIDE DEF E
  <2> QED  BY <1>1
<1> QED  BY <1>2 DEF Slice

LEMMA CountsExist ==
    ASSUME NEW D, NEW s \in Entries(D)
    PROVE  \E u : Counts(u, s)
<1> DEFINE N == Len(s)
           G == [x \in Nat \X (1 .. N) |-> x[1] + s[x[2]].bytes.len]
<1>1. N \in Nat
  BY DEF Entries
<1>2. IsStep(G, Nat, N)
  BY LenIsNat DEF IsStep
<1>3. \A m \in Nat, n \in 1 .. N : G[<<m, n>>] = m + s[n].bytes.len
  OBVIOUS
<1> HIDE DEF G
<1>4. PICK f : Recurses(f, 0, G, Nat, N)
  BY <1>1, <1>2, Recursion
<1>5. \A n \in 1 .. N : f[n - 1] \in Nat
  BY <1>1, <1>4 DEF Recurses
<1>6. Counts(f, s)
  BY <1>3, <1>4, <1>5 DEF Counts, Recurses
<1> QED  BY <1>6

\* Counts agree as far as the entries do.
LEMMA CountsAgree ==
    ASSUME NEW s, NEW t, NEW u, NEW w, NEW m \in Nat,
           Counts(u, s), Counts(w, t), m <= Len(s), m <= Len(t),
           Len(s) \in Nat, Len(t) \in Nat, \A n \in 1 .. m : s[n] = t[n]
    PROVE  \A n \in 0 .. m : u[n] = w[n]
<1> DEFINE S == {n \in 0 .. m : u[n] = w[n]}
<1>1. 0 \in S
  BY DEF Counts
<1>2. ASSUME NEW n \in 0 .. m - 1, n \in S PROVE n + 1 \in S
  <2>1. n + 1 \in 1 .. m /\ n + 1 \in 1 .. Len(s) /\ n + 1 \in 1 .. Len(t) /\ (n + 1) - 1 = n
    OBVIOUS
  <2>2. u[n + 1] = u[n] + s[n + 1].bytes.len /\ w[n + 1] = w[n] + t[n + 1].bytes.len
    BY <2>1 DEF Counts
  <2>3. u[n + 1] = w[n + 1]
    BY <1>2, <2>1, <2>2
  <2> QED  BY <2>1, <2>3
<1> HIDE DEF S
<1>3. \A n \in 0 .. m : n \in S
  BY <1>1, <1>2, Induction
<1> QED  BY <1>3 DEF S

LEMMA BytesCounted ==
    ASSUME NEW D, NEW s \in Entries(D), NEW w, Counts(w, s)
    PROVE  BytesOf(s) = w[Len(s)]
<1> DEFINE N == Len(s)
           Eq(g) == g = [n \in 0 .. N |-> IF n = 0 THEN 0 ELSE g[n - 1] + s[n].bytes.len]
<1>1. N \in Nat
  BY DEF Entries
<1>2. Eq(w)
  <2>1. \A n \in 0 .. N : w[n] = IF n = 0 THEN 0 ELSE w[n - 1] + s[n].bytes.len
    BY <1>1 DEF Counts
  <2>2. w = [n \in 0 .. N |-> w[n]]
    BY DEF Counts
  <2> QED  BY <2>1, <2>2
<1>3. Eq(CHOOSE g : Eq(g))
  BY <1>2
<1>4. PICK g : Eq(g) /\ BytesOf(s) = g[N]
  BY <1>3 DEF BytesOf
<1>5. /\ g[0] = 0
      /\ \A n \in 1 .. N : g[n] = g[n - 1] + s[n].bytes.len
  BY <1>1, <1>4
<1> DEFINE S == {n \in 0 .. N : g[n] = w[n]}
<1>6. 0 \in S
  BY <1>1, <1>5 DEF Counts
<1>7. ASSUME NEW n \in 0 .. N - 1, n \in S PROVE n + 1 \in S
  <2>1. n + 1 \in 1 .. N /\ (n + 1) - 1 = n
    BY <1>1
  <2>2. g[n + 1] = g[n] + s[n + 1].bytes.len /\ w[n + 1] = w[n] + s[n + 1].bytes.len
    BY <1>5, <2>1 DEF Counts
  <2> QED  BY <1>7, <2>1, <2>2
<1> HIDE DEF S
<1>8. \A n \in 0 .. N : n \in S
  BY <1>1, <1>6, <1>7, Induction
<1> QED  BY <1>1, <1>4, <1>8 DEF S

\* BytesOf counts.
LEMMA BytesType ==
    ASSUME NEW D, NEW s \in Entries(D)
    PROVE  BytesOf(s) \in Nat
<1>1. PICK u : Counts(u, s)
  BY CountsExist
<1>2. Len(s) \in 0 .. Len(s)
  BY DEF Entries
<1> QED  BY <1>1, <1>2, BytesCounted DEF Counts

LEMMA BytesEmpty == BytesOf(<<>>) = 0
<1>1. <<>> \in Entries({}) /\ Len(<<>>) = 0
  BY DEF Entries
<1>2. PICK u : Counts(u, <<>>)
  BY <1>1, CountsExist
<1> QED  BY <1>1, <1>2, BytesCounted DEF Counts

LEMMA AppendEntries ==
    ASSUME NEW D, NEW s \in Entries(D),
           NEW e \in [doc : D, rev : Nat, offset : Nat, bytes : Slice]
    PROVE  /\ Append(s, e) \in Entries(D)
           /\ Len(Append(s, e)) = Len(s) + 1 /\ Len(s) \in Nat
           /\ Append(s, e)[Len(s) + 1] = e
           /\ \A n \in 1 .. Len(s) : Append(s, e)[n] = s[n]
<1> DEFINE E == [doc : D, rev : Nat, offset : Nat, bytes : Slice]
<1>1. s \in Seq(E) /\ e \in E
  BY DEF Entries
<1> HIDE DEF E
<1>2. /\ Append(s, e) \in Seq(E)
      /\ Len(Append(s, e)) = Len(s) + 1 /\ Len(s) \in Nat
      /\ Append(s, e)[Len(s) + 1] = e
      /\ \A n \in 1 .. Len(s) : Append(s, e)[n] = s[n]
  BY <1>1
<1> QED  BY <1>2 DEF E, Entries

LEMMA BytesAppended ==
    ASSUME NEW D, NEW s \in Entries(D),
           NEW e \in [doc : D, rev : Nat, offset : Nat, bytes : Slice]
    PROVE  BytesOf(Append(s, e)) = BytesOf(s) + e.bytes.len
<1> DEFINE N == Len(s)
           t == Append(s, e)
<1>1. /\ t \in Entries(D) /\ Len(t) = N + 1 /\ N \in Nat
      /\ t[N + 1] = e /\ \A n \in 1 .. N : s[n] = t[n]
  BY AppendEntries
<1> HIDE DEF t
<1>2. PICK u : Counts(u, s)
  BY CountsExist
<1>3. PICK w : Counts(w, t)
  BY <1>1, CountsExist
<1>4. u[N] = w[N]
  <2>1. N \in 0 .. N /\ N <= Len(t) /\ Len(t) \in Nat /\ N <= N
    BY <1>1
  <2> QED  BY <1>1, <1>2, <1>3, <2>1, CountsAgree
<1>5. w[N + 1] = w[N] + e.bytes.len
  <2>1. N + 1 \in 1 .. Len(t) /\ (N + 1) - 1 = N
    BY <1>1
  <2> QED  BY <1>1, <1>3, <2>1 DEF Counts
<1>6. BytesOf(s) = u[N] /\ BytesOf(t) = w[N + 1]
  BY <1>1, <1>2, <1>3, BytesCounted
<1> QED  BY <1>4, <1>5, <1>6 DEF t

LEMMA SubEntries ==
    ASSUME NEW D, NEW s \in Entries(D), NEW m \in 1 .. Len(s) + 1, NEW n \in m - 1 .. Len(s)
    PROVE  /\ SubSeq(s, m, n) \in Entries(D)
           /\ Len(SubSeq(s, m, n)) = n - m + 1
           /\ \A i \in 1 .. n - m + 1 : SubSeq(s, m, n)[i] = s[m + i - 1]
<1> DEFINE E == [doc : D, rev : Nat, offset : Nat, bytes : Slice]
<1>1. s \in Seq(E)
  BY DEF Entries
<1> HIDE DEF E
<1>2. Len(s) \in Nat /\ \A i \in 1 .. Len(s) : s[i] \in E
  BY <1>1
<1>3. /\ SubSeq(s, m, n) = [i \in 1 .. n - m + 1 |-> s[m + i - 1]]
      /\ \A i \in m .. n : s[i] \in E
  BY <1>1, <1>2
<1>4. SubSeq(s, m, n) \in Seq(E) /\ Len(SubSeq(s, m, n)) = n - m + 1
  BY <1>1, <1>2, <1>3
<1>5. \A i \in 1 .. n - m + 1 : SubSeq(s, m, n)[i] = s[m + i - 1]
  BY <1>3
<1> QED  BY <1>4, <1>5 DEF E, Entries

LEMMA EmptyEntries ==
    ASSUME NEW D, NEW s \in Entries(D), Len(s) = 0
    PROVE  s = <<>>
<1> DEFINE E == [doc : D, rev : Nat, offset : Nat, bytes : Slice]
<1>1. s \in Seq(E)
  BY DEF Entries
<1> HIDE DEF E
<1> QED  BY <1>1

\* The bytes of the oldest entries and those of the rest are all.
LEMMA BytesSplit ==
    ASSUME NEW D, NEW s \in Entries(D), NEW k \in 0 .. Len(s)
    PROVE  BytesOf(s) = BytesOf(SubSeq(s, 1, k)) + BytesOf(SubSeq(s, k + 1, Len(s)))
<1> DEFINE N == Len(s)
           a == SubSeq(s, 1, k)
           b == SubSeq(s, k + 1, N)
<1>0. N \in Nat /\ k \in Nat /\ k <= N
  BY DEF Entries
<1>1. /\ a \in Entries(D) /\ Len(a) = k
      /\ \A i \in 1 .. k : s[i] = a[i]
  BY <1>0, SubEntries
<1>2. /\ b \in Entries(D) /\ Len(b) = N - k
      /\ \A i \in 1 .. N - k : b[i] = s[k + i]
  BY <1>0, SubEntries
<1> HIDE DEF a, b
<1>3. PICK u, v, w : Counts(u, s) /\ Counts(v, a) /\ Counts(w, b)
  BY <1>1, <1>2, CountsExist
<1>4. u[k] = v[k]
  BY <1>0, <1>1, <1>3, CountsAgree
<1> DEFINE S == {n \in 0 .. N - k : u[k + n] = u[k] + w[n]}
<1>5. 0 \in S
  BY <1>0, <1>3 DEF Counts
<1>6. ASSUME NEW n \in 0 .. N - k - 1, n \in S PROVE n + 1 \in S
  <2>1. /\ n + 1 \in 1 .. N - k /\ (n + 1) - 1 = n
        /\ k + n + 1 \in 1 .. N /\ (k + n + 1) - 1 = k + n /\ k + n \in 0 .. N
    BY <1>0
  <2>2. /\ u[k + n + 1] = u[k + n] + s[k + n + 1].bytes.len
        /\ w[n + 1] = w[n] + b[n + 1].bytes.len
    BY <1>2, <1>3, <2>1 DEF Counts
  <2>3. b[n + 1] = s[k + n + 1]
    BY <1>0, <1>2, <2>1
  <2>4. u[k + n + 1] = u[k] + w[n + 1]
    <3>1. u[k] \in Nat /\ w[n] \in Nat /\ s[k + n + 1].bytes.len \in Nat
      <4>1. k \in 0 .. N /\ n \in 0 .. N - k
        BY <1>0
      <4>2. s[k + n + 1].bytes.len \in Nat
        BY <2>1, LenIsNat
      <4> QED  BY <1>2, <1>3, <4>1, <4>2 DEF Counts
    <3> QED  BY <1>6, <2>2, <2>3, <3>1
  <2> QED  BY <1>0, <2>1, <2>4
<1> HIDE DEF S
<1>7. N - k \in S
  <2>1. N - k \in Nat /\ N - k \in 0 .. N - k
    BY <1>0
  <2> QED  BY <1>5, <1>6, <2>1, Induction
<1>8. u[N] = v[k] + w[N - k]
  BY <1>0, <1>4, <1>7 DEF S
<1>9. BytesOf(s) = u[N] /\ BytesOf(a) = v[k] /\ BytesOf(b) = w[N - k]
  BY <1>1, <1>2, <1>3, BytesCounted
<1> QED  BY <1>8, <1>9 DEF a, b

-----------------------------------------------------------------------------
(* The entries of some documents. *)

\* f gives those of the first entries of s, for every number of them.
Selects(f, s, docs, D) ==
    /\ f \in [0 .. Len(s) -> Entries(D)]
    /\ f[0] = <<>>
    /\ \A n \in 1 .. Len(s) :
        f[n] = IF s[n].doc \in docs THEN Append(f[n - 1], s[n]) ELSE f[n - 1]

LEMMA EntryType ==
    ASSUME NEW D, NEW s \in Entries(D), NEW n \in 1 .. Len(s)
    PROVE  s[n] \in [doc : D, rev : Nat, offset : Nat, bytes : Slice]
<1> DEFINE E == [doc : D, rev : Nat, offset : Nat, bytes : Slice]
<1>1. s \in Seq(E)
  BY DEF Entries
<1> HIDE DEF E
<1>2. s[n] \in E
  BY <1>1
<1> QED  BY <1>2 DEF E

LEMMA ThoseSelects ==
    ASSUME NEW D, NEW s \in Entries(D), NEW docs
    PROVE  \E f : Selects(f, s, docs, D) /\ Those(s, docs) = f[Len(s)]
<1> DEFINE N == Len(s)
           A == Entries(D)
           Kept(r, n) == IF s[n].doc \in docs THEN Append(r, s[n]) ELSE r
           G == [x \in A \X (1 .. N) |-> Kept(x[1], x[2])]
           Eq(g) == g = [n \in 0 .. N |-> IF n = 0 THEN <<>> ELSE Kept(g[n - 1], n)]
<1>1. N \in Nat /\ <<>> \in A
  BY DEF Entries
<1>2. \A t \in A, n \in 1 .. N : Kept(t, n) \in A
  BY EntryType, AppendEntries
<1>3. ASSUME NEW g, Eq(g), g = CHOOSE h : Eq(h) PROVE Those(s, docs) = g[N]
  BY <1>3 DEF Those
<1>4. ASSUME NEW f, f \in [0 .. N -> A], f[0] = <<>>, \A n \in 1 .. N : f[n] = Kept(f[n - 1], n)
      PROVE  Selects(f, s, docs, D)
  BY <1>4 DEF Selects
<1> HIDE DEF A, Kept
<1>5. IsStep(G, A, N)
  BY <1>2 DEF IsStep
<1>6. \A t \in A, n \in 1 .. N : G[<<t, n>>] = Kept(t, n)
  OBVIOUS
<1> HIDE DEF G
<1>7. PICK f : Recurses(f, <<>>, G, A, N)
  BY <1>1, <1>5, Recursion
<1>8. \A n \in 1 .. N : f[n - 1] \in A
  BY <1>1, <1>7 DEF Recurses
<1>9. f \in [0 .. N -> A] /\ f[0] = <<>> /\ \A n \in 1 .. N : f[n] = Kept(f[n - 1], n)
  BY <1>6, <1>7, <1>8 DEF Recurses
<1>10. Eq(f)
  <2>1. f = [n \in 0 .. N |-> f[n]]
    BY <1>9
  <2>2. \A n \in 0 .. N : f[n] = IF n = 0 THEN <<>> ELSE Kept(f[n - 1], n)
    BY <1>1, <1>9
  <2> QED  BY <2>1, <2>2
<1>11. PICK g : Eq(g) /\ g = CHOOSE h : Eq(h)
  BY <1>10
<1>12. g[0] = <<>> /\ \A n \in 1 .. N : g[n] = Kept(g[n - 1], n)
  BY <1>1, <1>11
<1> DEFINE S == {n \in 0 .. N : g[n] = f[n]}
<1>13. 0 \in S
  BY <1>1, <1>9, <1>12
<1>14. ASSUME NEW n \in 0 .. N - 1, n \in S PROVE n + 1 \in S
  <2>1. n + 1 \in 1 .. N /\ (n + 1) - 1 = n
    BY <1>1
  <2> QED  BY <1>9, <1>12, <1>14, <2>1
<1> HIDE DEF S
<1>15. N \in S
  <2>1. N \in 0 .. N
    BY <1>1
  <2> QED  BY <1>1, <1>13, <1>14, <2>1, Induction
<1>16. Those(s, docs) = g[N]
  BY <1>3, <1>11
<1>17. g[N] = f[N]
  BY <1>15 DEF S
<1>18. Selects(f, s, docs, D)
  BY <1>4, <1>9
<1> QED  BY <1>16, <1>17, <1>18

\* They are entries of the sequence, of the documents asked for.
LEMMA ThoseAreSome ==
    ASSUME NEW D, NEW s \in Entries(D), NEW docs
    PROVE  /\ Those(s, docs) \in Entries(D)
           /\ Len(Those(s, docs)) <= Len(s)
           /\ \A i \in 1 .. Len(Those(s, docs)) :
                /\ Those(s, docs)[i].doc \in docs
                /\ \E j \in 1 .. Len(s) : Those(s, docs)[i] = s[j]
<1> DEFINE N == Len(s)
<1>0. N \in Nat
  BY DEF Entries
<1>1. PICK f : Selects(f, s, docs, D) /\ Those(s, docs) = f[N]
  BY ThoseSelects
<1> DEFINE Some(n) == /\ Len(f[n]) <= n
                      /\ \A i \in 1 .. Len(f[n]) :
                           f[n][i].doc \in docs /\ \E j \in 1 .. n : f[n][i] = s[j]
           S == {n \in 0 .. N : Some(n)}
<1>2. 0 \in S
  BY <1>0, <1>1 DEF Selects
<1>3. ASSUME NEW n \in 0 .. N - 1, n \in S PROVE n + 1 \in S
  <2>1. n + 1 \in 1 .. N /\ (n + 1) - 1 = n /\ n \in 0 .. N
    BY <1>0
  <2>2. f[n + 1] = IF s[n + 1].doc \in docs THEN Append(f[n], s[n + 1]) ELSE f[n]
    BY <1>1, <2>1 DEF Selects
  <2>3. f[n] \in Entries(D) /\ Some(n)
    BY <1>1, <1>3, <2>1 DEF Selects
  <2>4. Some(n + 1)
    <3>1. CASE s[n + 1].doc \in docs
      <4> DEFINE t == Append(f[n], s[n + 1])
      <4>1. /\ Len(t) = Len(f[n]) + 1 /\ Len(f[n]) \in Nat /\ t[Len(f[n]) + 1] = s[n + 1]
            /\ \A i \in 1 .. Len(f[n]) : t[i] = f[n][i]
        BY <2>1, <2>3, EntryType, AppendEntries
      <4>2. f[n + 1] = t
        BY <2>2, <3>1
      <4> HIDE DEF t
      <4>3. Len(t) <= n + 1
        BY <2>3, <4>1
      <4>4. ASSUME NEW i \in 1 .. Len(t)
            PROVE  t[i].doc \in docs /\ \E j \in 1 .. n + 1 : t[i] = s[j]
        <5>1. CASE i = Len(f[n]) + 1
          BY <2>1, <3>1, <4>1, <5>1
        <5>2. CASE i \in 1 .. Len(f[n])
          <6>1. t[i] = f[n][i] /\ f[n][i].doc \in docs
            BY <2>3, <4>1, <5>2
          <6>2. PICK j \in 1 .. n : f[n][i] = s[j]
            BY <2>3, <5>2
          <6> QED  BY <6>1, <6>2
        <5> QED  BY <4>1, <5>1, <5>2
      <4> QED  BY <4>2, <4>3, <4>4
    <3>2. CASE s[n + 1].doc \notin docs
      <4>1. f[n + 1] = f[n]
        BY <2>2, <3>2
      <4>2. Len(f[n]) \in Nat
        BY <2>3 DEF Entries
      <4> QED  BY <2>3, <4>1, <4>2
    <3> QED  BY <3>1, <3>2
  <2> QED  BY <2>1, <2>4
<1> HIDE DEF S
<1>4. N \in S
  <2>1. N \in 0 .. N
    BY <1>0
  <2> QED  BY <1>0, <1>2, <1>3, <2>1, Induction
<1>5. f[N] \in Entries(D)
  BY <1>0, <1>1 DEF Selects
<1> QED  BY <1>1, <1>4, <1>5 DEF S

\* What is taken out and what stays are together as many bytes as before.
LEMMA BytesParted ==
    ASSUME NEW D, NEW s \in Entries(D), NEW docs
    PROVE  BytesOf(s) = BytesOf(Those(s, docs)) + BytesOf(Others(s, docs))
<1> DEFINE N == Len(s)
           rest == DocsOf(s) \ docs
<1>0. N \in Nat
  BY DEF Entries
<1>1. PICK f : Selects(f, s, docs, D) /\ Those(s, docs) = f[N]
  BY ThoseSelects
<1>2. PICK g : Selects(g, s, rest, D) /\ Others(s, docs) = g[N]
  BY ThoseSelects DEF Others
<1>3. PICK u : Counts(u, s)
  BY CountsExist
<1>4. \A n \in 1 .. N : s[n].doc \in rest <=> s[n].doc \notin docs
  <2>1. DOMAIN s = 1 .. N
    BY DEF Entries
  <2> QED  BY <2>1 DEF DocsOf
<1> HIDE DEF rest
<1> DEFINE S == {n \in 0 .. N : u[n] = BytesOf(f[n]) + BytesOf(g[n])}
<1>5. 0 \in S
  BY <1>0, <1>1, <1>2, <1>3, BytesEmpty DEF Selects, Counts
<1>6. ASSUME NEW n \in 0 .. N - 1, n \in S PROVE n + 1 \in S
  <2>1. n + 1 \in 1 .. N /\ (n + 1) - 1 = n /\ n \in 0 .. N
    BY <1>0
  <2> DEFINE e == s[n + 1]
  <2>2. e \in [doc : D, rev : Nat, offset : Nat, bytes : Slice] /\ e.bytes.len \in Nat
    BY <2>1, EntryType, LenIsNat
  <2>3. /\ f[n] \in Entries(D) /\ g[n] \in Entries(D)
        /\ f[n + 1] = IF e.doc \in docs THEN Append(f[n], e) ELSE f[n]
        /\ g[n + 1] = IF e.doc \in rest THEN Append(g[n], e) ELSE g[n]
    BY <1>1, <1>2, <2>1 DEF Selects
  <2>4. u[n + 1] = u[n] + e.bytes.len
    BY <1>3, <2>1 DEF Counts
  <2>5. e.doc \in rest <=> e.doc \notin docs
    BY <1>4, <2>1
  <2> HIDE DEF e
  <2>6. /\ BytesOf(f[n]) \in Nat /\ BytesOf(Append(f[n], e)) = BytesOf(f[n]) + e.bytes.len
        /\ BytesOf(g[n]) \in Nat /\ BytesOf(Append(g[n], e)) = BytesOf(g[n]) + e.bytes.len
    BY <2>2, <2>3, BytesType, BytesAppended
  <2>7. u[n] = BytesOf(f[n]) + BytesOf(g[n])
    BY <1>6
  <2>8. u[n + 1] = BytesOf(f[n + 1]) + BytesOf(g[n + 1])
    BY <2>2, <2>3, <2>4, <2>5, <2>6, <2>7
  <2> QED  BY <2>1, <2>8
<1> HIDE DEF S
<1>7. N \in S
  <2>1. N \in 0 .. N
    BY <1>0
  <2> QED  BY <1>0, <1>5, <1>6, <2>1, Induction
<1> QED  BY <1>1, <1>2, <1>3, <1>7, BytesCounted DEF S

-----------------------------------------------------------------------------
(* The operations. *)

\* The count is that of the bytes.
CountExact(stored, D) ==
    /\ stored \in [entries : Entries(D), used : Nat]
    /\ stored.used = BytesOf(stored.entries)

\* What is kept is some of what there was.
Among(some, s) == \A i \in 1 .. Len(some) : \E j \in 1 .. Len(s) : some[i] = s[j]

\* Trimming keeps the count exact and brings it down to the maximum.
LEMMA TrimKeeps ==
    ASSUME NEW D, NEW maximum \in Nat, NEW stored, CountExact(stored, D)
    PROVE  LET c == TrimTo(stored, maximum)
           IN  /\ CountExact(c, D) /\ c.used <= maximum
               /\ Len(c.entries) <= Len(stored.entries) /\ Among(c.entries, stored.entries)
<1> DEFINE s == stored.entries
           N == Len(s)
           After(n) == stored.used - BytesOf(SubSeq(s, 1, n))
           T == {n \in 0 .. N : After(n) <= maximum} \cup {N}
           k == Min(T)
           rest == SubSeq(s, k + 1, N)
<1>0. N \in Nat /\ s \in Entries(D)
  BY DEF CountExact, Entries
<1>1. T \in SUBSET Nat /\ T # {} /\ N \in T
  BY <1>0
<1>2. k \in T
  <2> HIDE DEF T
  <2> QED  BY <1>1, MinIsLeast
<1>3. k \in 0 .. N
  BY <1>0, <1>2
<1>4. TrimTo(stored, maximum) = [entries |-> rest, used |-> After(k)]
  BY DEF TrimTo
<1>5. rest \in Entries(D) /\ Len(rest) = N - k /\ \A i \in 1 .. N - k : rest[i] = s[k + i]
  <2> HIDE DEF k, s
  <2>1. k + 1 \in 1 .. N + 1 /\ N \in (k + 1) - 1 .. N /\ N - (k + 1) + 1 = N - k
    BY <1>0, <1>3
  <2>2. \A i \in 1 .. N - k : (k + 1) + i - 1 = k + i
    BY <1>0, <1>3
  <2> QED  BY <1>0, <2>1, <2>2, SubEntries
<1>6. After(k) = BytesOf(rest)
  <2>1. SubSeq(s, 1, k) \in Entries(D)
    BY <1>0, <1>3, SubEntries
  <2>2. BytesOf(SubSeq(s, 1, k)) \in Nat /\ BytesOf(rest) \in Nat
    BY <1>5, <2>1, BytesType
  <2>3. BytesOf(s) = BytesOf(SubSeq(s, 1, k)) + BytesOf(rest)
    BY <1>0, <1>3, BytesSplit
  <2>4. stored.used = BytesOf(s)
    BY DEF CountExact
  <2> HIDE DEF rest, s, k, N
  <2> QED  BY <2>2, <2>3, <2>4
<1>7. After(k) <= maximum
  <2>1. CASE k = N
    <3>1. Len(rest) = 0
      BY <1>0, <1>5, <2>1
    <3>2. rest = <<>>
      BY <1>5, <3>1, EmptyEntries
    <3>3. BytesOf(rest) = 0
      BY <3>2, BytesEmpty
    <3> HIDE DEF rest, k
    <3> QED  BY <1>6, <3>3
  <2>2. CASE k # N
    BY <1>2, <2>2
  <2> QED  BY <2>1, <2>2
<1> HIDE DEF rest, k
<1>8. Among(rest, s)
  <2> SUFFICES ASSUME NEW i \in 1 .. Len(rest) PROVE \E j \in 1 .. Len(s) : rest[i] = s[j]
    BY DEF Among
  <2> HIDE DEF s
  <2>1. k + i \in 1 .. N /\ rest[i] = s[k + i]
    BY <1>0, <1>3, <1>5
  <2> QED  BY <2>1
<1> HIDE DEF After, s, N
<1>9. N - k <= N
  BY <1>0, <1>3
<1>10. BytesOf(rest) \in Nat
  BY <1>5, BytesType
<1> QED  BY <1>4, <1>5, <1>10, <1>6, <1>7, <1>8, <1>9 DEF CountExact, s, N

IsEntry(e, D) == e \in [doc : D, rev : Nat, offset : Nat, bytes : Slice]

\* A cache holds nothing but what another one held and, maybe, the entry e.
AtMostOneMore(new, old, e) ==
    \A i \in 1 .. Len(new.entries) :
        \/ new.entries[i] = e
        \/ \E j \in 1 .. Len(old.entries) : new.entries[i] = old.entries[j]

\* A new entry comes, and the count is brought down to the maximum again.
LEMMA PutKeeps ==
    ASSUME NEW D, NEW maximum \in Nat, NEW stored, CountExact(stored, D),
           NEW e, IsEntry(e, D)
    PROVE  /\ CountExact(PutRange(stored, e, maximum), D)
           /\ PutRange(stored, e, maximum).used <= maximum
           /\ AtMostOneMore(PutRange(stored, e, maximum), stored, e)
<1>0. e \in [doc : D, rev : Nat, offset : Nat, bytes : Slice]
  BY DEF IsEntry
<1> DEFINE s == stored.entries
           t == Append(s, e)
           more == [entries |-> t, used |-> stored.used + e.bytes.len]
           c == TrimTo(more, maximum)
<1>1. s \in Entries(D) /\ stored.used = BytesOf(s)
  BY DEF CountExact
<1>2. /\ t \in Entries(D) /\ Len(t) = Len(s) + 1 /\ Len(s) \in Nat
      /\ t[Len(s) + 1] = e /\ \A n \in 1 .. Len(s) : t[n] = s[n]
  BY <1>0, <1>1, AppendEntries
<1>3. BytesOf(t) = BytesOf(s) + e.bytes.len
  BY <1>0, <1>1, BytesAppended
<1> HIDE DEF t
<1>4. CountExact(more, D) /\ more.entries = t
  <2>1. BytesOf(t) \in Nat /\ e.bytes.len \in Nat
    BY <1>0, <1>2, BytesType DEF Slice
  <2> QED  BY <1>1, <1>2, <1>3, <2>1 DEF CountExact
<1>5. PutRange(stored, e, maximum) = c
  BY DEF PutRange, t
<1> HIDE DEF more
<1>6. CountExact(c, D) /\ c.used <= maximum /\ Among(c.entries, t)
  BY <1>4, TrimKeeps
<1> HIDE DEF c
<1>7. ASSUME NEW i \in 1 .. Len(c.entries)
      PROVE  c.entries[i] = e \/ \E j \in 1 .. Len(s) : c.entries[i] = s[j]
  <2>1. PICK j \in 1 .. Len(t) : c.entries[i] = t[j]
    BY <1>6 DEF Among
  <2>2. j = Len(s) + 1 \/ j \in 1 .. Len(s)
    BY <1>2
  <2> QED  BY <1>2, <2>1, <2>2
<1>8. AtMostOneMore(c, stored, e)
  BY <1>7 DEF AtMostOneMore
<1> QED  BY <1>5, <1>6, <1>8

\* No entry of the documents stays, every other one does not change, and the
\* count is exact.
LEMMA RemoveKeeps ==
    ASSUME NEW D, NEW maximum \in Nat, NEW docs, NEW stored, CountExact(stored, D),
           stored.used <= maximum
    PROVE  LET c == RemoveDocs(stored, docs)
           IN  /\ CountExact(c, D) /\ c.used <= maximum
               /\ Len(c.entries) <= Len(stored.entries) /\ Among(c.entries, stored.entries)
               /\ \A i \in 1 .. Len(c.entries) : c.entries[i].doc \notin docs
<1> DEFINE s == stored.entries
           out == Those(s, docs)
           rest == Others(s, docs)
<1>1. s \in Entries(D) /\ stored.used = BytesOf(s)
  BY DEF CountExact
<1>2. out \in Entries(D)
  BY <1>1, ThoseAreSome
<1>3. /\ rest \in Entries(D) /\ Len(rest) <= Len(s) /\ Among(rest, s)
      /\ \A i \in 1 .. Len(rest) : rest[i].doc \notin docs
  <2> DEFINE others == DocsOf(s) \ docs
  <2>1. rest = Those(s, others)
    BY DEF Others
  <2>2. /\ Those(s, others) \in Entries(D) /\ Len(Those(s, others)) <= Len(s)
        /\ \A i \in 1 .. Len(Those(s, others)) :
              /\ Those(s, others)[i].doc \in others
              /\ \E j \in 1 .. Len(s) : Those(s, others)[i] = s[j]
    <3> HIDE DEF others
    <3> QED  BY <1>1, ThoseAreSome
  <2> HIDE DEF rest
  <2> QED  BY <2>1, <2>2 DEF Among
<1>4. BytesOf(s) = BytesOf(out) + BytesOf(rest)
  BY <1>1, BytesParted
<1>5. RemoveDocs(stored, docs) = [entries |-> rest, used |-> stored.used - BytesOf(out)]
  BY DEF RemoveDocs
<1> HIDE DEF out, rest
<1>6. BytesOf(out) \in Nat /\ BytesOf(rest) \in Nat
  BY <1>2, <1>3, BytesType
<1>7. stored.used - BytesOf(out) = BytesOf(rest) /\ BytesOf(rest) <= maximum
  BY <1>1, <1>4, <1>6
<1> QED  BY <1>3, <1>5, <1>6, <1>7 DEF CountExact

LEMMA SliceChanged ==
    ASSUME NEW b \in [rev : Nat, from : Nat, len : Nat], NEW x, NEW y
    PROVE  [b EXCEPT !.from = x, !.len = y] = [rev |-> b.rev, from |-> x, len |-> y]
<1> DEFINE c == [b EXCEPT !.from = x, !.len = y]
<1>1. c = [i \in {"rev", "from", "len"} |->
            IF i = "len" THEN y ELSE IF i = "from" THEN x ELSE b[i]]
  OBVIOUS
<1>2. c.rev = b.rev /\ c.from = x /\ c.len = y
  BY <1>1
<1> HIDE DEF c
<1>3. c = [rev |-> c.rev, from |-> c.from, len |-> c.len]
  BY <1>1
<1> QED  BY <1>2, <1>3

\* The first entry that holds a range serves it.
LEMMA ServedFrom ==
    ASSUME NEW D, NEW s \in Entries(D), NEW doc, NEW rev, NEW offset, NEW length,
           Holding(s, doc, rev, offset, length) # {}
    PROVE  \E i \in 1 .. Len(s) :
              /\ s[i].doc = doc /\ s[i].rev = rev
              /\ GetRange(s, doc, rev, offset, length)
                   = [rev  |-> s[i].bytes.rev,
                      from |-> s[i].bytes.from + (offset - s[i].offset),
                      len  |-> length]
<1> DEFINE H == Holding(s, doc, rev, offset, length)
           i == Min(H)
<1>1. DOMAIN s = 1 .. Len(s) /\ Len(s) \in Nat
  BY DEF Entries
<1>2. H \in SUBSET Nat /\ H \subseteq 1 .. Len(s) /\ H # {}
  BY <1>1 DEF Holding
<1>3. i \in H
  <2> HIDE DEF H
  <2> QED  BY <1>2, MinIsLeast
<1>4. i \in 1 .. Len(s) /\ s[i].doc = doc /\ s[i].rev = rev
  BY <1>2, <1>3 DEF Holding
<1>5. s[i].bytes \in [rev : Nat, from : Nat, len : Nat]
  BY <1>4, EntryType DEF Slice
<1>6. GetRange(s, doc, rev, offset, length)
        = [s[i].bytes EXCEPT !.from = @ + (offset - s[i].offset), !.len = length]
  BY DEF GetRange
<1>7. GetRange(s, doc, rev, offset, length)
        = [rev  |-> s[i].bytes.rev,
           from |-> s[i].bytes.from + (offset - s[i].offset),
           len  |-> length]
  BY <1>5, <1>6, SliceChanged
<1> QED  BY <1>4, <1>7

-----------------------------------------------------------------------------
(* The uploads and the cache of CloudTransfers. *)

UploadStage == {"check", "fast", "begin", "put", "end",
                "init", "auth", "part", "complete", "join", "finish"}

\* Where the upload stands.
WorkOK ==
    /\ "pc" \in DOMAIN work
    /\ work.pc \in {"idle", "read"} \cup UploadStage
    /\ work.pc \in UploadStage => work \in Upload

\* What has arrived is what its stage says has been sent.
ArrivedOK ==
    /\ work.pc \in {"begin", "put", "end"} => work.size = 1
    /\ work.pc \in {"check", "init", "auth"} => work.next = 1
    /\ work.pc \notin {"end", "part", "complete", "join", "finish"} => session = NoSession
    /\ work.pc = "end" => session = [parts |-> {1}, joined |-> FALSE]
    /\ work.pc = "part" => /\ work.next <= work.size + 1 /\ work.allowed <= work.size
                           /\ session = [parts |-> 1 .. work.next - 1, joined |-> FALSE]
    /\ work.pc \in {"complete", "join"} => session = [parts |-> 1 .. work.size, joined |-> FALSE]
    /\ work.pc = "finish" => session = [parts |-> 1 .. work.size, joined |-> TRUE]

Inductive == NothingHalf /\ WorkOK /\ ArrivedOK

-----------------------------------------------------------------------------

LEMMA InitInductive == Init => Inductive
BY TransferAssumption
DEF Init, Inductive, NothingHalf, WorkOK, ArrivedOK, Idle, UploadStage, File

\* Steps that leave the upload alone keep what is known of it.
LEMMA Elsewhere ==
    ASSUME WorkOK, ArrivedOK, UNCHANGED session,
           \/ UNCHANGED work
           \/ work.pc = "read" /\ "pc" \in DOMAIN work' /\ work'.pc \in {"idle", "read"}
    PROVE  WorkOK' /\ ArrivedOK'
BY DEF WorkOK, ArrivedOK, UploadStage

\* An upload that ends leaves nothing behind that is ever asked for.
LEMMA UploadLeaves ==
    ASSUME NEW result, Leaves(result)
    PROVE  WorkOK' /\ ArrivedOK'
BY DEF Leaves, Ends, Idle, WorkOK, ArrivedOK, UploadStage

\* A document appears whole, or none appears.
LEMMA LastRequestWhole ==
    ASSUME NEW pc, NEW all \in BOOLEAN, all, NothingHalf, LastRequest(pc, all)
    PROVE  Inductive'
<1>1. WorkOK' /\ ArrivedOK'
  BY UploadLeaves DEF LastRequest, Fails
<1>2. NothingHalf'
  BY DEF LastRequest, Appears, With, NothingHalf
<1> QED  BY <1>1, <1>2 DEF Inductive

\* A stage that follows keeps what is known of the upload.
LEMMA Moves ==
    ASSUME NEW w \in Upload, NEW pc \in UploadStage
    PROVE  LET next == [w EXCEPT !.pc = pc]
           IN  /\ next \in Upload /\ "pc" \in DOMAIN next
               /\ next.pc = pc /\ next.size = w.size /\ next.next = w.next
BY DEF Upload, UploadStage

\* What the drive authorises is noted, and nothing else changes.
LEMMA Authorised ==
    ASSUME NEW w \in Upload, NEW n \in 1 .. w.size
    PROVE  LET next == [w EXCEPT !.pc = "part", !.allowed = n]
           IN  /\ next \in Upload /\ "pc" \in DOMAIN next
               /\ next.pc = "part" /\ next.size = w.size /\ next.next = w.next
               /\ next.allowed = n
<1>1. n \in 0 .. MaxSize
  BY TransferAssumption DEF Upload
<1> QED  BY <1>1 DEF Upload

\* So is the part that was sent.
LEMMA Counted ==
    ASSUME NEW w \in Upload, w.next <= w.size
    PROVE  LET next == [w EXCEPT !.next = @ + 1]
           IN  /\ next \in Upload /\ "pc" \in DOMAIN next
               /\ next.pc = w.pc /\ next.size = w.size /\ next.allowed = w.allowed
               /\ next.next = w.next + 1 /\ next.next - 1 = w.next
<1>1. w.next + 1 \in 1 .. MaxSize + 1 /\ w.next \in Nat
  BY TransferAssumption DEF Upload
<1> QED  BY <1>1 DEF Upload

\* The session afterwards.
LEMMA PartArrives ==
    ASSUME NEW P, NEW n, NEW j, session = [parts |-> P, joined |-> j]
    PROVE  WithPart(n) = [parts |-> P \cup {n}, joined |-> j]
BY DEF WithPart

\* A download keeps the name of its stage while it notes what it wrote.
LEMMA StaysRead ==
    ASSUME NEW w, "pc" \in DOMAIN w, NEW x, NEW y, NEW z
    PROVE  LET next == [w EXCEPT !.offset = x, !.written = y, !.inOrder = z]
           IN  "pc" \in DOMAIN next /\ next.pc = w.pc
OBVIOUS

\* A request that is answered leads to the stage that follows, or fails.
LEMMA AsksInductive ==
    ASSUME Inductive, NEW pc \in UploadStage, NEW next \in UploadStage, Asks(pc, next),
           \/ /\ pc \in {"check", "init"} /\ next \in {"fast", "init", "auth"}
           \/ /\ pc \in {"check", "begin"} /\ next \in {"begin", "put"}
              /\ work.size = 1
           \/ pc = "complete" /\ next = "join"
    PROVE  Inductive'
<1>1. NothingHalf'
  BY DEF Asks, Inductive, NothingHalf
<1>2. CASE Fails
  BY <1>1, <1>2, UploadLeaves DEF Fails, Inductive
<1>3. CASE Goes(next) /\ UNCHANGED session
  <2>1. work \in Upload /\ work.pc = pc  BY DEF Asks, Inductive, WorkOK
  <2>2. work' \in Upload /\ "pc" \in DOMAIN work'
        /\ work'.pc = next /\ work'.size = work.size /\ work'.next = work.next
    BY <1>3, <2>1, Moves DEF Goes
  <2>3. WorkOK'  BY <2>2 DEF WorkOK
  <2>4. ArrivedOK'  BY <1>3, <2>1, <2>2 DEF Inductive, ArrivedOK
  <2> QED  BY <1>1, <2>3, <2>4 DEF Inductive
<1> QED  BY <1>2, <1>3 DEF Asks

\* A request that brings something to the drive leads on, or fails.
LEMMA StoresInductive ==
    ASSUME Inductive, NEW pc, NEW kept, NEW next, Stores(pc, kept, next),
           session' = kept /\ work' = next => WorkOK' /\ ArrivedOK'
    PROVE  Inductive'
<1>1. NothingHalf'
  BY DEF Stores, Inductive, NothingHalf
<1>2. CASE Fails
  BY <1>1, <1>2, UploadLeaves DEF Fails, Inductive
<1> QED  BY <1>1, <1>2 DEF Stores, Inductive

LEMMA UploadInductive == Inductive /\ UploadStep => Inductive'
<1> SUFFICES ASSUME Inductive, UploadStep PROVE Inductive'
  OBVIOUS
<1>0. work.pc \in UploadStage /\ work \in Upload
  <2>1. work.pc \in UploadStage
    BY DEF UploadStep, UploadStage, Check, Fast, Begin, Put, End, InitMulti, Authorise,
           PutPart, PartsSent, Complete, Join, Finish, Asks, Stores, LastRequest
  <2> QED  BY <2>1 DEF Inductive, WorkOK
<1>1. CASE Check \/ Begin \/ InitMulti \/ Complete
  BY <1>0, <1>1, AsksInductive
  DEF Check, Begin, InitMulti, Complete, UploadStage, Inductive, ArrivedOK, Asks
<1>2. CASE Fast
  BY <1>2, LastRequestWhole DEF Fast, Inductive
<1>3. CASE Put
  <2>1. work.pc = "put" /\ work.size = 1 /\ session = NoSession
    BY <1>3 DEF Put, Stores, Inductive, ArrivedOK
  <2>2. WithPart(1) = [parts |-> {1}, joined |-> FALSE]
    <3>1. WithPart(1) = [parts |-> {} \cup {1}, joined |-> FALSE]
      BY <2>1, PartArrives DEF NoSession
    <3>2. {} \cup {1} = {1}
      OBVIOUS
    <3> QED  BY <3>1, <3>2
  <2>3. ASSUME session' = WithPart(1), work' = [work EXCEPT !.pc = "end"]
        PROVE  WorkOK' /\ ArrivedOK'
    <3>1. work' \in Upload /\ "pc" \in DOMAIN work' /\ work'.pc = "end" /\ work'.size = 1
      BY <1>0, <2>1, <2>3, Moves DEF UploadStage
    <3> QED  BY <2>2, <2>3, <3>1 DEF WorkOK, ArrivedOK, UploadStage
  <2> QED  BY <1>3, <2>3, StoresInductive DEF Put
<1>4. CASE End
  <2>1. work.size = 1 /\ session = [parts |-> {1}, joined |-> FALSE]
    BY <1>4 DEF End, LastRequest, Inductive, ArrivedOK
  <2>2. 1 .. 1 = {1}
    OBVIOUS
  <2>3. Arrived
    BY <2>1, <2>2 DEF Arrived
  <2> QED  BY <1>4, <2>3, LastRequestWhole DEF End, Inductive, Arrived
<1>5. CASE Authorise
  <2>1. work.pc = "auth" /\ work.next = 1 /\ session = NoSession
    BY <1>5 DEF Authorise, Inductive, ArrivedOK
  <2>2. PICK n \in 1 .. work.size :
          Stores("auth", session, [work EXCEPT !.pc = "part", !.allowed = n])
    BY <1>5 DEF Authorise
  <2>3. ASSUME session' = session, work' = [work EXCEPT !.pc = "part", !.allowed = n]
        PROVE  WorkOK' /\ ArrivedOK'
    <3>1. /\ work' \in Upload /\ "pc" \in DOMAIN work' /\ work'.pc = "part"
          /\ work'.size = work.size /\ work'.next = 1 /\ work'.allowed <= work'.size
      <4>1. n <= work.size
        BY <1>0 DEF Upload
      <4> QED  BY <1>0, <2>1, <2>3, <4>1, Authorised
    <3>2. 1 .. 1 - 1 = {} /\ 1 <= work.size + 1
      BY <1>0, TransferAssumption DEF Upload
    <3> QED  BY <2>1, <2>3, <3>1, <3>2 DEF WorkOK, ArrivedOK, UploadStage, NoSession
  <2> QED  BY <2>2, <2>3, StoresInductive
<1>6. CASE PutPart
  <2>1. /\ work.pc = "part" /\ work.next <= work.allowed /\ work.allowed <= work.size
        /\ session = [parts |-> 1 .. work.next - 1, joined |-> FALSE]
    BY <1>6 DEF PutPart, Inductive, ArrivedOK
  <2>2. ASSUME session' = WithPart(work.next), work' = [work EXCEPT !.next = @ + 1]
        PROVE  WorkOK' /\ ArrivedOK'
    <3>1. work.next \in Nat \ {0} /\ work.size \in Nat /\ work.allowed \in Nat
      BY <1>0, TransferAssumption DEF Upload
    <3>2. work.next <= work.size
      BY <2>1, <3>1
    <3>3. /\ work' \in Upload /\ "pc" \in DOMAIN work' /\ work'.pc = "part"
          /\ work'.size = work.size /\ work'.allowed <= work'.size
          /\ work'.next <= work'.size + 1 /\ work'.next - 1 = work.next
      BY <1>0, <2>1, <2>2, <3>1, <3>2, Counted
    <3>4. (1 .. work.next - 1) \cup {work.next} = 1 .. work.next
      BY <3>1
    <3>5. session' = [parts |-> 1 .. work'.next - 1, joined |-> FALSE]
      <4>1. session' = [parts |-> (1 .. work.next - 1) \cup {work.next}, joined |-> FALSE]
        BY <2>1, <2>2, PartArrives
      <4> QED  BY <3>3, <3>4, <4>1
    <3>6. WorkOK'  BY <3>3 DEF WorkOK, UploadStage
    <3> QED  BY <3>3, <3>5, <3>6 DEF ArrivedOK
  <2> QED  BY <1>6, <2>2, StoresInductive DEF PutPart
<1>7. CASE PartsSent
  <2>1. NothingHalf'  BY <1>7 DEF PartsSent, Inductive, NothingHalf
  <2>2. CASE Fails
    BY <2>1, <2>2, UploadLeaves DEF Fails, Inductive
  <2>3. CASE ~Remains /\ Goes("complete") /\ UNCHANGED session
    <3>1. work.next \in Nat /\ work.size \in Nat
      BY <1>0, TransferAssumption DEF Upload
    <3>2. /\ work.pc = "part" /\ work.next <= work.size + 1
          /\ session = [parts |-> 1 .. work.next - 1, joined |-> FALSE]
      BY <1>7 DEF PartsSent, Inductive, ArrivedOK
    <3>3. work.next - 1 = work.size
      BY <2>3, <3>1, <3>2 DEF Remains
    <3>4. /\ work' \in Upload /\ "pc" \in DOMAIN work'
          /\ work'.pc = "complete" /\ work'.size = work.size
      BY <1>0, <2>3, Moves DEF Goes, UploadStage
    <3> QED  BY <2>1, <2>3, <3>2, <3>3, <3>4 DEF Inductive, WorkOK, ArrivedOK, UploadStage
  <2> QED  BY <1>7, <2>2, <2>3 DEF PartsSent
<1>8. CASE Join
  <2>1. work.pc = "join" /\ session = [parts |-> 1 .. work.size, joined |-> FALSE]
    BY <1>8 DEF Join, Stores, Inductive, ArrivedOK
  <2>2. ASSUME session' = [session EXCEPT !.joined = TRUE],
               work' = [work EXCEPT !.pc = "finish"]
        PROVE  WorkOK' /\ ArrivedOK'
    <3>1. session' = [parts |-> 1 .. work.size, joined |-> TRUE]
      BY <2>1, <2>2
    <3>2. /\ work' \in Upload /\ "pc" \in DOMAIN work'
          /\ work'.pc = "finish" /\ work'.size = work.size
      BY <1>0, <2>2, Moves DEF UploadStage
    <3> QED  BY <3>1, <3>2 DEF WorkOK, ArrivedOK, UploadStage
  <2> QED  BY <1>8, <2>2, StoresInductive DEF Join
<1>9. CASE Finish
  <2>1. session = [parts |-> 1 .. work.size, joined |-> TRUE]
    BY <1>9 DEF Finish, LastRequest, Inductive, ArrivedOK
  <2> QED  BY <1>9, <2>1, LastRequestWhole DEF Finish, Inductive, Arrived
<1> QED
  BY <1>1, <1>2, <1>3, <1>4, <1>5, <1>6, <1>7, <1>8, <1>9 DEF UploadStep

-----------------------------------------------------------------------------

LEMMA NextInductive == Inductive /\ [Next]_vars => Inductive'
<1> SUFFICES ASSUME Inductive, [Next]_vars PROVE Inductive'
  OBVIOUS
<1> USE DEF Inductive
<1>1. CASE UNCHANGED vars
  BY <1>1, Elsewhere DEF vars, external, NothingHalf
<1>2. ASSUME NEW d \in Doc, NEW size \in 0 .. MaxSize, OtherWrites(d, size)
      PROVE  Inductive'
  <2>1. NothingHalf'  BY <1>2 DEF OtherWrites, NothingHalf
  <2> QED  BY <1>2, <2>1, Elsewhere DEF OtherWrites
<1>3. ASSUME NEW d \in Doc, OtherDeletes(d) \/ RemoveFile(d) PROVE Inductive'
  <2>1. NothingHalf'  BY <1>3 DEF OtherDeletes, RemoveFile, Less, NothingHalf
  <2> QED  BY <1>3, <2>1, Elsewhere DEF OtherDeletes, RemoveFile
<1>4. CASE List \/ LoadRoot \/ ClearContentCache
  <2>1. UNCHANGED <<drive, session, work>>
    BY <1>4 DEF List, LoadRoot, ClearContentCache, external
  <2> QED  BY <2>1, Elsewhere DEF NothingHalf
<1>5. ASSUME NEW d \in Doc, NEW offset \in 0 .. MaxSize - 1, NEW length \in 1 .. MaxSize,
             MountReads(d, offset, length)
      PROVE  Inductive'
  <2>1. UNCHANGED <<drive, session, work>>  BY <1>5 DEF MountReads, external
  <2> QED  BY <2>1, Elsewhere DEF NothingHalf
<1>6. ASSUME NEW d \in Doc, DownloadStarts(d) PROVE Inductive'
  BY <1>6 DEF DownloadStarts, external, Idle, NothingHalf, WorkOK, ArrivedOK, UploadStage
<1>7. CASE DownloadStep
  <2>1. UNCHANGED <<drive, session>> /\ work.pc = "read"
    BY <1>7 DEF DownloadStep, ReadsNothing, ReadsChunk, DownloadFails, DownloadDone,
                Reading, external
  <2>2. "pc" \in DOMAIN work' /\ work'.pc \in {"idle", "read"}
    <3>1. ASSUME NEW bytes, NEW length, NEW undisturbed, AfterChunk(bytes, length, undisturbed)
          PROVE  "pc" \in DOMAIN work' /\ work'.pc \in {"idle", "read"}
      <4>1. CASE Writes(bytes, length)
        BY <2>1, <4>1, StaysRead DEF Writes, WorkOK
      <4>2. CASE Completes
        BY <4>2 DEF Completes, Ends, Idle
      <4> QED  BY <3>1, <4>1, <4>2 DEF AfterChunk
    <3>2. CASE ReadsNothing  BY <3>1, <3>2 DEF ReadsNothing
    <3>3. CASE ReadsChunk    BY <3>1, <3>3 DEF ReadsChunk
    <3>4. CASE DownloadFails \/ DownloadDone
      BY <3>4 DEF DownloadFails, DownloadDone, Completes, Ends, Idle
    <3> QED  BY <1>7, <3>2, <3>3, <3>4 DEF DownloadStep
  <2> QED  BY <2>1, <2>2, Elsewhere DEF NothingHalf
<1>8. ASSUME NEW d \in Doc, NEW size \in 1 .. MaxSize, UploadStarts(d, size) PROVE Inductive'
  <2>1. UNCHANGED <<drive, session>> /\ session = NoSession
    BY <1>8 DEF UploadStarts, external, Idle, ArrivedOK
  <2>2. PICK first \in {"check", IF size = 1 THEN "begin" ELSE "init"} :
          work' = [pc |-> first, doc |-> d, size |-> size, allowed |-> 0, next |-> 1]
    BY <1>8 DEF UploadStarts
  <2>3. work' \in Upload
    BY <2>2, TransferAssumption DEF Upload
  <2>4. WorkOK'  BY <2>2, <2>3 DEF WorkOK, UploadStage
  <2>5. ArrivedOK'  BY <2>1, <2>2 DEF ArrivedOK
  <2> QED  BY <2>1, <2>4, <2>5 DEF NothingHalf
<1>9. CASE UploadStep
  BY <1>9, UploadInductive
<1> QED
  BY <1>1, <1>2, <1>3, <1>4, <1>5, <1>6, <1>7, <1>8, <1>9 DEF Next

\* No document of a missing or unjoined part appears on the drive, whatever the
\* number of parts, of those authorised, and the request that fails.
THEOREM NeverHalf == Spec => []NothingHalf
<1>1. Inductive => NothingHalf
  BY DEF Inductive
<1> QED
  BY InitInductive, NextInductive, <1>1, PTL DEF Spec

-----------------------------------------------------------------------------
(* The cache, the listing and the download. *)

\* An entry belongs to a listed file, or to one a reload of the root has left,
\* and begins inside the revision it is kept under; unless the file is tainted it
\* is what the drive held there in that revision.
Sound(e) ==
    /\ e.rev \in 1 .. MaxRev /\ e.offset \in 0 .. MaxSize
    /\ e.doc \in DOMAIN node \cup stray
    /\ e.doc \in DOMAIN node /\ e.rev = node[e.doc].rev => e.offset < node[e.doc].size
    /\ e.doc \notin tainted => e.bytes.from = e.offset /\ e.bytes.rev = e.rev

\* It was listed, so it lies inside the file as long as that has the revision:
\* the next listing may name it again.
Fits(e) ==
    /\ e.doc \in DOMAIN drive \cup gone
    /\ e.doc \in DOMAIN drive =>
        /\ e.rev <= drive[e.doc].rev
        /\ e.rev = drive[e.doc].rev => e.offset < drive[e.doc].size

Placed == \A i \in 1 .. Len(cache.entries) : Fits(cache.entries[i])

CacheKept ==
    /\ CountExact(cache, Doc) /\ cache.used <= MaxBytes
    /\ Len(cache.entries) <= MaxEntries
    /\ \A i \in 1 .. Len(cache.entries) : Sound(cache.entries[i])

\* What is listed was there once, and what is listed under the revision the
\* drive has is listed as it is.
NodesOK ==
    /\ Partial(node, Doc, [rev : 1 .. MaxRev, size : 0 .. MaxSize])
    /\ DOMAIN node \subseteq DOMAIN drive \cup gone
    /\ \A d \in DOMAIN node \cap DOMAIN drive :
        /\ node[d].rev <= drive[d].rev
        /\ node[d].rev = drive[d].rev => node[d].size = drive[d].size

DriveOK ==
    /\ Partial(drive, Doc, File) /\ gone \subseteq Doc \ DOMAIN drive
    /\ work.pc \in UploadStage => work.doc \notin DOMAIN drive \cup gone
    /\ tainted \subseteq Doc /\ stray \subseteq Doc
    /\ report \in {"none", "failed", "downloaded", "uploaded"}
    /\ quiet \in BOOLEAN
    /\ work.pc = "idle" => work = Idle

\* Where an undisturbed download stands.
Undisturbed ==
    /\ work.doc \in DOMAIN drive \ tainted
    /\ drive[work.doc].rev = work.rev /\ drive[work.doc].size = work.size
    /\ work.inOrder
    /\ work.doc \in DOMAIN node => node[work.doc].rev = work.rev /\ node[work.doc].size = work.size

CopyOK ==
    work.pc = "read" =>
        /\ work \in Download /\ work.written = work.offset /\ work.offset <= work.size
        /\ quiet => Undisturbed

Kept == CacheKept /\ Placed /\ NodesOK /\ DriveOK /\ CopyOK

Coherent == Inductive /\ Kept

LEMMA InitCoherent == Init => Coherent
<1> SUFFICES ASSUME Init PROVE Coherent
  OBVIOUS
<1>1. Inductive
  BY InitInductive
<1>2. CacheKept /\ Placed
  <2>1. <<>> \in Entries(Doc) /\ Len(<<>>) = 0
    BY DEF Entries
  <2>2. CountExact(EmptyCache, Doc) /\ EmptyCache.used = 0 /\ EmptyCache.entries = <<>>
    BY <2>1, BytesEmpty DEF CountExact, EmptyCache
  <2>3. cache = EmptyCache
    BY DEF Init
  <2> QED  BY <2>1, <2>2, <2>3, TransferAssumption DEF CacheKept, Placed
<1>3. PICK D \in SUBSET Doc : drive \in [D -> {f \in File : f.rev = 1 /\ f.whole}]
  BY DEF Init
<1>4. Partial(drive, Doc, File)
  BY <1>3 DEF Partial
<1>5. Partial(node, Doc, [rev : 1 .. MaxRev, size : 0 .. MaxSize]) /\ DOMAIN node = {}
  BY DEF Init, Nothing, Partial
<1>6. NodesOK
  BY <1>5 DEF NodesOK
<1>7. DriveOK
  BY <1>4 DEF DriveOK, Init, Idle, UploadStage
<1>8. CopyOK
  BY DEF CopyOK, Init, Idle
<1> QED  BY <1>1, <1>2, <1>6, <1>7, <1>8 DEF Coherent, Kept

LEMMA CoherentIsSound == Coherent => CacheSound /\ NothingHalf
<1> SUFFICES ASSUME Coherent PROVE CacheSound /\ NothingHalf
  OBVIOUS
<1> USE DEF Coherent, Kept
<1>1. CountIsExact
  BY DEF CacheKept, CountExact, CountIsExact
<1>2. Len(cache.entries) <= MaxEntries
  BY DEF CacheKept
<1>3. ASSUME NEW e \in Range(cache.entries)
      PROVE  /\ e.doc \in Doc /\ e.rev \in 1 .. MaxRev
             /\ e.offset \in 0 .. MaxSize /\ e.bytes \in Slice
             /\ e.doc \in DOMAIN node \cup stray
             /\ e.doc \in DOMAIN node /\ e.rev = node[e.doc].rev => e.offset < node[e.doc].size
  <2> DEFINE s == cache.entries
  <2>1. s \in Entries(Doc) /\ DOMAIN s = 1 .. Len(s)
    BY DEF CacheKept, CountExact, Entries
  <2>2. PICK i \in 1 .. Len(s) : e = s[i]
    BY <1>3, <2>1 DEF Range
  <2>3. e.doc \in Doc /\ e.bytes \in Slice
    BY <2>1, <2>2, EntryType
  <2> QED  BY <2>2, <2>3 DEF CacheKept, Sound
<1>4. session \in Session
  <2>1. CASE session = NoSession
    BY <2>1 DEF NoSession, Session
  <2>2. CASE work.pc \in UploadStage
    <3>1. work \in Upload
      BY <2>2 DEF Inductive, WorkOK
    <3>2. work.size \in 1 .. MaxSize /\ work.next \in 1 .. MaxSize + 1
      BY <3>1 DEF Upload
    <3>3. /\ 1 .. work.size \subseteq 1 .. MaxSize /\ {1} \subseteq 1 .. MaxSize
          /\ 1 .. work.next - 1 \subseteq 1 .. MaxSize
      BY <3>2, TransferAssumption
    <3>4. \E P \in SUBSET (1 .. MaxSize), j \in BOOLEAN : session = [parts |-> P, joined |-> j]
      <4>1. CASE work.pc \in {"complete", "join", "finish"}
        BY <3>3, <4>1 DEF Inductive, ArrivedOK
      <4>2. CASE work.pc = "part"
        BY <3>3, <4>2 DEF Inductive, ArrivedOK
      <4>3. CASE work.pc = "end"
        BY <3>3, <4>3 DEF Inductive, ArrivedOK
      <4>4. CASE work.pc \notin {"end", "part", "complete", "join", "finish"}
        BY <4>4 DEF Inductive, ArrivedOK, NoSession
      <4> QED  BY <4>1, <4>2, <4>3, <4>4
    <3> QED  BY <3>4 DEF Session
  <2> QED  BY <2>1, <2>2 DEF Inductive, WorkOK, ArrivedOK, UploadStage
<1>5. work \in {Idle} \cup Download \cup Upload
  BY DEF Inductive, WorkOK, DriveOK, CopyOK
<1>6. TypeOK
  BY <1>2, <1>3, <1>4, <1>5 DEF TypeOK, DriveOK, NodesOK
<1>7. KeptAreListed
  BY <1>3 DEF KeptAreListed
<1> QED  BY <1>1, <1>6, <1>7 DEF CacheSound, Inductive

LEMMA CoherentServes == Coherent => ServedAsListed
<1> SUFFICES ASSUME Coherent,
                    NEW d \in DOMAIN node \ tainted, NEW offset \in 0 .. MaxSize - 1,
                    NEW length \in 1 .. MaxSize,
                    Holding(cache.entries, d, node[d].rev, offset, length) # {}
             PROVE  GetRange(cache.entries, d, node[d].rev, offset, length)
                      = [rev |-> node[d].rev, from |-> offset, len |-> length]
  BY DEF ServedAsListed
<1> DEFINE s == cache.entries
<1>1. s \in Entries(Doc)
  BY DEF Coherent, Kept, CacheKept, CountExact
<1>2. PICK i \in 1 .. Len(s) :
        /\ s[i].doc = d /\ s[i].rev = node[d].rev
        /\ GetRange(s, d, node[d].rev, offset, length)
             = [rev  |-> s[i].bytes.rev, from |-> s[i].bytes.from + (offset - s[i].offset),
                len  |-> length]
  BY <1>1, ServedFrom
<1> DEFINE e == s[i]
<1>3. e \in [doc : Doc, rev : Nat, offset : Nat, bytes : Slice]
  BY <1>1, EntryType
<1>4. e.bytes.from = e.offset /\ e.bytes.rev = e.rev
  BY <1>2 DEF Coherent, Kept, CacheKept, Sound
<1> HIDE DEF e, s
<1>5. e.offset + (offset - e.offset) = offset
  BY <1>3, TransferAssumption
<1>6. e.bytes \in [rev : Nat, from : Nat, len : Nat]
  BY <1>3 DEF Slice
<1>7. e.doc = d /\ e.rev = node[d].rev
  BY <1>2 DEF e
<1>8. GetRange(s, d, node[d].rev, offset, length)
        = [rev |-> e.bytes.rev, from |-> e.bytes.from + (offset - e.offset), len |-> length]
  BY <1>2 DEF e
<1> QED  BY <1>4, <1>5, <1>7, <1>8 DEF s

\* The types of a file of the drive, of a node and of the download.
LEMMA FileType ==
    ASSUME DriveOK, NEW d \in DOMAIN drive
    PROVE  d \in Doc /\ drive[d] \in File /\ drive[d].rev \in Nat /\ drive[d].size \in Nat
BY TransferAssumption DEF DriveOK, Partial, File

LEMMA NodeType ==
    ASSUME NodesOK, NEW d \in DOMAIN node
    PROVE  /\ d \in Doc /\ node[d] \in [rev : 1 .. MaxRev, size : 0 .. MaxSize]
           /\ node[d].rev \in Nat /\ node[d].size \in Nat
BY TransferAssumption DEF NodesOK, Partial

LEMMA CopyType ==
    ASSUME CopyOK, work.pc = "read"
    PROVE  /\ work \in Download /\ "pc" \in DOMAIN work
           /\ work.size \in Nat /\ work.offset \in Nat /\ work.written \in Nat
           /\ work.size <= MaxSize /\ work.inOrder \in BOOLEAN
BY TransferAssumption DEF CopyOK, Download

LEMMA LesserOf ==
    ASSUME NEW a \in Int, NEW b \in Int
    PROVE  Min({a, b}) = IF a <= b THEN a ELSE b
BY DEF Min

\* The entries stay inside their files while no revision is used twice.
LEMMA PlacedStays ==
    ASSUME Placed, CacheKept, DriveOK, Partial(drive', Doc, File),
           Among(cache'.entries, cache.entries),
           DOMAIN drive \cup gone \subseteq DOMAIN drive' \cup gone',
           \A d \in DOMAIN drive' :
              \/ d \notin DOMAIN drive \cup gone
              \/ d \in DOMAIN drive /\ (drive'[d] = drive[d] \/ drive[d].rev < drive'[d].rev)
    PROVE  Placed'
<1>1. ASSUME NEW i \in 1 .. Len(cache'.entries)
      PROVE  LET x == cache'.entries[i]
             IN  /\ x.doc \in DOMAIN drive' \cup gone'
                 /\ x.doc \in DOMAIN drive' =>
                      /\ x.rev <= drive'[x.doc].rev
                      /\ x.rev = drive'[x.doc].rev => x.offset < drive'[x.doc].size
  <2>1. PICK j \in 1 .. Len(cache.entries) : cache'.entries[i] = cache.entries[j]
    BY DEF Among
  <2> DEFINE e == cache.entries[j]
  <2>2. Fits(e) /\ e.rev \in Nat
    <3>1. Sound(e) /\ Fits(e)
      BY DEF Placed, CacheKept
    <3> QED  BY <3>1, TransferAssumption DEF Sound
  <2> HIDE DEF e
  <2>3. e.doc \in DOMAIN drive \cup gone
    BY <2>2 DEF Fits
  <2>4. ASSUME e.doc \in DOMAIN drive'
        PROVE  /\ e.rev <= drive'[e.doc].rev
               /\ e.rev = drive'[e.doc].rev => e.offset < drive'[e.doc].size
    <3>1. e.doc \in DOMAIN drive
      BY <2>3, <2>4
    <3>2. drive[e.doc].rev \in Nat /\ drive'[e.doc].rev \in Nat
      BY <2>4, <3>1, TransferAssumption DEF DriveOK, Partial, File
    <3>3. e.rev <= drive[e.doc].rev /\ (e.rev = drive[e.doc].rev => e.offset < drive[e.doc].size)
      BY <2>2, <3>1 DEF Fits
    <3>4. CASE drive'[e.doc] = drive[e.doc]
      BY <3>3, <3>4
    <3>5. CASE drive[e.doc].rev < drive'[e.doc].rev
      BY <2>2, <3>2, <3>3, <3>5
    <3> QED  BY <2>3, <2>4, <3>1, <3>4, <3>5
  <2> QED  BY <2>1, <2>3, <2>4 DEF e
<1> QED  BY <1>1 DEF Placed, Fits

\* What is left of the cache when the entries of some documents go is sound when
\* the other nodes stay, or come from the drive.
LEMMA KeptAfterRemoval ==
    ASSUME CacheKept, Placed, NEW docs, Drops(docs), DOMAIN node \ docs \subseteq DOMAIN node',
           \A d \in DOMAIN node' \ docs :
              \/ d \in DOMAIN node /\ node'[d] = node[d]
              \/ d \in DOMAIN drive /\ node'[d] = [rev |-> drive[d].rev, size |-> drive[d].size]
    PROVE  CacheKept' /\ Among(cache'.entries, cache.entries)
<1> DEFINE c == RemoveDocs(cache, docs)
<1>0. cache' = c /\ tainted' = tainted \ docs /\ stray' = stray \ docs
  BY DEF Drops
<1>1. /\ CountExact(c, Doc) /\ c.used <= MaxBytes
      /\ Len(c.entries) <= Len(cache.entries) /\ Among(c.entries, cache.entries)
      /\ \A i \in 1 .. Len(c.entries) : c.entries[i].doc \notin docs
  BY RemoveKeeps, TransferAssumption DEF CacheKept
<1> HIDE DEF c
<1>2. Len(c.entries) <= MaxEntries
  <2>1. Len(c.entries) \in Nat /\ Len(cache.entries) \in Nat
    BY <1>1 DEF CacheKept, CountExact, Entries
  <2> QED  BY <1>1, <2>1, TransferAssumption DEF CacheKept
<1>3. ASSUME NEW i \in 1 .. Len(c.entries)
      PROVE  LET x == c.entries[i]
             IN  /\ x.rev \in 1 .. MaxRev /\ x.offset \in 0 .. MaxSize
                 /\ x.doc \in DOMAIN node' \cup stray'
                 /\ x.doc \in DOMAIN node' /\ x.rev = node'[x.doc].rev
                      => x.offset < node'[x.doc].size
                 /\ x.doc \notin tainted' => x.bytes.from = x.offset /\ x.bytes.rev = x.rev
  <2>1. PICK j \in 1 .. Len(cache.entries) : c.entries[i] = cache.entries[j]
    BY <1>1 DEF Among
  <2> DEFINE e == c.entries[i]
  <2>2. Sound(e) /\ Fits(e)
    BY <2>1 DEF CacheKept, Placed
  <2>3. e.doc \notin docs
    BY <1>1
  <2> HIDE DEF e
  <2>4. e.doc \in DOMAIN node' \cup stray'
    BY <1>0, <2>2, <2>3 DEF Sound
  <2>5. ASSUME e.doc \in DOMAIN node', e.rev = node'[e.doc].rev
        PROVE  e.offset < node'[e.doc].size
    <3>1. CASE e.doc \in DOMAIN node /\ node'[e.doc] = node[e.doc]
      BY <2>2, <2>5, <3>1 DEF Sound
    <3>2. CASE /\ e.doc \in DOMAIN drive
               /\ node'[e.doc] = [rev |-> drive[e.doc].rev, size |-> drive[e.doc].size]
      BY <2>2, <2>5, <3>2 DEF Fits
    <3> QED  BY <2>3, <2>5, <3>1, <3>2
  <2>6. /\ e.rev \in 1 .. MaxRev /\ e.offset \in 0 .. MaxSize
        /\ e.doc \notin tainted' => e.bytes.from = e.offset /\ e.bytes.rev = e.rev
    BY <1>0, <2>2, <2>3 DEF Sound
  <2> QED  BY <2>4, <2>5, <2>6 DEF e
<1> QED  BY <1>0, <1>1, <1>2, <1>3 DEF CacheKept, Sound

\* So is the cache when bytes come for a listed range.
LEMMA KeptAfterRead ==
    ASSUME CacheKept, Placed, NodesOK, NEW d \in DOMAIN node, NEW offset \in Nat,
           offset < node[d].size, NEW bytes \in Slice,
           Keeps(d, offset, bytes), UNCHANGED <<drive, gone, node, stray>>, tainted \subseteq Doc
    PROVE  /\ CacheKept' /\ Placed' /\ tainted' \subseteq Doc
           /\ tainted' = IF bytes.rev = node[d].rev /\ bytes.from = offset
                         THEN tainted ELSE tainted \cup {d}
<1> DEFINE e == Entry(d, node[d].rev, offset, bytes)
           c == PutRange(cache, e, MaxBytes)
<1>1. /\ e \in [doc : Doc, rev : Nat, offset : Nat, bytes : Slice]
      /\ e.doc = d /\ e.rev = node[d].rev /\ e.offset = offset /\ e.bytes = bytes
      /\ e.rev \in 1 .. MaxRev /\ e.offset \in 0 .. MaxSize
  <2>1. /\ node[d].rev \in 1 .. MaxRev /\ node[d].rev \in Nat
        /\ node[d].size \in 0 .. MaxSize /\ d \in Doc
    BY NodeType
  <2> QED  BY <2>1, TransferAssumption DEF Entry
<1>2. /\ cache' = c /\ Len(cache'.entries) <= MaxEntries
      /\ tainted' = IF bytes.rev = node[d].rev /\ bytes.from = offset
                    THEN tainted ELSE tainted \cup {d}
  BY DEF Keeps
<1> HIDE DEF e
<1>3. /\ CountExact(c, Doc) /\ c.used <= MaxBytes
      /\ \A i \in 1 .. Len(c.entries) :
            \/ c.entries[i] = e
            \/ \E j \in 1 .. Len(cache.entries) : c.entries[i] = cache.entries[j]
  <2>1. MaxBytes \in Nat /\ CountExact(cache, Doc)
    BY TransferAssumption DEF CacheKept
  <2>2. IsEntry(e, Doc)
    BY <1>1 DEF IsEntry
  <2> HIDE DEF c
  <2>3. c = PutRange(cache, e, MaxBytes)
    BY DEF c
  <2>4. CountExact(c, Doc) /\ c.used <= MaxBytes /\ AtMostOneMore(c, cache, e)
    BY <2>1, <2>2, <2>3, PutKeeps
  <2> QED  BY <2>4 DEF AtMostOneMore
<1> HIDE DEF c
<1>4. ASSUME NEW i \in 1 .. Len(c.entries)
      PROVE  LET x == c.entries[i]
             IN  /\ x.rev \in 1 .. MaxRev /\ x.offset \in 0 .. MaxSize
                 /\ x.doc \in DOMAIN node \cup stray
                 /\ x.doc \in DOMAIN node /\ x.rev = node[x.doc].rev
                      => x.offset < node[x.doc].size
                 /\ x.doc \notin tainted' => x.bytes.from = x.offset /\ x.bytes.rev = x.rev
                 /\ Fits(x)
  <2>1. CASE c.entries[i] = e
    <3>1. Fits(e)
      BY <1>1 DEF Fits, NodesOK
    <3> QED  BY <1>1, <1>2, <2>1, <3>1
  <2>2. CASE \E j \in 1 .. Len(cache.entries) : c.entries[i] = cache.entries[j]
    <3>1. Sound(c.entries[i]) /\ Fits(c.entries[i])
      BY <2>2 DEF CacheKept, Placed
    <3> QED  BY <1>2, <3>1 DEF Sound
  <2> QED  BY <1>3, <2>1, <2>2
<1>5. CacheKept'
  BY <1>2, <1>3, <1>4 DEF CacheKept, Sound
<1>6. Placed'
  BY <1>2, <1>4 DEF Placed, Fits
<1> QED  BY <1>2, <1>5, <1>6, NodeType

\* What the drive sends for a range.
LEMMA Sent ==
    ASSUME DriveOK, NEW d, NEW offset \in Nat, NEW length \in Nat \ {0},
           NEW bytes \in Sends(d, offset, length)
    PROVE  /\ d \in DOMAIN drive /\ bytes \in Slice
           /\ bytes.rev = drive[d].rev /\ bytes.len <= length
           /\ bytes.len = 0 => drive[d].size = 0
<1>1. d \in DOMAIN drive
  BY DEF Sends
<1>2. drive[d].rev \in Nat /\ drive[d].size \in Nat
  BY <1>1, FileType
<1> DEFINE size == drive[d].size
<1>3. CASE \E n \in 1 .. Min({length, size - offset}) :
             bytes = [rev |-> drive[d].rev, from |-> offset, len |-> n]
  <2>1. PICK n \in 1 .. Min({length, size - offset}) :
          bytes = [rev |-> drive[d].rev, from |-> offset, len |-> n]
    BY <1>3
  <2>2. Min({length, size - offset}) \in Int /\ Min({length, size - offset}) <= length
    BY <1>2, LesserOf
  <2>3. n \in Nat \ {0} /\ n <= length
    BY <2>1, <2>2
  <2> QED  BY <1>1, <1>2, <2>1, <2>3 DEF Slice
<1>4. CASE bytes = [rev |-> drive[d].rev, from |-> 0, len |-> Min({length, size})]
  <2>1. Min({length, size}) = IF length <= size THEN length ELSE size
    BY <1>2, LesserOf
  <2> QED  BY <1>1, <1>2, <1>4, <2>1 DEF Slice
<1> QED  BY <1>1, <1>3, <1>4 DEF Sends

-----------------------------------------------------------------------------
(* The steps. *)

LEMMA CacheStays ==
    ASSUME CacheKept, UNCHANGED <<node, cache, contents>>
    PROVE  CacheKept' /\ Among(cache'.entries, cache.entries)
BY DEF CacheKept, Sound, contents, Among

\* A node stays what it was when only other files change.
LEMMA NodesStay ==
    ASSUME NodesOK, UNCHANGED node, DOMAIN drive \cup gone \subseteq DOMAIN drive' \cup gone',
           \A d \in DOMAIN node \cap DOMAIN drive' : d \in DOMAIN drive /\ drive'[d] = drive[d]
    PROVE  NodesOK'
BY DEF NodesOK

LEMMA WriteKeeps ==
    ASSUME Coherent, NEW d \in Doc, NEW size \in 0 .. MaxSize, OtherWrites(d, size)
    PROVE  Kept'
<1> USE DEF Coherent, Kept
<1> DEFINE f == [rev |-> drive[d].rev + 1, size |-> size, whole |-> TRUE]
<1>1. /\ d \in DOMAIN drive /\ drive[d].rev < MaxRev
      /\ drive' = [drive EXCEPT ![d] = f]
      /\ UNCHANGED <<gone, node, cache, work, report, contents>>
      /\ quiet' = (quiet /\ ~(work.pc = "read" /\ work.doc = d))
  BY DEF OtherWrites, vfs, Disturb
<1>2. drive[d].rev \in Nat /\ f \in File /\ f.rev = drive[d].rev + 1
  BY <1>1, FileType, TransferAssumption DEF File
<1> HIDE DEF f
<1>3. /\ DOMAIN drive' = DOMAIN drive /\ drive'[d] = f
      /\ \A x \in DOMAIN drive \ {d} : drive'[x] = drive[x]
  BY <1>1
<1>4. CacheKept' /\ Placed'
  <2>1. CacheKept' /\ Among(cache'.entries, cache.entries)
    BY <1>1, CacheStays
  <2>2. Partial(drive', Doc, File) /\ drive[d].rev < drive'[d].rev
    BY <1>2, <1>3 DEF DriveOK, Partial
  <2> QED  BY <1>1, <1>3, <2>1, <2>2, PlacedStays
<1>5. NodesOK'
  <2>1. ASSUME d \in DOMAIN node PROVE node[d].rev < f.rev /\ node[d].rev \in Nat
    <3>1. node[d].rev \in Nat /\ node[d].rev <= drive[d].rev
      BY <1>1, <2>1, NodeType DEF NodesOK
    <3> QED  BY <1>2, <3>1
  <2>2. ASSUME NEW x \in DOMAIN node \cap DOMAIN drive'
        PROVE  /\ node[x].rev <= drive'[x].rev
               /\ node[x].rev = drive'[x].rev => node[x].size = drive'[x].size
    <3>1. CASE x = d
      BY <1>2, <1>3, <2>1, <2>2, <3>1
    <3>2. CASE x # d
      BY <1>3, <2>2, <3>2 DEF NodesOK
    <3> QED  BY <3>1, <3>2
  <2> QED  BY <1>1, <1>3, <2>2 DEF NodesOK
<1>6. DriveOK'
  <2>1. Partial(drive', Doc, File)
    BY <1>2, <1>3 DEF DriveOK, Partial
  <2> QED  BY <1>1, <1>3, <2>1 DEF DriveOK, contents
<1>7. CopyOK'
  BY <1>1, <1>3 DEF CopyOK, Undisturbed, DriveOK, contents
<1> QED  BY <1>4, <1>5, <1>6, <1>7

LEMMA DeleteKeeps ==
    ASSUME Coherent, NEW d \in Doc, OtherDeletes(d)
    PROVE  Kept'
<1> USE DEF Coherent, Kept
<1>1. /\ d \in DOMAIN drive /\ drive' = Less(drive, {d}) /\ gone' = gone \cup {d}
      /\ UNCHANGED <<node, cache, work, report, contents>>
      /\ quiet' = (quiet /\ ~(work.pc = "read" /\ work.doc = d))
  BY DEF OtherDeletes, vfs, Disturb
<1>2. /\ DOMAIN drive' = DOMAIN drive \ {d}
      /\ \A x \in DOMAIN drive \ {d} : drive'[x] = drive[x]
  BY <1>1 DEF Less
<1>3. CacheKept' /\ Among(cache'.entries, cache.entries)
  BY <1>1, CacheStays
<1>4. NodesOK'
  BY <1>1, <1>2, NodesStay
<1>5. DriveOK' /\ Placed'
  <2>1. Partial(drive', Doc, File)
    BY <1>2 DEF DriveOK, Partial
  <2>2. Placed'
    BY <1>1, <1>2, <1>3, <2>1, PlacedStays
  <2> QED  BY <1>1, <1>2, <2>1, <2>2 DEF DriveOK, contents
<1>6. CopyOK'
  BY <1>1, <1>2 DEF CopyOK, Undisturbed, DriveOK, contents
<1> QED  BY <1>3, <1>4, <1>5, <1>6

LEMMA RemoveFileKeeps ==
    ASSUME Coherent, NEW d \in Doc, RemoveFile(d)
    PROVE  Kept'
<1> USE DEF Coherent, Kept
<1>1. /\ d \in DOMAIN node \cap DOMAIN drive
      /\ drive' = Less(drive, {d}) /\ gone' = gone \cup {d} /\ node' = Less(node, {d})
      /\ Drops({d}) /\ tainted' = tainted \ {d} /\ stray' = stray \ {d}
      /\ UNCHANGED <<work, report>>
      /\ quiet' = (quiet /\ ~(work.pc = "read" /\ work.doc = d))
  BY DEF RemoveFile, Disturb, Drops
<1>2. /\ DOMAIN drive' = DOMAIN drive \ {d} /\ DOMAIN node' = DOMAIN node \ {d}
      /\ \A x \in DOMAIN drive \ {d} : drive'[x] = drive[x]
      /\ \A x \in DOMAIN node \ {d} : node'[x] = node[x]
  BY <1>1 DEF Less
<1>3. CacheKept' /\ Among(cache'.entries, cache.entries)
  BY <1>1, <1>2, KeptAfterRemoval
<1>4. NodesOK'
  <2>1. Partial(node', Doc, [rev : 1 .. MaxRev, size : 0 .. MaxSize])
    BY <1>2 DEF NodesOK, Partial
  <2>2. DOMAIN node' \subseteq DOMAIN drive' \cup gone'
    BY <1>1, <1>2 DEF NodesOK
  <2> QED  BY <1>2, <2>1, <2>2 DEF NodesOK
<1>5. DriveOK' /\ Placed'
  <2>1. Partial(drive', Doc, File)
    BY <1>2 DEF DriveOK, Partial
  <2>2. Placed'
    BY <1>1, <1>2, <1>3, <2>1, PlacedStays
  <2> QED  BY <1>1, <1>2, <2>1, <2>2 DEF DriveOK
<1>6. CopyOK'
  BY <1>1, <1>2 DEF CopyOK, Undisturbed, DriveOK
<1> QED  BY <1>3, <1>4, <1>5, <1>6

LEMMA ListKeeps ==
    ASSUME Coherent, List
    PROVE  Kept'
<1> USE DEF Coherent, Kept
<1>1. /\ node' = [d \in DOMAIN drive |-> [rev |-> drive[d].rev, size |-> drive[d].size]]
      /\ Drops(DOMAIN node)
      /\ tainted' = tainted \ DOMAIN node /\ stray' = stray \ DOMAIN node
      /\ UNCHANGED <<drive, gone, work, report, quiet>>
  BY DEF List, external, Drops
<1>2. CacheKept' /\ Placed'
  <2>1. CacheKept' /\ Among(cache'.entries, cache.entries)
    BY <1>1, KeptAfterRemoval
  <2>2. Partial(drive', Doc, File)
    BY <1>1 DEF DriveOK
  <2> QED  BY <1>1, <2>1, <2>2, PlacedStays
<1>3. NodesOK'
  <2>1. ASSUME NEW d \in DOMAIN drive
        PROVE  /\ d \in Doc /\ node'[d].rev = drive[d].rev /\ node'[d].size = drive[d].size
               /\ node'[d] \in [rev : 1 .. MaxRev, size : 0 .. MaxSize]
               /\ drive[d].rev \in Nat
    BY <1>1, FileType DEF File
  <2>2. DOMAIN node' = DOMAIN drive
    BY <1>1
  <2> QED  BY <1>1, <2>1, <2>2 DEF NodesOK, Partial
<1>4. DriveOK'
  BY <1>1 DEF DriveOK
<1>5. CopyOK'
  BY <1>1 DEF CopyOK, Undisturbed
<1> QED  BY <1>2, <1>3, <1>4, <1>5

LEMMA LoadRootKeeps ==
    ASSUME Coherent, LoadRoot
    PROVE  Kept'
<1> USE DEF Coherent, Kept
<1>1. /\ DOMAIN node' = {} /\ stray' = stray \cup DOMAIN node
      /\ UNCHANGED <<drive, gone, cache, work, report, quiet, tainted>>
  BY DEF LoadRoot, external, Nothing
<1>2. CacheKept' /\ Placed'
  <2>1. ASSUME NEW i \in 1 .. Len(cache.entries)
        PROVE  LET x == cache.entries[i]
               IN  /\ x.rev \in 1 .. MaxRev /\ x.offset \in 0 .. MaxSize
                   /\ x.doc \in stray'
                   /\ x.doc \notin tainted => x.bytes.from = x.offset /\ x.bytes.rev = x.rev
    <3>1. Sound(cache.entries[i])
      BY DEF CacheKept
    <3> QED  BY <1>1, <3>1 DEF Sound
  <2>2. CacheKept'
    BY <1>1, <2>1 DEF CacheKept, Sound
  <2> QED  BY <1>1, <2>2 DEF Placed, Fits
<1>3. NodesOK' /\ DriveOK'
  BY <1>1 DEF NodesOK, DriveOK, Partial
<1>4. CopyOK'
  BY <1>1 DEF CopyOK, Undisturbed
<1> QED  BY <1>2, <1>3, <1>4

LEMMA ClearKeeps ==
    ASSUME Coherent, ClearContentCache
    PROVE  Kept'
<1> USE DEF Coherent, Kept
<1>1. /\ cache' = EmptyCache /\ tainted' = {} /\ stray' = {}
      /\ UNCHANGED <<drive, gone, node, work, report, quiet>>
  BY DEF ClearContentCache, external
<1>2. CacheKept' /\ Placed'
  <2>1. <<>> \in Entries(Doc) /\ Len(<<>>) = 0
    BY DEF Entries
  <2>2. CountExact(EmptyCache, Doc) /\ EmptyCache.used = 0 /\ EmptyCache.entries = <<>>
    BY <2>1, BytesEmpty DEF CountExact, EmptyCache
  <2> QED  BY <1>1, <2>1, <2>2, TransferAssumption DEF CacheKept, Placed
<1>3. NodesOK' /\ DriveOK'
  BY <1>1 DEF NodesOK, DriveOK
<1>4. CopyOK'
  BY <1>1 DEF CopyOK, Undisturbed
<1> QED  BY <1>2, <1>3, <1>4

LEMMA MountReadKeeps ==
    ASSUME Coherent, NEW d \in Doc, NEW offset \in 0 .. MaxSize - 1, NEW length \in 1 .. MaxSize,
           MountReads(d, offset, length)
    PROVE  Kept'
<1> USE DEF Coherent, Kept
<1>1. PICK bytes \in Sends(d, offset, length) :
        /\ Keeps(d, offset, bytes)
        /\ quiet' = (quiet /\ ~(work.pc = "read" /\ work.doc = d /\ bytes.from # offset))
  BY DEF MountReads, Answers, Misplaced
<1>2. /\ d \in DOMAIN node /\ offset + length <= node[d].size
      /\ UNCHANGED <<drive, gone, node, work, report, stray>>
  BY DEF MountReads, external
<1>3. offset \in Nat /\ length \in Nat \ {0}
  BY TransferAssumption
<1>4. bytes \in Slice /\ d \in DOMAIN drive /\ bytes.rev = drive[d].rev
  BY <1>1, <1>3, Sent
<1>5. offset < node[d].size
  BY <1>2, <1>3, NodeType
<1>6. /\ CacheKept' /\ Placed' /\ tainted' \subseteq Doc
      /\ tainted' = IF bytes.rev = node[d].rev /\ bytes.from = offset
                    THEN tainted ELSE tainted \cup {d}
  BY <1>1, <1>2, <1>3, <1>4, <1>5, KeptAfterRead DEF DriveOK
<1>7. NodesOK' /\ DriveOK'
  BY <1>1, <1>2, <1>6 DEF NodesOK, DriveOK
<1>8. CopyOK'
  BY <1>1, <1>2, <1>4, <1>6 DEF CopyOK, Undisturbed, DriveOK
<1> QED  BY <1>6, <1>7, <1>8

LEMMA UploadStartKeeps ==
    ASSUME Coherent, NEW d \in Doc, NEW size \in 1 .. MaxSize, UploadStarts(d, size)
    PROVE  Kept'
<1> USE DEF Coherent, Kept
<1>1. /\ d \notin DOMAIN drive \cup gone /\ report' = "none"
      /\ UNCHANGED <<drive, gone, node, cache, quiet, contents>>
      /\ \E first \in {"check", "begin", "init"} :
           work' = [pc |-> first, doc |-> d, size |-> size, allowed |-> 0, next |-> 1]
  BY DEF UploadStarts, external, vfs, history
<1>2. work'.pc \in {"check", "begin", "init"} /\ work'.doc = d
  BY <1>1
<1>3. CacheKept' /\ Placed'
  BY <1>1, CacheStays DEF Placed, Fits
<1>4. NodesOK'
  BY <1>1 DEF NodesOK
<1>5. DriveOK' /\ CopyOK'
  BY <1>1, <1>2 DEF DriveOK, CopyOK, UploadStage, contents
<1> QED  BY <1>3, <1>4, <1>5

LEMMA DownloadStartKeeps ==
    ASSUME Coherent, NEW d \in Doc, DownloadStarts(d)
    PROVE  Kept'
<1> USE DEF Coherent, Kept
<1>1. /\ d \in DOMAIN node /\ report' = "none"
      /\ UNCHANGED <<drive, gone, node, cache, contents>>
      /\ work' = [pc |-> "read", doc |-> d, rev |-> node[d].rev, size |-> node[d].size,
                  offset |-> 0, written |-> 0, inOrder |-> TRUE]
      /\ quiet' = (d \in DOMAIN drive \ tainted /\ drive[d].rev = node[d].rev)
  BY DEF DownloadStarts, external, vfs
<1>2. node[d] \in [rev : 1 .. MaxRev, size : 0 .. MaxSize]
  BY <1>1, NodeType
<1>3. work' \in Download
  BY <1>1, <1>2, TransferAssumption DEF Download
<1>4. /\ work'.pc = "read" /\ work'.doc = d /\ work'.rev = node[d].rev
      /\ work'.size = node[d].size /\ work'.offset = 0 /\ work'.written = 0
      /\ work'.inOrder = TRUE
  BY <1>1
<1>5. CacheKept' /\ Placed'
  BY <1>1, CacheStays DEF Placed, Fits
<1>6. NodesOK' /\ DriveOK'
  BY <1>1, <1>4 DEF NodesOK, DriveOK, UploadStage, contents
<1>7. quiet' => Undisturbed'
  BY <1>1, <1>4 DEF NodesOK, Undisturbed, contents
<1>8. CopyOK'
  <2>1. node[d].size \in Nat /\ 0 <= node[d].size
    BY <1>2
  <2> QED  BY <1>3, <1>4, <1>7, <2>1 DEF CopyOK
<1> QED  BY <1>5, <1>6, <1>8

\* A download that ends leaves nothing to be known of it.
LEMMA EndKeeps ==
    ASSUME NEW result \in {"none", "failed", "downloaded", "uploaded"}, Ends(result),
           CacheKept', Placed', NodesOK', quiet' \in BOOLEAN,
           tainted' \subseteq Doc, stray' \subseteq Doc,
           Partial(drive', Doc, File), gone' \subseteq Doc \ DOMAIN drive'
    PROVE  Kept'
<1>1. work'.pc = "idle" /\ work' = Idle /\ report' = result
  BY DEF Ends, Idle
<1>2. DriveOK'
  BY <1>1 DEF DriveOK, UploadStage, Idle
<1> QED  BY <1>1, <1>2 DEF CopyOK, Kept

\* The copy goes on by the bytes that came.
LEMMA Grows ==
    ASSUME CopyOK, work.pc = "read", NEW bytes, NEW length, bytes.len \in Nat \ {0},
           work.offset + bytes.len <= work.size, Writes(bytes, length)
    PROVE  /\ work' \in Download /\ work'.pc = "read" /\ work'.doc = work.doc
           /\ work'.rev = work.rev /\ work'.size = work.size
           /\ work'.offset = work.offset + bytes.len /\ work'.written = work'.offset
           /\ work'.inOrder = (work.inOrder /\ bytes.rev = work.rev /\ bytes.from = work.offset)
           /\ report' = report
<1> DEFINE offset == work.offset + bytes.len
           inOrder == work.inOrder /\ bytes.rev = work.rev /\ bytes.from = work.offset
<1>1. work \in Download /\ work.written = work.offset /\ work.offset \in Nat /\ work.size \in Nat
      /\ work.size <= MaxSize
  BY CopyType DEF CopyOK
<1>2. work' = [work EXCEPT !.offset = offset, !.written = offset, !.inOrder = inOrder]
      /\ report' = report
  BY <1>1 DEF Writes, Advanced
<1>3. offset \in 0 .. MaxSize /\ inOrder \in BOOLEAN
  BY <1>1, TransferAssumption
<1> HIDE DEF offset, inOrder
<1>4. work \in [pc : {"read"}, doc : Doc, rev : 1 .. MaxRev, size : 0 .. MaxSize,
                offset : 0 .. MaxSize, written : 0 .. MaxSize, inOrder : BOOLEAN]
  BY <1>1 DEF Download
<1>5. /\ work' \in [pc : {"read"}, doc : Doc, rev : 1 .. MaxRev, size : 0 .. MaxSize,
                    offset : 0 .. MaxSize, written : 0 .. MaxSize, inOrder : BOOLEAN]
      /\ work'.doc = work.doc /\ work'.rev = work.rev /\ work'.size = work.size
      /\ work'.offset = offset /\ work'.written = offset /\ work'.inOrder = inOrder
  BY <1>2, <1>3, <1>4
<1>6. work'.pc = "read"
  BY <1>5
<1> QED  BY <1>2, <1>5, <1>6 DEF offset, inOrder, Download

\* What a step of the download leaves alone.
LEMMA ChunkKeeps ==
    ASSUME Coherent, work.pc = "read", UNCHANGED <<drive, gone, node, stray>>,
           CacheKept', Placed', tainted' \subseteq Doc, NEW bytes, NEW length, NEW undisturbed \in BOOLEAN,
           bytes.len \in Nat, work.offset + bytes.len <= work.size,
           AfterChunk(bytes, length, undisturbed),
           undisturbed => /\ quiet /\ work.doc \notin tainted'
                          /\ bytes.rev = work.rev /\ bytes.from = work.offset
    PROVE  Kept'
<1> USE DEF Coherent, Kept
<1>1. /\ NodesOK' /\ Partial(drive', Doc, File) /\ gone' \subseteq Doc \ DOMAIN drive'
      /\ stray' \subseteq Doc
  BY DEF NodesOK, DriveOK
<1>2. CASE bytes.len = 0 /\ Completes
  <2>1. Ends("downloaded") /\ quiet' = FALSE
    BY <1>2 DEF Completes
  <2> QED  BY <1>1, <2>1, EndKeeps
<1>3. CASE bytes.len > 0 /\ Writes(bytes, length) /\ quiet' = undisturbed
  <2>1. /\ work' \in Download /\ work'.pc = "read" /\ work'.doc = work.doc
        /\ work'.rev = work.rev /\ work'.size = work.size
        /\ work'.offset = work.offset + bytes.len /\ work'.written = work'.offset
        /\ work'.inOrder = (work.inOrder /\ bytes.rev = work.rev /\ bytes.from = work.offset)
        /\ report' = report
    BY <1>3, Grows
  <2>2. DriveOK'
    BY <1>1, <1>3, <2>1 DEF DriveOK, UploadStage
  <2>3. quiet' => Undisturbed'
    BY <1>3, <2>1 DEF CopyOK, Undisturbed
  <2>4. CopyOK'
    BY <2>1, <2>3 DEF CopyOK
  <2> QED  BY <1>1, <2>2, <2>4
<1> QED  BY <1>2, <1>3 DEF AfterChunk

\* What the cache has for a listed range is that range of the listed file,
\* unless the file is tainted, and as long as was asked for.
LEMMA CachedAnswer ==
    ASSUME Coherent, NEW d \in DOMAIN node, NEW offset \in 0 .. MaxSize - 1,
           NEW length \in 1 .. MaxSize, Cached(d, offset, length),
           NEW bytes \in Answers(d, offset, length)
    PROVE  /\ bytes.len = length
           /\ d \notin tainted => bytes.rev = node[d].rev /\ bytes.from = offset
<1> DEFINE s == cache.entries
<1>1. bytes = GetRange(s, d, node[d].rev, offset, length)
      /\ Holding(s, d, node[d].rev, offset, length) # {}
  BY DEF Answers, Cached
<1>2. s \in Entries(Doc)
  BY DEF Coherent, Kept, CacheKept, CountExact
<1>3. bytes.len = length
  <2>1. PICK i \in 1 .. Len(s) :
          GetRange(s, d, node[d].rev, offset, length)
            = [rev  |-> s[i].bytes.rev, from |-> s[i].bytes.from + (offset - s[i].offset),
               len  |-> length]
    BY <1>1, <1>2, ServedFrom
  <2> QED  BY <1>1, <2>1
<1>4. d \notin tainted => bytes.rev = node[d].rev /\ bytes.from = offset
  <2> SUFFICES ASSUME d \notin tainted PROVE bytes.rev = node[d].rev /\ bytes.from = offset
    OBVIOUS
  <2>1. d \in DOMAIN node \ tainted
    OBVIOUS
  <2>2. GetRange(cache.entries, d, node[d].rev, offset, length)
          = [rev |-> node[d].rev, from |-> offset, len |-> length]
    BY <1>1, <2>1, CoherentServes DEF ServedAsListed
  <2> QED  BY <1>1, <2>2
<1> QED  BY <1>3, <1>4

\* The range a download asks for next.
LEMMA NextRange ==
    ASSUME CopyOK, NodesOK, Reading, work.doc \in DOMAIN node, NEW length,
           length = Min({Min({Chunk, work.size - work.offset}),
                         node[work.doc].size - work.offset}),
           length > 0
    PROVE  /\ work.offset \in 0 .. MaxSize - 1 /\ work.offset \in Nat
           /\ length \in 1 .. MaxSize /\ length \in Nat \ {0}
           /\ work.offset + length <= work.size
           /\ work.offset + length <= node[work.doc].size /\ work.offset < node[work.doc].size
<1> DEFINE wanted == Min({Chunk, work.size - work.offset})
           rest == node[work.doc].size - work.offset
<1>1. /\ work.size \in Nat /\ work.offset \in Nat /\ work.size <= MaxSize
      /\ work.offset < work.size
  BY CopyType DEF Reading
<1>2. node[work.doc].size \in Nat
  BY NodeType
<1>3. wanted \in Int /\ wanted <= work.size - work.offset
  BY <1>1, LesserOf, TransferAssumption
<1> HIDE DEF wanted
<1>4. length = IF wanted <= rest THEN wanted ELSE rest
  <2>1. rest \in Int
    BY <1>1, <1>2
  <2> HIDE DEF rest
  <2> QED  BY <1>3, <2>1, LesserOf DEF wanted, rest
<1>5. length \in Int /\ length <= work.size - work.offset /\ length <= rest
  BY <1>1, <1>2, <1>3, <1>4
<1> QED  BY <1>1, <1>2, <1>5, TransferAssumption

LEMMA ReadsChunkKeeps ==
    ASSUME Coherent, ReadsChunk
    PROVE  Kept'
<1> USE DEF Coherent, Kept
<1> DEFINE d == work.doc
           offset == work.offset
           wanted == Min({Chunk, work.size - offset})
           length == Min({wanted, node[d].size - offset})
<1>1. /\ Reading /\ work.pc = "read" /\ d \in DOMAIN node /\ length > 0
      /\ UNCHANGED <<drive, gone, node, stray>>
  BY DEF ReadsChunk, Reading, external
<1>2. PICK bytes \in Answers(d, offset, length) :
        IF Cached(d, offset, length)
        THEN AfterChunk(bytes, wanted, quiet) /\ UNCHANGED <<cache, tainted>>
        ELSE /\ AfterChunk(bytes, wanted, quiet /\ ~Misplaced(d, offset, bytes))
             /\ Keeps(d, offset, bytes)
  BY DEF ReadsChunk
<1>3. /\ offset \in 0 .. MaxSize - 1 /\ offset \in Nat
      /\ length \in 1 .. MaxSize /\ length \in Nat \ {0}
      /\ offset + length <= work.size /\ offset < node[d].size
  BY <1>1, NextRange
<1>4. tainted \subseteq Doc /\ quiet \in BOOLEAN /\ work.size \in Nat
  BY <1>1, CopyType DEF DriveOK
<1>5. quiet => Undisturbed
  BY <1>1 DEF CopyOK
<1> HIDE DEF length, wanted
<1>6. CASE Cached(d, offset, length)
  <2>1. AfterChunk(bytes, wanted, quiet) /\ UNCHANGED <<cache, tainted>>
    BY <1>2, <1>6
  <2>2. CacheKept' /\ Placed'
    BY <1>1, <2>1, CacheStays DEF Placed, Fits, contents
  <2>3. /\ bytes.len = length
        /\ d \notin tainted => bytes.rev = node[d].rev /\ bytes.from = offset
    BY <1>1, <1>2, <1>3, <1>6, CachedAnswer
  <2>4. quiet => /\ d \notin tainted' /\ bytes.rev = work.rev /\ bytes.from = work.offset
    BY <1>1, <1>5, <2>1, <2>3 DEF Undisturbed
  <2>5. bytes.len \in Nat /\ work.offset + bytes.len <= work.size
    BY <1>3, <2>3
  <2> QED  BY <1>1, <1>4, <2>1, <2>2, <2>4, <2>5, ChunkKeeps
<1>7. CASE ~Cached(d, offset, length)
  <2> DEFINE undisturbed == quiet /\ ~Misplaced(d, offset, bytes)
  <2>1. AfterChunk(bytes, wanted, undisturbed) /\ Keeps(d, offset, bytes)
    BY <1>2, <1>7
  <2>2. bytes \in Sends(d, offset, length)
    BY <1>2, <1>7 DEF Answers
  <2>3. /\ d \in DOMAIN drive /\ bytes \in Slice
        /\ bytes.rev = drive[d].rev /\ bytes.len <= length
    BY <1>3, <2>2, Sent
  <2>4. /\ CacheKept' /\ Placed' /\ tainted' \subseteq Doc
        /\ tainted' = IF bytes.rev = node[d].rev /\ bytes.from = offset
                      THEN tainted ELSE tainted \cup {d}
    BY <1>1, <1>3, <1>4, <2>1, <2>3, KeptAfterRead
  <2>5. bytes.len \in Nat /\ work.offset + bytes.len <= work.size
    BY <1>3, <1>4, <2>3 DEF Slice
  <2>6. undisturbed => /\ quiet /\ d \notin tainted'
                       /\ bytes.rev = work.rev /\ bytes.from = work.offset
    BY <1>1, <1>5, <2>3, <2>4 DEF Undisturbed, Misplaced
  <2>7. undisturbed \in BOOLEAN
    BY <1>4
  <2> HIDE DEF undisturbed
  <2> QED  BY <1>1, <2>1, <2>4, <2>5, <2>6, <2>7, ChunkKeeps
<1> QED  BY <1>6, <1>7

LEMMA DownloadKeeps ==
    ASSUME Coherent, DownloadStep
    PROVE  Kept'
<1> USE DEF Coherent, Kept
<1>1. CASE ReadsChunk
  BY <1>1, ReadsChunkKeeps
<1>2. CASE DownloadFails \/ DownloadDone \/ ReadsNothing
  <2>1. /\ UNCHANGED <<drive, gone, node, cache, contents>>
        /\ \E result \in {"failed", "downloaded"} : Ends(result)
        /\ quiet' = FALSE
    BY <1>2 DEF DownloadFails, DownloadDone, ReadsNothing, AfterChunk, Completes, external, vfs
  <2>2. CacheKept' /\ Placed' /\ NodesOK'
    BY <2>1, CacheStays DEF NodesOK, Placed, Fits
  <2>3. /\ Partial(drive', Doc, File) /\ gone' \subseteq Doc \ DOMAIN drive'
        /\ tainted' \subseteq Doc /\ stray' \subseteq Doc
    BY <2>1 DEF DriveOK, contents
  <2> QED  BY <2>1, <2>2, <2>3, EndKeeps
<1> QED  BY <1>1, <1>2 DEF DownloadStep

\* A step of the upload that makes no document appear.
LEMMA UnseenKeeps ==
    ASSUME Coherent, work.pc \in UploadStage, UNCHANGED <<drive, gone, vfs, history>>,
           \/ /\ "pc" \in DOMAIN work' /\ work'.pc \in UploadStage /\ work'.doc = work.doc
              /\ UNCHANGED report
           \/ Ends("failed")
    PROVE  Kept'
<1> USE DEF Coherent, Kept
<1>1. CacheKept' /\ Placed' /\ NodesOK'
  BY CacheStays DEF NodesOK, Placed, Fits, vfs, history, contents
<1>2. CASE Ends("failed")
  BY <1>1, <1>2, EndKeeps DEF DriveOK, history, contents
<1>3. CASE /\ "pc" \in DOMAIN work' /\ work'.pc \in UploadStage /\ work'.doc = work.doc
           /\ UNCHANGED report
  BY <1>1, <1>3 DEF DriveOK, CopyOK, UploadStage, history, contents
<1> QED  BY <1>2, <1>3

LEMMA AppearKeeps ==
    ASSUME Coherent, work.pc \in UploadStage, NEW pc, NEW all \in BOOLEAN, LastRequest(pc, all)
    PROVE  Kept'
<1> USE DEF Coherent, Kept
<1>1. /\ UNCHANGED <<gone, node, cache, quiet, contents>>
      /\ Ends("uploaded") \/ Ends("failed")
      /\ Appears(all) \/ UNCHANGED drive
  BY DEF LastRequest, Leaves, Fails, vfs, history
<1>0. quiet' \in BOOLEAN /\ tainted' \subseteq Doc /\ stray' \subseteq Doc
  BY <1>1 DEF DriveOK, contents
<1>2. CacheKept' /\ Among(cache'.entries, cache.entries)
  BY <1>1, CacheStays
<1> DEFINE d == work.doc
           f == [rev |-> 1, size |-> work.size, whole |-> all]
<1>3. d \in Doc /\ f \in File /\ d \notin DOMAIN drive \cup gone
  BY TransferAssumption DEF Inductive, WorkOK, DriveOK, Upload, File
<1>4. CASE Appears(all)
  <2>1. /\ DOMAIN drive' = DOMAIN drive \cup {d} /\ drive'[d] = f
        /\ \A x \in DOMAIN drive : drive'[x] = drive[x]
    BY <1>3, <1>4 DEF Appears, With
  <2>2. Partial(drive', Doc, File) /\ gone' \subseteq Doc \ DOMAIN drive'
    BY <1>1, <1>3, <2>1 DEF DriveOK, Partial
  <2>3. NodesOK'
    BY <1>1, <1>3, <2>1 DEF NodesOK
  <2>4. Placed'
    BY <1>1, <1>2, <1>3, <2>1, <2>2, PlacedStays
  <2> QED  BY <1>0, <1>1, <1>2, <2>2, <2>3, <2>4, EndKeeps
<1>5. CASE UNCHANGED drive
  <2>1. NodesOK'
    BY <1>1, <1>5 DEF NodesOK
  <2>2. Partial(drive', Doc, File) /\ gone' \subseteq Doc \ DOMAIN drive'
    BY <1>1, <1>5 DEF DriveOK
  <2>3. Placed'
    BY <1>1, <1>2, <1>5, <2>2, PlacedStays
  <2> QED  BY <1>0, <1>1, <1>2, <2>1, <2>2, <2>3, EndKeeps
<1> QED  BY <1>1, <1>4, <1>5

LEMMA UploadKeeps ==
    ASSUME Coherent, UploadStep
    PROVE  Kept'
<1> USE DEF Coherent, Kept
<1>0. work.pc \in UploadStage /\ work \in Upload
  <2>1. work.pc \in UploadStage
    BY DEF UploadStep, UploadStage, Check, Fast, Begin, Put, End, InitMulti, Authorise,
           PutPart, PartsSent, Complete, Join, Finish, Asks, Stores, LastRequest
  <2> QED  BY <2>1 DEF Inductive, WorkOK
<1>1. ASSUME NEW pc \in UploadStage
      PROVE  LET next == [work EXCEPT !.pc = pc]
             IN  "pc" \in DOMAIN next /\ next.pc \in UploadStage /\ next.doc = work.doc
  BY <1>0 DEF Upload
<1>2. ASSUME NEW pc, NEW next \in UploadStage, Asks(pc, next) PROVE Kept'
  <2>1. UNCHANGED <<drive, gone, vfs, history>> /\ (Goes(next) \/ Ends("failed"))
    BY <1>2 DEF Asks, Fails, Leaves
  <2>2. Goes(next) => /\ "pc" \in DOMAIN work' /\ work'.pc \in UploadStage
                      /\ work'.doc = work.doc /\ UNCHANGED report
    BY <1>1 DEF Goes
  <2> QED  BY <1>0, <2>1, <2>2, UnseenKeeps
<1>3. ASSUME NEW pc, NEW kept, NEW next, Stores(pc, kept, next),
             "pc" \in DOMAIN next, next.pc \in UploadStage, next.doc = work.doc
      PROVE  Kept'
  <2>1. /\ UNCHANGED <<drive, gone, vfs, history>>
        /\ (work' = next /\ UNCHANGED report) \/ Ends("failed")
    BY <1>3 DEF Stores, Fails, Leaves
  <2> QED  BY <1>0, <1>3, <2>1, UnseenKeeps
<1>4. CASE Check \/ Begin \/ InitMulti \/ Complete
  BY <1>2, <1>4 DEF Check, Begin, InitMulti, Complete, UploadStage
<1>5. CASE Fast \/ End \/ Finish
  <2>1. Arrived \in BOOLEAN
    BY DEF Arrived
  <2> QED  BY <1>0, <1>5, <2>1, AppearKeeps DEF Fast, End, Finish
<1>6. CASE Put \/ Join
  BY <1>1, <1>3, <1>6 DEF Put, Join, UploadStage
<1>7. CASE Authorise
  <2>1. PICK n \in 1 .. work.size :
          Stores("auth", session, [work EXCEPT !.pc = "part", !.allowed = n])
    BY <1>7 DEF Authorise
  <2> DEFINE next == [work EXCEPT !.pc = "part", !.allowed = n]
  <2>2. "pc" \in DOMAIN next /\ next.pc = "part" /\ next.doc = work.doc
    BY <1>0 DEF Upload
  <2> HIDE DEF next
  <2> QED  BY <1>3, <2>1, <2>2 DEF UploadStage, next
<1>8. CASE PutPart
  <2> DEFINE next == [work EXCEPT !.next = @ + 1]
  <2>1. Stores("part", WithPart(work.next), next)
    BY <1>8 DEF PutPart
  <2>2. "pc" \in DOMAIN next /\ next.pc = work.pc /\ next.doc = work.doc
    BY <1>0 DEF Upload
  <2> HIDE DEF next
  <2> QED  BY <1>0, <1>3, <2>1, <2>2
<1>9. CASE PartsSent
  <2>1. UNCHANGED <<drive, gone, vfs, history>> /\ (Goes("complete") \/ Ends("failed"))
    BY <1>9 DEF PartsSent, Fails, Leaves
  <2> QED  BY <1>0, <1>1, <2>1, UnseenKeeps DEF Goes, UploadStage
<1> QED
  BY <1>4, <1>5, <1>6, <1>7, <1>8, <1>9 DEF UploadStep

LEMMA NextCoherent == Coherent /\ [Next]_vars => Coherent'
<1> SUFFICES ASSUME Coherent, [Next]_vars PROVE Coherent'
  OBVIOUS
<1>1. Inductive'
  BY NextInductive DEF Coherent
<1>2. Kept'
  <2>1. CASE UNCHANGED vars
    <3>1. UNCHANGED <<drive, gone, node, cache, work, report, quiet, contents>>
      BY <2>1 DEF vars, external, vfs, history
    <3>2. CacheKept' /\ Placed' /\ NodesOK' /\ DriveOK'
      BY <3>1, CacheStays DEF Coherent, Kept, NodesOK, DriveOK, Placed, Fits, contents
    <3>3. CopyOK'
      BY <3>1 DEF Coherent, Kept, CopyOK, Undisturbed, contents
    <3> QED  BY <3>2, <3>3 DEF Kept
  <2>2. CASE Next
    BY <2>2, WriteKeeps, DeleteKeeps, ListKeeps, LoadRootKeeps, ClearKeeps, RemoveFileKeeps, MountReadKeeps,
       DownloadStartKeeps, UploadStartKeeps, DownloadKeeps, UploadKeeps
    DEF Next
  <2> QED  BY <2>1, <2>2
<1> QED  BY <1>1, <1>2 DEF Coherent

LEMMA AlwaysCoherent == Spec => []Coherent
BY InitCoherent, NextCoherent, PTL DEF Spec

\* What is cached is of listed files, but for what a reload of the root has left,
\* none of it begins beyond the end of the revision it is served for, and the
\* count is exact and below the bound, however many files, revisions and entries
\* there are and in whatever order mounts read, listings come, the root is
\* reloaded, files go and the cache is cleared.
THEOREM CacheStaysSound == Spec => []CacheSound
<1>1. Coherent => CacheSound
  BY CoherentIsSound
<1> QED  BY AlwaysCoherent, <1>1, PTL

\* A range the cache has is the one that was listed, as long as the drive sent
\* what it was asked for since the contents of the file were dropped.
THEOREM AlwaysServedAsListed == Spec => []ServedAsListed
BY AlwaysCoherent, CoherentServes, PTL

-----------------------------------------------------------------------------

\* The step that reports a download.
DoneIsWhole ==
    report # "downloaded" /\ report' = "downloaded" /\ quiet =>
        work.inOrder /\ work.written = work.size

LEMMA StepIsWhole == Coherent /\ [Next]_vars => [DoneIsWhole]_vars
<1> SUFFICES ASSUME Coherent, Next, report # "downloaded", report' = "downloaded", quiet
             PROVE  work.inOrder /\ work.written = work.size
  BY DEF DoneIsWhole
<1> USE DEF Coherent, Kept
<1>1. DownloadStep
  <2>1. ~UploadStep
    BY DEF UploadStep, Check, Fast, Begin, Put, End, InitMulti, Authorise, PutPart, PartsSent,
           Complete, Join, Finish, Asks, Stores, LastRequest, Goes, Leaves, Fails, Ends
  <2> QED
    BY <2>1 DEF Next, OtherWrites, OtherDeletes, List, LoadRoot, ClearContentCache, RemoveFile,
                MountReads, DownloadStarts, UploadStarts
<1>2. work.pc = "read"
  BY <1>1 DEF DownloadStep, ReadsNothing, ReadsChunk, DownloadFails, DownloadDone, Reading
<1>3. /\ work.written = work.offset /\ work.offset <= work.size
      /\ work.offset \in Nat /\ work.size \in Nat /\ Undisturbed
  BY <1>2, CopyType DEF CopyOK
<1>4. ~Reading
  <2> SUFFICES ASSUME Reading PROVE FALSE
    OBVIOUS
  <2>1. work.offset < work.size
    BY DEF Reading
  <2>2. CASE ReadsNothing
    BY <1>3, <2>1, <2>2 DEF ReadsNothing, Undisturbed
  <2>3. CASE DownloadFails \/ DownloadDone
    BY <2>3 DEF DownloadFails, DownloadDone, Ends
  <2>4. CASE ReadsChunk
    <3> DEFINE d == work.doc
               offset == work.offset
               wanted == Min({Chunk, work.size - offset})
               length == Min({wanted, node[d].size - offset})
    <3>1. d \in DOMAIN node /\ length > 0
      BY <2>4 DEF ReadsChunk
    <3>2. PICK bytes \in Answers(d, offset, length) :
            \E undisturbed : AfterChunk(bytes, wanted, undisturbed)
      BY <2>4 DEF ReadsChunk
    <3>3. bytes.len = 0
      BY <3>2 DEF AfterChunk, Writes
    <3>4. /\ offset \in 0 .. MaxSize - 1 /\ offset \in Nat
          /\ length \in 1 .. MaxSize /\ length \in Nat \ {0}
      BY <3>1, NextRange
    <3> HIDE DEF length, wanted
    <3>5. ~Cached(d, offset, length)
      BY <3>1, <3>2, <3>3, <3>4, CachedAnswer
    <3>6. drive[d].size = 0
      BY <3>2, <3>3, <3>4, <3>5, Sent DEF Answers
    <3> QED  BY <1>3, <2>1, <3>6 DEF Undisturbed
  <2> QED  BY <1>1, <2>2, <2>3, <2>4 DEF DownloadStep
<1> QED  BY <1>2, <1>3, <1>4 DEF Reading, Undisturbed

\* A download that is reported as done has written the whole file in order when
\* the drive takes ranges and nobody changed the file meanwhile, whatever the
\* size of the file, of a chunk and of the cache, however short the answers are,
\* and whatever mounts read or list between two chunks.
THEOREM AlwaysWhole == Spec => DownloadedIsWhole
<1>1. Coherent /\ [Next]_vars => [DoneIsWhole]_vars
  BY StepIsWhole
<1> QED  BY AlwaysCoherent, <1>1, PTL DEF Spec, DownloadedIsWhole, DoneIsWhole
=============================================================================
