--------------------------- MODULE BlobUploadProofs ---------------------------
(***************************************************************************)
(* Uploading blobs and reading them back, for any contents, chunk size,    *)
(* number of uploads and of writes to the file meanwhile.                  *)
(***************************************************************************)
EXTENDS BlobUpload, WellFoundedInduction, TLAPS

(* Most leaves are first-order: Zenon unless a leaf names another prover.  *)
USE Zenon

-----------------------------------------------------------------------------
(* Induction                                                               *)
Less == {e \in Nat \X Nat : e[1] < e[2]}

LEMMA LeastNat ==
  ASSUME NEW T \in SUBSET Nat, T # {}
  PROVE  \E m \in T : \A k \in T : m <= k
<1>1. IsWellFoundedOn(Less, Nat)
  BY NatLessThanWellFounded DEF OpToRel, Less
<1>2. PICK m \in T : \A y \in T : ~(<<y, m>> \in Less)
  BY <1>1, WFMin
<1>3. ASSUME NEW k \in T, k < m PROVE FALSE
  <2>1. <<k, m>> \in Nat \X Nat
    OBVIOUS
  <2>2. <<k, m>> \in Less
    BY SMT, <2>1, <1>3 DEF Less
  <2> QED BY <2>2, <1>2
<1> QED BY SMT, <1>3

(* Induction up to N, with the values for which a claim holds as a set.    *)
LEMMA Induction ==
  ASSUME NEW N \in Nat, NEW T, 0 \in T,
         \A n \in 0 .. N - 1 : n \in T => n + 1 \in T
  PROVE  \A n \in 0 .. N : n \in T
<1> SUFFICES ASSUME NEW b \in 0 .. N, b \notin T
             PROVE  FALSE
  OBVIOUS
<1> DEFINE U == {n \in 0 .. N : n \notin T}
<1>1. U \in SUBSET Nat /\ U # {}
  BY SMT
<1>2. PICK n \in U : \A k \in U : n <= k
  BY <1>1, LeastNat
<1>3. n # 0 /\ n \in 0 .. N /\ n \notin T
  BY <1>2
<1>4. n - 1 \in 0 .. N - 1 /\ n - 1 + 1 = n /\ n - 1 \in 0 .. N /\ ~(n <= n - 1)
  BY SMT, <1>3
<1>5. n - 1 \in T
  BY <1>2, <1>4
<1> QED BY <1>3, <1>4, <1>5

-----------------------------------------------------------------------------
(* Sequences, of whatever                                                  *)
AnySeq(s) == s \in Seq(Range(s))
AllSeqs(ss) == AnySeq(ss) /\ \A i \in 1 .. Len(ss) : AnySeq(ss[i])

LEMMA SeqAny ==
  ASSUME NEW S, NEW s \in Seq(S)
  PROVE  AnySeq(s)
  BY SMT DEF AnySeq, Range

LEMMA SeqFacts ==
  ASSUME NEW s, AnySeq(s)
  PROVE  /\ Len(s) \in Nat /\ DOMAIN s = 1 .. Len(s)
         /\ s # <<>> <=> Len(s) # 0
         /\ s = [i \in 1 .. Len(s) |-> s[i]]
  BY SMT DEF AnySeq

LEMMA MakeSeq ==
  ASSUME NEW n \in Nat, NEW f, f = [i \in 1 .. n |-> f[i]]
  PROVE  AnySeq(f) /\ Len(f) = n
<1>1. f \in [1 .. n -> Range(f)]
  BY SMT DEF Range
<1> QED BY SMT, <1>1 DEF AnySeq

LEMMA SameSeq ==
  ASSUME NEW s, AnySeq(s), NEW t, AnySeq(t), Len(s) = Len(t),
         \A i \in 1 .. Len(s) : s[i] = t[i]
  PROVE  s = t
<1>1. s = [i \in 1 .. Len(s) |-> s[i]] /\ t = [i \in 1 .. Len(t) |-> t[i]]
  BY SeqFacts
<1> QED BY <1>1

LEMMA Join ==
  ASSUME NEW s, AnySeq(s), NEW t, AnySeq(t)
  PROVE  /\ AnySeq(s \o t) /\ Len(s \o t) = Len(s) + Len(t)
         /\ \A i \in 1 .. Len(s) : (s \o t)[i] = s[i]
         /\ \A i \in 1 .. Len(t) : (s \o t)[Len(s) + i] = t[i]
<1> DEFINE S == Range(s) \cup Range(t)
<1>1. s \in Seq(S) /\ t \in Seq(S)
  <2>1. s \in Seq(Range(s)) /\ t \in Seq(Range(t)) /\ Range(s) \subseteq S /\ Range(t) \subseteq S
    BY DEF AnySeq
  <2> HIDE DEF S
  <2> QED BY SMT, <2>1
<1> HIDE DEF S
<1>2. /\ s \o t \in Seq(S) /\ Len(s \o t) = Len(s) + Len(t)
      /\ \A i \in 1 .. Len(s) : (s \o t)[i] = s[i]
      /\ \A i \in 1 .. Len(t) : (s \o t)[Len(s) + i] = t[i]
  BY SMT, <1>1
<1> QED BY <1>2, SeqAny

LEMMA JoinRight ==
  ASSUME NEW s, AnySeq(s), NEW t, AnySeq(t), NEW h, NEW n, Len(s) = h, Len(t) = n
  PROVE  \A i \in 1 .. n : (s \o t)[h + i] = t[i]
  BY SMT, Join

Glued(s, t, h, n) == \A i \in 1 .. n : (s \o t)[h + i] = t[i]

LEMMA JoinGlued ==
  ASSUME NEW s, AnySeq(s), NEW t, AnySeq(t)
  PROVE  Glued(s, t, Len(s), Len(t))
  BY SMT, Join DEF Glued

LEMMA Piece ==
  ASSUME NEW s, AnySeq(s), NEW m \in 1 .. Len(s) + 1, NEW n \in m - 1 .. Len(s)
  PROVE  /\ AnySeq(SubSeq(s, m, n)) /\ Len(SubSeq(s, m, n)) = n - m + 1
         /\ \A i \in 1 .. n - m + 1 : SubSeq(s, m, n)[i] = s[m + i - 1]
<1> DEFINE S == Range(s)
<1>1. s \in Seq(S)
  BY DEF AnySeq
<1> HIDE DEF S
<1>2. /\ SubSeq(s, m, n) \in Seq(S) /\ Len(SubSeq(s, m, n)) = n - m + 1
      /\ \A i \in 1 .. n - m + 1 : SubSeq(s, m, n)[i] = s[m + i - 1]
  BY SMT, <1>1
<1> QED BY <1>2, SeqAny

LEMMA FirstDef ==
  ASSUME NEW s, AnySeq(s), NEW n \in 0 .. Len(s)
  PROVE  /\ AnySeq(First(s, n)) /\ Len(First(s, n)) = n
         /\ \A i \in 1 .. n : First(s, n)[i] = s[i]
<1>1. Len(s) \in Nat
  BY SeqFacts
<1>2. 1 \in 1 .. Len(s) + 1 /\ n \in 1 - 1 .. Len(s) /\ n - 1 + 1 = n /\ \A i \in 1 .. n : 1 + i - 1 = i
  BY SMT, <1>1
<1>3. /\ AnySeq(SubSeq(s, 1, n)) /\ Len(SubSeq(s, 1, n)) = n - 1 + 1
      /\ \A i \in 1 .. n - 1 + 1 : SubSeq(s, 1, n)[i] = s[1 + i - 1]
  BY <1>2, Piece
<1> QED BY <1>2, <1>3 DEF First

LEMMA AfterDef ==
  ASSUME NEW s, AnySeq(s), NEW n \in 0 .. Len(s)
  PROVE  /\ AnySeq(After(s, n)) /\ Len(After(s, n)) = Len(s) - n
         /\ \A i \in 1 .. Len(s) - n : After(s, n)[i] = s[n + i]
<1>1. Len(s) \in Nat
  BY SeqFacts
<1>2. /\ n + 1 \in 1 .. Len(s) + 1 /\ Len(s) \in n + 1 - 1 .. Len(s) /\ Len(s) - (n + 1) + 1 = Len(s) - n
      /\ \A i \in 1 .. Len(s) - n : n + 1 + i - 1 = n + i
  BY SMT, <1>1
<1>3. /\ AnySeq(SubSeq(s, n + 1, Len(s))) /\ Len(SubSeq(s, n + 1, Len(s))) = Len(s) - (n + 1) + 1
      /\ \A i \in 1 .. Len(s) - (n + 1) + 1 : SubSeq(s, n + 1, Len(s))[i] = s[n + 1 + i - 1]
  <2> DEFINE m == n + 1
  <2>2. m \in 1 .. Len(s) + 1 /\ Len(s) \in m - 1 .. Len(s)
    BY SMT, <1>1
  <2> HIDE DEF m
  <2>3. /\ AnySeq(SubSeq(s, m, Len(s))) /\ Len(SubSeq(s, m, Len(s))) = Len(s) - m + 1
        /\ \A i \in 1 .. Len(s) - m + 1 : SubSeq(s, m, Len(s))[i] = s[m + i - 1]
    BY <2>2, Piece
  <2> QED BY <2>3 DEF m
<1> QED BY <1>2, <1>3 DEF After

LEMMA AfterAfter ==
  ASSUME NEW s, AnySeq(s), NEW m \in 0 .. Len(s), NEW n \in 0 .. Len(s) - m
  PROVE  After(After(s, m), n) = After(s, m + n)
<1>1. /\ Len(s) \in Nat /\ m + n \in 0 .. Len(s) /\ Len(s) - m - n = Len(s) - (m + n)
      /\ \A i \in 1 .. Len(s) - (m + n) : n + i \in 1 .. Len(s) - m /\ m + (n + i) = m + n + i
  BY SMT, SeqFacts
<1>2. AnySeq(After(s, m)) /\ Len(After(s, m)) = Len(s) - m /\ \A i \in 1 .. Len(s) - m : After(s, m)[i] = s[m + i]
  BY AfterDef
<1>3. /\ AnySeq(After(After(s, m), n)) /\ Len(After(After(s, m), n)) = Len(s) - m - n
      /\ \A i \in 1 .. Len(s) - m - n : After(After(s, m), n)[i] = After(s, m)[n + i]
  <2> DEFINE t == After(s, m)
  <2> HIDE DEF t
  <2>1. AnySeq(t) /\ Len(t) = Len(s) - m /\ n \in 0 .. Len(t)
    BY <1>2 DEF t
  <2>2. /\ AnySeq(After(t, n)) /\ Len(After(t, n)) = Len(t) - n
        /\ \A i \in 1 .. Len(t) - n : After(t, n)[i] = t[n + i]
    BY <2>1, AfterDef
  <2> QED BY <2>1, <2>2 DEF t
<1>4. /\ AnySeq(After(s, m + n)) /\ Len(After(s, m + n)) = Len(s) - (m + n)
      /\ \A i \in 1 .. Len(s) - (m + n) : After(s, m + n)[i] = s[m + n + i]
  BY <1>1, AfterDef
<1>5. ASSUME NEW i \in 1 .. Len(s) - (m + n) PROVE After(After(s, m), n)[i] = After(s, m + n)[i]
  <2>1. After(After(s, m), n)[i] = After(s, m)[n + i] /\ n + i \in 1 .. Len(s) - m /\ m + (n + i) = m + n + i
    BY <1>1, <1>3
  <2>2. After(s, m)[n + i] = s[m + (n + i)]
    BY <2>1, <1>2
  <2> QED BY <2>1, <2>2, <1>4
<1> QED BY <1>1, <1>3, <1>4, <1>5, SameSeq

LEMMA WholeAfter ==
  ASSUME NEW s, AnySeq(s)
  PROVE  /\ After(s, 0) = s /\ After(s, Len(s)) = <<>> /\ First(s, Len(s)) = s
         /\ s # <<>> => Tail(s) = After(s, 1)
<1>1. s \in Seq(Range(s))
  BY DEF AnySeq
<1> DEFINE S == Range(s)
<1> HIDE DEF S
<1>2. s \in Seq(S)
  BY <1>1 DEF S
<1> QED BY SMT, <1>2 DEF After, First

LEMMA NoWords == AnySeq(<<>>) /\ Len(<<>>) = 0
<1>1. <<>> \in Seq({})
  BY SMT
<1>2. Len(<<>>) = 0
  BY SMT
<1> QED BY <1>1, <1>2, SeqAny

LEMMA OneWord ==
  ASSUME NEW w
  PROVE  AnySeq(<<w>>) /\ Len(<<w>>) = 1 /\ <<w>>[1] = w
<1>1. <<w>> \in Seq({w})
  BY SMT
<1>2. Len(<<w>>) = 1 /\ <<w>>[1] = w
  BY SMT
<1> QED BY <1>1, <1>2, SeqAny

-----------------------------------------------------------------------------
(* Concat, piece by piece                                                  *)
IsConcat(f, ss, n) == f = [i \in 0 .. n |-> IF i = 0 THEN <<>> ELSE f[i - 1] \o ss[i]]

LEMMA ConcatExists ==
  ASSUME NEW ss, AnySeq(ss)
  PROVE  \E f : IsConcat(f, ss, Len(ss))
<1> DEFINE T == {n \in 0 .. Len(ss) : \E f : IsConcat(f, ss, n)}
<1>1. Len(ss) \in Nat
  BY SeqFacts
<1>2. 0 \in T
  <2> DEFINE f == [i \in 0 .. 0 |-> <<>>]
  <2>1. (\A i \in 0 .. 0 : i = 0) /\ 0 \in 0 .. Len(ss)
    BY SMT, <1>1
  <2>2. IsConcat(f, ss, 0)
    BY <2>1 DEF IsConcat
  <2> QED BY <2>1, <2>2
<1>3. ASSUME NEW n \in 0 .. Len(ss) - 1, n \in T PROVE n + 1 \in T
  <2>1. PICK f : IsConcat(f, ss, n)
    BY <1>3
  <2> DEFINE g == [i \in 0 .. n + 1 |-> IF i = 0 THEN <<>> ELSE f[i - 1] \o ss[i]]
  <2>2. /\ n + 1 \in 0 .. Len(ss) /\ \A i \in 0 .. n : i \in 0 .. n + 1
        /\ \A i \in 0 .. n + 1 : i # 0 => i - 1 \in 0 .. n
    BY SMT, <1>1
  <2>3. \A i \in 0 .. n : g[i] = f[i]
    BY <2>1, <2>2 DEF IsConcat
  <2>4. \A i \in 0 .. n + 1 : i # 0 => g[i - 1] = f[i - 1]
    BY <2>2, <2>3
  <2>5. IsConcat(g, ss, n + 1)
    BY <2>4 DEF IsConcat
  <2> QED BY <2>2, <2>5
<1>4. Len(ss) \in 0 .. Len(ss)
  BY SMT, <1>1
<1> HIDE DEF T
<1>5. Len(ss) \in T
  BY <1>1, <1>2, <1>3, <1>4, Induction
<1> QED BY <1>5 DEF T

(* What the first k pieces add up to.                                      *)
Pre(ss, k) == Concat(First(ss, k))

LEMMA PreIsConcat ==
  ASSUME NEW ss, AnySeq(ss), NEW f, IsConcat(f, ss, Len(ss)), NEW k \in 0 .. Len(ss)
  PROVE  Pre(ss, k) = f[k]
<1> DEFINE t == First(ss, k)
<1>1. /\ Len(ss) \in Nat /\ k \in Nat /\ k \in 0 .. k
      /\ \A i \in 0 .. k : i \in 0 .. Len(ss)
  BY SMT, SeqFacts
<1>2. AnySeq(t) /\ Len(t) = k /\ \A i \in 1 .. k : t[i] = ss[i]
  BY FirstDef
<1> HIDE DEF t
<1> DEFINE g == CHOOSE h : IsConcat(h, t, Len(t))
<1>3. IsConcat(g, t, Len(t))
  BY <1>2, ConcatExists
<1>4. Pre(ss, k) = g[k]
  BY <1>2 DEF Pre, t, Concat, IsConcat
<1> HIDE DEF g
<1>5. /\ \A i \in 0 .. k : g[i] = IF i = 0 THEN <<>> ELSE g[i - 1] \o t[i]
      /\ \A i \in 0 .. k : f[i] = IF i = 0 THEN <<>> ELSE f[i - 1] \o ss[i]
  BY <1>1, <1>2, <1>3 DEF IsConcat
<1> DEFINE T == {i \in 0 .. k : g[i] = f[i]}
<1>6. 0 \in T
  <2>1. 0 \in 0 .. k
    BY SMT, <1>1
  <2> QED BY <2>1, <1>5
<1>7. ASSUME NEW i \in 0 .. k - 1, i \in T PROVE i + 1 \in T
  <2> DEFINE j == i + 1
  <2>1. j \in 1 .. k /\ j \in 0 .. k /\ j # 0
    BY SMT, <1>1
  <2>2. j - 1 = i
    BY SMT
  <2> HIDE DEF j
  <2>3. t[j] = ss[j] /\ g[i] = f[i]
    BY <2>1, <1>2, <1>7
  <2>4. g[j] = g[j - 1] \o t[j] /\ f[j] = f[j - 1] \o ss[j]
    BY <2>1, <1>5
  <2>5. g[j] = f[j]
    BY <2>2, <2>3, <2>4
  <2> QED BY <2>1, <2>5 DEF j
<1> HIDE DEF T
<1>8. \A i \in 0 .. k : i \in T
  BY <1>1, <1>6, <1>7, Induction
<1>9. k \in T
  BY <1>1, <1>8
<1> QED BY <1>4, <1>9 DEF T

LEMMA PreDef ==
  ASSUME NEW ss, AllSeqs(ss)
  PROVE  /\ Pre(ss, 0) = <<>> /\ Pre(ss, Len(ss)) = Concat(ss)
         /\ \A k \in 1 .. Len(ss) : Pre(ss, k) = Pre(ss, k - 1) \o ss[k]
         /\ \A k \in 0 .. Len(ss) : AnySeq(Pre(ss, k))
<1>1. AnySeq(ss) /\ Len(ss) \in Nat /\ 0 \in 0 .. Len(ss)
  BY SMT, SeqFacts DEF AllSeqs
<1>2. PICK f : IsConcat(f, ss, Len(ss))
  BY <1>1, ConcatExists
<1>3. \A k \in 0 .. Len(ss) : Pre(ss, k) = f[k]
  BY <1>1, <1>2, PreIsConcat
<1>4. \A k \in 0 .. Len(ss) : f[k] = IF k = 0 THEN <<>> ELSE f[k - 1] \o ss[k]
  BY <1>2 DEF IsConcat
<1>5. Pre(ss, 0) = <<>>
  BY <1>1, <1>3, <1>4
<1>6. Pre(ss, Len(ss)) = Concat(ss)
  BY <1>1, WholeAfter DEF Pre
<1>7. ASSUME NEW k \in 1 .. Len(ss) PROVE Pre(ss, k) = Pre(ss, k - 1) \o ss[k]
  <2>1. k - 1 \in 0 .. Len(ss) /\ k \in 0 .. Len(ss) /\ k # 0
    BY SMT, <1>1
  <2> QED BY <2>1, <1>3, <1>4
<1> DEFINE T == {k \in 0 .. Len(ss) : AnySeq(Pre(ss, k))}
<1>8. 0 \in T
  BY <1>1, <1>5, NoWords
<1>9. ASSUME NEW k \in 0 .. Len(ss) - 1, k \in T PROVE k + 1 \in T
  <2> DEFINE j == k + 1
  <2>1. j \in 1 .. Len(ss) /\ j \in 0 .. Len(ss) /\ j - 1 = k
    BY SMT, <1>1
  <2> HIDE DEF j
  <2>2. AnySeq(Pre(ss, k)) /\ AnySeq(ss[j])
    BY <2>1, <1>9 DEF AllSeqs
  <2>3. AnySeq(Pre(ss, k) \o ss[j])
    BY <2>2, Join
  <2>4. Pre(ss, j) = Pre(ss, k) \o ss[j]
    BY <2>1, <1>7
  <2> QED BY <2>1, <2>3, <2>4 DEF j
<1> HIDE DEF T
<1>10. \A k \in 0 .. Len(ss) : k \in T
  BY <1>1, <1>8, <1>9, Induction
<1> QED BY <1>5, <1>6, <1>7, <1>10 DEF T

(* Where the k-th piece ends.                                              *)
Off(ss, k) == Len(Pre(ss, k))

LEMMA OffDef ==
  ASSUME NEW ss, AllSeqs(ss)
  PROVE  /\ Off(ss, 0) = 0 /\ Off(ss, Len(ss)) = Len(Concat(ss))
         /\ AnySeq(Concat(ss))
         /\ \A k \in 0 .. Len(ss) : Off(ss, k) \in Nat
         /\ \A k \in 1 .. Len(ss) : Off(ss, k) = Off(ss, k - 1) + Len(ss[k])
<1>1. AnySeq(ss) /\ Len(ss) \in Nat /\ Len(ss) \in 0 .. Len(ss)
  BY SMT, SeqFacts DEF AllSeqs
<1>2. Off(ss, 0) = 0 /\ Off(ss, Len(ss)) = Len(Concat(ss)) /\ AnySeq(Concat(ss))
  BY <1>1, PreDef, NoWords DEF Off
<1>3. ASSUME NEW k \in 1 .. Len(ss) PROVE Off(ss, k) = Off(ss, k - 1) + Len(ss[k])
  <2>1. k - 1 \in 0 .. Len(ss)
    BY SMT, <1>1
  <2>2. AnySeq(Pre(ss, k - 1)) /\ AnySeq(ss[k]) /\ Pre(ss, k) = Pre(ss, k - 1) \o ss[k]
    BY <2>1, PreDef DEF AllSeqs
  <2>3. Len(Pre(ss, k - 1) \o ss[k]) = Len(Pre(ss, k - 1)) + Len(ss[k])
    BY <2>2, Join
  <2> QED BY <2>2, <2>3 DEF Off
<1>4. \A k \in 0 .. Len(ss) : Off(ss, k) \in Nat
  BY PreDef, SeqFacts DEF Off
<1> QED BY <1>2, <1>3, <1>4

LEMMA OffGrows ==
  ASSUME NEW ss, AllSeqs(ss), NEW j \in 0 .. Len(ss), NEW k \in j .. Len(ss)
  PROVE  Off(ss, j) <= Off(ss, k)
<1> DEFINE L == Len(ss)
           T == {n \in 0 .. L - j : Off(ss, j) <= Off(ss, j + n)}
<1>1. AnySeq(ss) /\ L \in Nat /\ j \in Nat /\ L - j \in Nat /\ j + 0 = j /\ 0 \in 0 .. L - j
      /\ k - j \in 0 .. L - j /\ j + (k - j) = k
  BY SMT, SeqFacts DEF AllSeqs
<1>2. \A i \in 0 .. L : Off(ss, i) \in Nat
  BY OffDef
<1>3. 0 \in T
  <2>1. Off(ss, j) <= Off(ss, j)
    BY SMT, <1>2
  <2> QED BY <2>1, <1>1
<1>4. ASSUME NEW n \in 0 .. L - j - 1, n \in T PROVE n + 1 \in T
  <2> DEFINE i == j + (n + 1)
  <2>1. /\ n + 1 \in 0 .. L - j /\ i \in 1 .. L /\ i - 1 = j + n
        /\ j + n \in 0 .. L /\ i \in 0 .. L
    BY SMT, <1>1
  <2> HIDE DEF i
  <2>2. AnySeq(ss[i])
    BY <2>1 DEF AllSeqs
  <2>3. Len(ss[i]) \in Nat
    BY <2>2, SeqFacts
  <2>4. Off(ss, i) = Off(ss, i - 1) + Len(ss[i])
    BY <2>1, OffDef
  <2>5. Off(ss, j) <= Off(ss, j + n)
    BY <1>4
  <2>6. Off(ss, j) <= Off(ss, i)
    BY SMT, <2>1, <2>3, <2>4, <2>5, <1>2
  <2> QED BY <2>1, <2>6 DEF i
<1> HIDE DEF T
<1>5. k - j \in T
  BY <1>1, <1>3, <1>4, Induction
<1> QED BY <1>1, <1>5 DEF T

LEMMA PreBegins ==
  ASSUME NEW ss, AllSeqs(ss), NEW j \in 0 .. Len(ss), NEW k \in j .. Len(ss),
         NEW p \in 1 .. Off(ss, j)
  PROVE  Pre(ss, k)[p] = Pre(ss, j)[p]
<1> DEFINE L == Len(ss)
           T == {n \in 0 .. L - j : Pre(ss, j + n)[p] = Pre(ss, j)[p]}
<1>1. AnySeq(ss) /\ L \in Nat /\ j \in Nat /\ L - j \in Nat /\ j + 0 = j /\ 0 \in 0 .. L - j
      /\ k - j \in 0 .. L - j /\ j + (k - j) = k
  BY SMT, SeqFacts DEF AllSeqs
<1>3. 0 \in T
  BY <1>1
<1>4. ASSUME NEW n \in 0 .. L - j - 1, n \in T PROVE n + 1 \in T
  <2> DEFINE i == j + (n + 1)
  <2>1. /\ n + 1 \in 0 .. L - j /\ i \in 1 .. L /\ i - 1 = j + n
        /\ j + n \in 0 .. L /\ j + n \in j .. L
    BY SMT, <1>1
  <2> HIDE DEF i
  <2>2. AnySeq(ss[i]) /\ AnySeq(Pre(ss, j + n))
    BY <2>1, PreDef DEF AllSeqs
  <2>3. Pre(ss, i) = Pre(ss, j + n) \o ss[i]
    <3>1. Pre(ss, i) = Pre(ss, i - 1) \o ss[i]
      BY <2>1, PreDef
    <3> QED BY <2>1, <3>1
  <2>4. Off(ss, j) <= Off(ss, j + n) /\ Off(ss, j) \in Nat /\ Off(ss, j + n) \in Nat
    BY <2>1, OffGrows, OffDef
  <2>5. p \in 1 .. Len(Pre(ss, j + n))
    BY SMT, <2>4 DEF Off
  <2>6. Pre(ss, i)[p] = Pre(ss, j + n)[p]
    <3>1. (Pre(ss, j + n) \o ss[i])[p] = Pre(ss, j + n)[p]
      BY <2>2, <2>5, Join
    <3> QED BY <2>3, <3>1
  <2> QED BY <2>1, <2>6, <1>4 DEF i
<1> HIDE DEF T
<1>5. k - j \in T
  BY <1>1, <1>3, <1>4, Induction
<1> QED BY <1>1, <1>5 DEF T

(* The words of the k-th piece.                                            *)
LEMMA FlatWords ==
  ASSUME NEW ss, AllSeqs(ss), NEW k \in 1 .. Len(ss), NEW i \in 1 .. Len(ss[k])
  PROVE  /\ Concat(ss)[Off(ss, k - 1) + i] = ss[k][i]
         /\ Off(ss, k - 1) + i \in 1 .. Len(Concat(ss))
<1>1. AnySeq(ss) /\ Len(ss) \in Nat /\ k - 1 \in 0 .. Len(ss) /\ k \in 0 .. Len(ss)
      /\ Len(ss) \in k .. Len(ss)
  BY SMT, SeqFacts DEF AllSeqs
<1>2. AnySeq(Pre(ss, k - 1)) /\ AnySeq(ss[k]) /\ Pre(ss, k) = Pre(ss, k - 1) \o ss[k]
      /\ Pre(ss, Len(ss)) = Concat(ss)
  BY <1>1, PreDef DEF AllSeqs
<1>3. Pre(ss, k)[Off(ss, k - 1) + i] = ss[k][i]
  <2> DEFINE s == Pre(ss, k - 1)
             t == ss[k]
  <2> HIDE DEF s, t
  <2>1. AnySeq(s) /\ AnySeq(t) /\ i \in 1 .. Len(t)
    BY <1>2 DEF s, t
  <2>2. \A l \in 1 .. Len(t) : (s \o t)[Len(s) + l] = t[l]
    BY SMT, <2>1, Join
  <2>3. (s \o t)[Len(s) + i] = t[i]
    BY <2>1, <2>2
  <2> QED BY <1>2, <2>3 DEF Off, s, t
<1>4. /\ Off(ss, k) = Off(ss, k - 1) + Len(ss[k]) /\ Off(ss, k - 1) \in Nat /\ Off(ss, k) \in Nat
      /\ Len(Concat(ss)) = Off(ss, Len(ss)) /\ Off(ss, Len(ss)) \in Nat
  <2>1. Len(ss) \in 0 .. Len(ss)
    BY SMT, <1>1
  <2> QED BY <1>1, <2>1, OffDef
<1>5. Off(ss, k) <= Off(ss, Len(ss))
  BY <1>1, OffGrows
<1>6. Len(ss[k]) \in Nat
  BY <1>2, SeqFacts
<1>7. Off(ss, k - 1) + i \in 1 .. Off(ss, k) /\ Off(ss, k - 1) + i \in 1 .. Len(Concat(ss))
  BY SMT, <1>4, <1>5, <1>6
<1>8. Pre(ss, Len(ss))[Off(ss, k - 1) + i] = Pre(ss, k)[Off(ss, k - 1) + i]
  BY <1>1, <1>7, PreBegins
<1> QED BY <1>2, <1>3, <1>7, <1>8

(* Every position is in one of the pieces.                                 *)
LEMMA Located ==
  ASSUME NEW ss, AllSeqs(ss), NEW p \in 1 .. Len(Concat(ss))
  PROVE  \E k \in 1 .. Len(ss) : \E i \in 1 .. Len(ss[k]) : p = Off(ss, k - 1) + i
<1> DEFINE U == {k \in 0 .. Len(ss) : p <= Off(ss, k)}
<1>1. AnySeq(ss) /\ Len(ss) \in Nat /\ Len(ss) \in 0 .. Len(ss)
  BY SMT, SeqFacts DEF AllSeqs
<1>2. \A k \in 0 .. Len(ss) : Off(ss, k) \in Nat
  BY OffDef
<1>3. p <= Off(ss, Len(ss)) /\ Off(ss, 0) = 0
  BY SMT, <1>1, <1>2, OffDef
<1>4. U \in SUBSET Nat /\ U # {}
  BY SMT, <1>1, <1>3
<1>5. PICK k \in U : \A j \in U : k <= j
  BY <1>4, LeastNat
<1>6. k \in 0 .. Len(ss) /\ p <= Off(ss, k) /\ k # 0
  BY SMT, <1>1, <1>2, <1>3, <1>5
<1>7. k \in 1 .. Len(ss) /\ k - 1 \in 0 .. Len(ss) /\ ~(k <= k - 1)
  BY SMT, <1>1, <1>6
<1>8. ~(p <= Off(ss, k - 1))
  BY <1>5, <1>7
<1>9. Off(ss, k) = Off(ss, k - 1) + Len(ss[k]) /\ Off(ss, k - 1) \in Nat
  BY <1>7, OffDef
<1>10. AnySeq(ss[k])
  BY <1>7 DEF AllSeqs
<1>11. Len(ss[k]) \in Nat
  BY <1>10, SeqFacts
<1>12. p - Off(ss, k - 1) \in 1 .. Len(ss[k]) /\ p = Off(ss, k - 1) + (p - Off(ss, k - 1))
  BY SMT, <1>6, <1>8, <1>9, <1>11
<1> QED BY <1>7, <1>12

Appended(t, ss, x) ==
    /\ AllSeqs(t) /\ Len(t) = Len(ss) + 1 /\ t[Len(ss) + 1] = x
    /\ \A i \in 1 .. Len(ss) : t[i] = ss[i]
    /\ Concat(t) = Concat(ss) \o x

LEMMA ConcatAppend ==
  ASSUME NEW ss, AllSeqs(ss), NEW x, AnySeq(x)
  PROVE  Appended(Append(ss, x), ss, x)
<1> DEFINE t == Append(ss, x)
           S == Range(ss) \cup {x}
<1>1. AnySeq(ss) /\ Len(ss) \in Nat
  BY SeqFacts DEF AllSeqs
<1>2. ss \in Seq(S)
  <2>1. ss \in Seq(Range(ss)) /\ Range(ss) \subseteq S
    BY <1>1 DEF AnySeq
  <2> HIDE DEF S
  <2> QED BY SMT, <2>1
<1>3. x \in S
  OBVIOUS
<1> HIDE DEF S
<1>4. /\ t \in Seq(S) /\ Len(t) = Len(ss) + 1 /\ t[Len(ss) + 1] = x
      /\ \A i \in 1 .. Len(ss) : t[i] = ss[i]
  BY SMT, <1>2, <1>3
<1>5. AnySeq(t)
  BY <1>4, SeqAny
<1>6. \A i \in 1 .. Len(t) : i \in 1 .. Len(ss) \/ i = Len(ss) + 1
  BY SMT, <1>1, <1>4
<1>7. AllSeqs(t)
  BY <1>4, <1>5, <1>6 DEF AllSeqs
<1>8. /\ Len(t) \in 1 .. Len(t) /\ Len(t) - 1 = Len(ss) /\ Len(ss) \in 0 .. Len(t)
      /\ Len(ss) \in 0 .. Len(ss)
  BY SMT, <1>1, <1>4
<1> HIDE DEF t
<1>9. Concat(t) = Pre(t, Len(t)) /\ Pre(t, Len(t)) = Pre(t, Len(ss)) \o x
  BY <1>4, <1>7, <1>8, PreDef
<1>10. First(t, Len(ss)) = ss
  <2>1. AnySeq(First(t, Len(ss))) /\ Len(First(t, Len(ss))) = Len(ss)
        /\ \A i \in 1 .. Len(ss) : First(t, Len(ss))[i] = t[i]
    BY <1>5, <1>8, FirstDef
  <2> QED BY <2>1, <1>1, <1>4, SameSeq
<1> QED BY <1>4, <1>7, <1>9, <1>10 DEF Pre, t, Appended

-----------------------------------------------------------------------------
(* Words                                                                   *)
SealedWord(key, iv, plain, i) == [key |-> key, iv |-> iv, plain |-> plain, at |-> i]

LEMMA PlainWords ==
  ASSUME NEW n
  PROVE  /\ ~Has([num |-> n], "plain") /\ Number([num |-> n]) = n
         /\ ~Has([iv |-> n], "plain") /\ Number([iv |-> n]) = Noise
         /\ ~Has([magic |-> n], "plain")
  BY SMT DEF Has, Number

LEMMA SealedWords ==
  ASSUME NEW key, NEW iv, NEW plain, NEW i
  PROVE  LET w == SealedWord(key, iv, plain, i) IN
         /\ Has(w, "plain") /\ Number(w) = Noise
         /\ w.key = key /\ w.iv = iv /\ w.plain = plain /\ w.at = i
  BY SMT DEF Has, Number, SealedWord

LEMMA SameNumber ==
  ASSUME NEW m, NEW n, [num |-> m] = [num |-> n]
  PROVE  m = n
<1>1. [num |-> m].num = m /\ [num |-> n].num = n
  OBVIOUS
<1> QED BY <1>1

LEMMA SealDef ==
  ASSUME NEW key, NEW iv, NEW plain, AnySeq(plain)
  PROVE  /\ AnySeq(Seal(key, iv, plain)) /\ Len(Seal(key, iv, plain)) = Len(plain) + TagSize
         /\ \A i \in 1 .. Len(plain) + TagSize : Seal(key, iv, plain)[i] = SealedWord(key, iv, plain, i)
         /\ 1 \in 1 .. Len(plain) + TagSize /\ Len(plain) + TagSize \in Nat
<1>1. Len(plain) + TagSize \in Nat /\ 1 \in 1 .. Len(plain) + TagSize
  BY SMT, SeqFacts, FormatAssumption
<1>2. \A i \in 1 .. Len(plain) + TagSize : Seal(key, iv, plain)[i] = SealedWord(key, iv, plain, i)
  BY DEF Seal, SealedWord
<1>3. Seal(key, iv, plain) = [i \in 1 .. Len(plain) + TagSize |-> Seal(key, iv, plain)[i]]
  BY DEF Seal
<1>4. AnySeq(Seal(key, iv, plain)) /\ Len(Seal(key, iv, plain)) = Len(plain) + TagSize
  BY <1>1, <1>3, MakeSeq
<1> QED BY <1>1, <1>2, <1>4

LEMMA OpenSeal ==
  ASSUME NEW key, NEW iv, NEW plain, AnySeq(plain)
  PROVE  Open(key, iv, Seal(key, iv, plain)) = Ok(plain)
<1> DEFINE s == Seal(key, iv, plain)
<1>1. s[1] = SealedWord(key, iv, plain, 1) /\ AnySeq(s) /\ Len(s) = Len(plain) + TagSize
      /\ 1 \in 1 .. Len(plain) + TagSize
  BY SealDef
<1>2. s # <<>>
  <2>1. Len(s) # 0
    BY SMT, <1>1
  <2> QED BY <1>1, <2>1, SeqFacts
<1>3. Has(s[1], "plain") /\ s[1].plain = plain
  <2>1. /\ Has(SealedWord(key, iv, plain, 1), "plain")
        /\ SealedWord(key, iv, plain, 1).plain = plain
    BY SMT, SealedWords
  <2> QED BY <1>1, <2>1
<1> QED BY <1>2, <1>3 DEF Open

(* What opens is what was sealed.                                          *)
LEMMA OpenOk ==
  ASSUME NEW key, NEW iv, NEW d, Open(key, iv, d).ok = TRUE
  PROVE  /\ d # <<>> /\ Has(d[1], "plain") /\ d = Seal(key, iv, d[1].plain)
         /\ Open(key, iv, d) = Ok(d[1].plain)
<1>1. Err.ok = FALSE
  BY DEF Err
<1> QED BY <1>1 DEF Open

LEMMA IVDef ==
  ASSUME NEW n, NEW id
  PROVE  /\ AnySeq(IV(n, id)) /\ Len(IV(n, id)) = IVSize
         /\ 1 \in 1 .. IVSize /\ IVSize \in Nat /\ IV(n, id)[1] = [num |-> n]
         /\ \A i \in 2 .. IVSize : IV(n, id)[i] = [iv |-> id]
         /\ \A i \in 1 .. IVSize : ~Has(IV(n, id)[i], "plain")
<1>1. IVSize \in Nat /\ 1 \in 1 .. IVSize /\ \A i \in 2 .. IVSize : i \in 1 .. IVSize /\ i # 1
  BY SMT, FormatAssumption
<1>2. \A i \in 1 .. IVSize : IV(n, id)[i] = IF i = 1 THEN [num |-> n] ELSE [iv |-> id]
  BY DEF IV
<1>3. IV(n, id) = [i \in 1 .. IVSize |-> IV(n, id)[i]]
  BY DEF IV
<1>4. AnySeq(IV(n, id)) /\ Len(IV(n, id)) = IVSize
  BY <1>1, <1>3, MakeSeq
<1>5. \A i \in 1 .. IVSize : ~Has(IV(n, id)[i], "plain")
  <2>1. ~Has([num |-> n], "plain") /\ ~Has([iv |-> id], "plain")
    BY PlainWords
  <2> QED BY <1>2, <2>1
<1> QED BY <1>1, <1>2, <1>4, <1>5

LEMMA CeilDivDef ==
  ASSUME NEW n \in Nat, NEW d \in Nat \ {0}
  PROVE  CeilDiv(n, d) \in Nat /\ n <= CeilDiv(n, d) * d /\ CeilDiv(n, d) * d < n + d
<1>1. n + d - 1 \in Nat
  BY SMT
<1>2. \A m \in Nat : m \div d \in Nat /\ d * (m \div d) <= m /\ m < d * (m \div d) + d
  BY SMT
<1> QED BY SMT, <1>1, <1>2 DEF CeilDiv

LEMMA ZstdDef ==
  ASSUME NEW x, AnySeq(x), Len(x) > 1
  PROVE  /\ AnySeq(ZstdFrame(x)) /\ Len(ZstdFrame(x)) = CeilDiv(Len(x), 2)
         /\ IsCompressed(ZstdFrame(x)) /\ Decompress(ZstdFrame(x)) = Ok(x)
<1> DEFINE z == ZstdFrame(x)
           n == CeilDiv(Len(x), 2)
<1>1. Len(x) \in Nat
  BY SeqFacts
<1>2. n \in Nat /\ Len(x) <= n * 2
  BY SMT, <1>1, CeilDivDef
<1>3. 1 \in 1 .. n /\ n # 0
  BY SMT, <1>1, <1>2
<1>4. z = [i \in 1 .. n |-> z[i]] /\ z[1] = [zip |-> x, at |-> 1]
  BY <1>3 DEF ZstdFrame
<1>5. AnySeq(z) /\ Len(z) = n
  BY <1>2, <1>4, MakeSeq
<1>6. z # <<>>
  BY <1>3, <1>5, SeqFacts
<1>7. Has(z[1], "zip") /\ z[1].zip = x
  BY SMT, <1>4 DEF Has
<1>8. IsCompressed(z)
  BY <1>6, <1>7 DEF IsCompressed
<1>9. Decompress(z) = Ok(x)
  BY <1>7, <1>8 DEF Decompress
<1> QED BY <1>5, <1>8, <1>9

-----------------------------------------------------------------------------
(* One chunk, as stored and as read                                        *)
HeadLen(format) == IF format = "GB1" THEN 0 ELSE 2

LEMMA Numbers ==
  ASSUME NEW m, NEW n
  PROVE  /\ AnySeq(Num(m)) /\ Len(Num(m)) = 1 /\ Num(m)[1] = [num |-> m]
         /\ AnySeq(Num(m) \o Num(n)) /\ Len(Num(m) \o Num(n)) = 2
         /\ (Num(m) \o Num(n))[1] = [num |-> m] /\ (Num(m) \o Num(n))[2] = [num |-> n]
<1> DEFINE a == Num(m)
           b == Num(n)
<1>1. AnySeq(a) /\ Len(a) = 1 /\ a[1] = [num |-> m] /\ AnySeq(b) /\ Len(b) = 1 /\ b[1] = [num |-> n]
  BY OneWord DEF Num
<1> HIDE DEF a, b
<1>2. /\ AnySeq(a \o b) /\ Len(a \o b) = Len(a) + Len(b)
      /\ \A i \in 1 .. Len(a) : (a \o b)[i] = a[i]
  BY <1>1, Join
<1>3. \A i \in 1 .. 1 : (a \o b)[1 + i] = b[i]
  BY SMT, <1>1, JoinRight
<1>4. Len(a \o b) = 2 /\ (a \o b)[1] = a[1] /\ (a \o b)[2] = b[1]
  BY SMT, <1>1, <1>2, <1>3
<1> QED BY <1>1, <1>2, <1>4 DEF a, b

Bit(c) == IF c THEN 1 ELSE 0

IsFrame(fr, format, i, stored, c) ==
    LET h == HeadLen(format) IN
    /\ AnySeq(fr) /\ h \in Nat /\ Len(fr) = h + IVSize + (Len(stored) + TagSize)
    /\ \A j \in 1 .. IVSize : fr[h + j] = IV(0, i)[j]
    /\ \A j \in 1 .. Len(stored) + TagSize :
          fr[h + IVSize + j] = SealedWord(Key, IV(0, i), stored, j)
    /\ format # "GB1" => /\ fr[1] = [num |-> Len(stored) + TagSize]
                         /\ fr[2] = [num |-> Bit(c)]

LEMMA FrameDef ==
  ASSUME NEW format, NEW i, NEW stored, AnySeq(stored), NEW c
  PROVE  IsFrame(Frame(format, Key, i, stored, c), format, i, stored, c)
<1> DEFINE h == HeadLen(format)
           iv == IV(0, i)
           sealed == Seal(Key, iv, stored)
           head == IF format = "GB1" THEN <<>>
                   ELSE Num(Len(sealed)) \o Num(IF c THEN 1 ELSE 0)
           fr == (head \o iv) \o sealed
<1>1. Frame(format, Key, i, stored, c) = fr
  BY DEF Frame
<1>2. AnySeq(iv) /\ Len(iv) = IVSize /\ IVSize \in Nat
  BY IVDef
<1>3. /\ AnySeq(sealed) /\ Len(sealed) = Len(stored) + TagSize /\ Len(stored) + TagSize \in Nat
      /\ \A j \in 1 .. Len(stored) + TagSize : sealed[j] = SealedWord(Key, iv, stored, j)
  BY SealDef
<1>4. /\ AnySeq(head) /\ Len(head) = h /\ h \in Nat
      /\ format # "GB1" => /\ h = 2 /\ head[1] = [num |-> Len(stored) + TagSize]
                           /\ head[2] = [num |-> Bit(c)]
  <2>1. CASE format = "GB1"
    <3>1. head = <<>> /\ h = 0
      BY <2>1 DEF HeadLen
    <3> QED BY SMT, <2>1, <3>1, NoWords
  <2>2. CASE format # "GB1"
    <3>1. head = Num(Len(stored) + TagSize) \o Num(IF c THEN 1 ELSE 0) /\ h = 2
      BY <2>2, <1>3 DEF HeadLen
    <3>2. 2 \in Nat
      BY SMT
    <3> HIDE DEF head, h
    <3> DEFINE m == Len(stored) + TagSize
               n == Bit(c)
    <3>3. head = Num(m) \o Num(n)
      BY <3>1 DEF Bit
    <3> HIDE DEF m, n
    <3>4. /\ AnySeq(Num(m) \o Num(n)) /\ Len(Num(m) \o Num(n)) = 2
          /\ (Num(m) \o Num(n))[1] = [num |-> m] /\ (Num(m) \o Num(n))[2] = [num |-> n]
      BY SMT, Numbers
    <3>5. AnySeq(head) /\ Len(head) = 2 /\ head[1] = [num |-> m] /\ head[2] = [num |-> n]
      BY <3>3, <3>4
    <3> QED BY <3>1, <3>2, <3>5 DEF m, n
  <2> QED BY <2>1, <2>2
<1> HIDE DEF iv, sealed, head, h
<1>5. /\ AnySeq(head \o iv) /\ Len(head \o iv) = h + IVSize
      /\ \A j \in 1 .. h : (head \o iv)[j] = head[j]
      /\ \A j \in 1 .. IVSize : (head \o iv)[h + j] = iv[j]
  <2>a. AnySeq(head) /\ AnySeq(iv)
    BY <1>2, <1>4
  <2>1. /\ AnySeq(head \o iv) /\ Len(head \o iv) = Len(head) + Len(iv)
        /\ \A j \in 1 .. Len(head) : (head \o iv)[j] = head[j]
    BY ONLY Zenon, <2>a, Join
  <2>2. \A j \in 1 .. IVSize : (head \o iv)[h + j] = iv[j]
    BY SMT, <1>2, <1>4, JoinRight
  <2> QED BY <2>1, <2>2, <1>2, <1>4
<1> DEFINE front == head \o iv
<1>6. /\ AnySeq(front) /\ Len(front) = h + IVSize
      /\ \A j \in 1 .. h : front[j] = head[j]
      /\ \A j \in 1 .. IVSize : front[h + j] = iv[j]
  BY <1>5
<1> HIDE DEF front
<1>7. /\ AnySeq(front \o sealed) /\ Len(front \o sealed) = h + IVSize + (Len(stored) + TagSize)
      /\ \A j \in 1 .. h + IVSize : (front \o sealed)[j] = front[j]
      /\ \A j \in 1 .. Len(stored) + TagSize : (front \o sealed)[h + IVSize + j] = sealed[j]
  <2>a. AnySeq(front) /\ AnySeq(sealed)
    BY <1>3, <1>6
  <2>1. /\ AnySeq(front \o sealed) /\ Len(front \o sealed) = Len(front) + Len(sealed)
        /\ \A j \in 1 .. Len(front) : (front \o sealed)[j] = front[j]
    BY ONLY Zenon, <2>a, Join
  <2>2. \A j \in 1 .. Len(stored) + TagSize : (front \o sealed)[h + IVSize + j] = sealed[j]
    BY SMT, <1>3, <1>6, JoinRight
  <2> QED BY <2>1, <2>2, <1>3, <1>6
<1>8. /\ \A j \in 1 .. h : j \in 1 .. h + IVSize
      /\ \A j \in 1 .. IVSize : h + j \in 1 .. h + IVSize
      /\ h = 2 => 1 \in 1 .. h /\ 2 \in 1 .. h
  BY SMT, <1>2, <1>4
<1>9. \A j \in 1 .. IVSize : (front \o sealed)[h + j] = iv[j]
  BY <1>6, <1>7, <1>8
<1>10. \A j \in 1 .. h : (front \o sealed)[j] = head[j]
  BY <1>6, <1>7, <1>8
<1>11. format # "GB1" => /\ (front \o sealed)[1] = [num |-> Len(stored) + TagSize]
                         /\ (front \o sealed)[2] = [num |-> Bit(c)]
  BY <1>4, <1>8, <1>10
<1>12. \A j \in 1 .. Len(stored) + TagSize :
          (front \o sealed)[h + IVSize + j] = SealedWord(Key, iv, stored, j)
  BY <1>3, <1>7
<1>13. Frame(format, Key, i, stored, c) = front \o sealed
  BY <1>1 DEF front
<1> QED BY <1>4, <1>7, <1>9, <1>11, <1>12, <1>13 DEF iv, h, IsFrame

(* One chunk, off what is left of the data.                                *)
Step(format, rest, max) ==
    IF format = "GB1" THEN FrameGB1(Key, rest) ELSE FrameSized(Key, format, rest, max)

Begins(fr, rest) == Len(fr) <= Len(rest) /\ \A p \in 1 .. Len(fr) : rest[p] = fr[p]

LEMMA LeavingDef ==
  ASSUME NEW r, NEW rest
  PROVE  /\ Leaving(r, rest).ok = r.ok /\ Leaving(r, rest).out = r.out
         /\ Leaving(r, rest).rest = rest
  BY DEF Leaving

LEMMA OkDef ==
  ASSUME NEW x
  PROVE  Ok(x).ok = TRUE /\ Ok(x).out = x /\ Err.ok = FALSE /\ Broken.ok = FALSE
  BY DEF Ok, Err, Broken, Leaving

HasParts(rest, format, i, stored, c) ==
    LET h == HeadLen(format)
        end == h + IVSize + (Len(stored) + TagSize) IN
    /\ h \in Nat /\ IVSize \in Nat /\ Len(stored) \in Nat /\ TagSize \in Nat
    /\ Len(rest) \in Nat /\ end <= Len(rest)
    /\ Len(Frame(format, Key, i, stored, c)) = end
    /\ SubSeq(rest, h + 1, h + IVSize) = IV(0, i)
    /\ SubSeq(rest, h + IVSize + 1, end) = Seal(Key, IV(0, i), stored)
    /\ format # "GB1" => /\ rest[1] = [num |-> Len(stored) + TagSize]
                         /\ rest[2] = [num |-> Bit(c)]

LEMMA FrameParts ==
  ASSUME NEW format, NEW i, NEW stored, AnySeq(stored), NEW c, NEW rest, AnySeq(rest),
         Begins(Frame(format, Key, i, stored, c), rest)
  PROVE  HasParts(rest, format, i, stored, c)
<1> DEFINE h == HeadLen(format)
           size == Len(stored) + TagSize
           end == h + IVSize + size
           fr == Frame(format, Key, i, stored, c)
           iv == IV(0, i)
           sealed == Seal(Key, iv, stored)
<1>1. /\ AnySeq(fr) /\ h \in Nat /\ Len(fr) = end
      /\ \A j \in 1 .. IVSize : fr[h + j] = iv[j]
      /\ \A j \in 1 .. size : fr[h + IVSize + j] = SealedWord(Key, iv, stored, j)
      /\ format # "GB1" => /\ fr[1] = [num |-> size]
                           /\ fr[2] = [num |-> Bit(c)]
  <2>1. IsFrame(fr, format, i, stored, c)
    BY FrameDef
  <2> HIDE DEF fr, iv
  <2> QED BY <2>1 DEF IsFrame, iv
<1>2. AnySeq(iv) /\ Len(iv) = IVSize /\ IVSize \in Nat
  BY IVDef
<1>3. /\ AnySeq(sealed) /\ Len(sealed) = size /\ size \in Nat
      /\ \A j \in 1 .. size : sealed[j] = SealedWord(Key, iv, stored, j)
  BY SealDef
<1>4. Len(stored) \in Nat /\ TagSize \in Nat /\ Len(rest) \in Nat
  BY SeqFacts, FormatAssumption
<1>5. end <= Len(rest) /\ \A p \in 1 .. end : rest[p] = fr[p]
  BY <1>1 DEF Begins
<1>6. format # "GB1" => h = 2
  BY DEF HeadLen
<1> HIDE DEF h, size, fr, iv, sealed
<1>7. SubSeq(rest, h + 1, h + IVSize) = iv
  <2> DEFINE m == h + 1
             n == h + IVSize
             t == SubSeq(rest, m, n)
  <2>1. m \in 1 .. Len(rest) + 1 /\ n \in m - 1 .. Len(rest) /\ n - m + 1 = IVSize
        /\ \A j \in 1 .. IVSize : m + j - 1 = h + j /\ h + j \in 1 .. end
    BY SMT, <1>1, <1>2, <1>3, <1>4, <1>5
  <2> HIDE DEF m, n
  <2>2. AnySeq(t) /\ Len(t) = IVSize /\ \A j \in 1 .. IVSize : t[j] = rest[m + j - 1]
    <3>1. AnySeq(t) /\ Len(t) = n - m + 1 /\ \A j \in 1 .. n - m + 1 : t[j] = rest[m + j - 1]
      BY <2>1, Piece
    <3> QED BY <3>1, <2>1
  <2>3. ASSUME NEW j \in 1 .. IVSize PROVE t[j] = iv[j]
    <3>1. t[j] = rest[m + j - 1] /\ m + j - 1 = h + j /\ h + j \in 1 .. end
      BY <2>1, <2>2
    <3>2. rest[h + j] = fr[h + j] /\ fr[h + j] = iv[j]
      BY <3>1, <1>1, <1>5
    <3> QED BY <3>1, <3>2
  <2>4. t = iv
    BY <2>2, <2>3, <1>2, SameSeq
  <2> QED BY <2>4 DEF m, n
<1>8. SubSeq(rest, h + IVSize + 1, end) = sealed
  <2> DEFINE m == h + IVSize + 1
             n == end
             t == SubSeq(rest, m, n)
  <2>1. m \in 1 .. Len(rest) + 1 /\ n \in m - 1 .. Len(rest) /\ n - m + 1 = size
        /\ \A j \in 1 .. size : m + j - 1 = h + IVSize + j /\ h + IVSize + j \in 1 .. end
    BY SMT, <1>1, <1>2, <1>3, <1>4, <1>5
  <2> HIDE DEF m, n
  <2>2. AnySeq(t) /\ Len(t) = size /\ \A j \in 1 .. size : t[j] = rest[m + j - 1]
    <3>1. AnySeq(t) /\ Len(t) = n - m + 1 /\ \A j \in 1 .. n - m + 1 : t[j] = rest[m + j - 1]
      BY <2>1, Piece
    <3> QED BY <3>1, <2>1
  <2>3. ASSUME NEW j \in 1 .. size PROVE t[j] = sealed[j]
    <3>1. t[j] = rest[m + j - 1] /\ m + j - 1 = h + IVSize + j /\ h + IVSize + j \in 1 .. end
      BY <2>1, <2>2
    <3>2. rest[h + IVSize + j] = fr[h + IVSize + j] /\ fr[h + IVSize + j] = sealed[j]
      BY <3>1, <1>1, <1>3, <1>5
    <3> QED BY <3>1, <3>2
  <2>4. t = sealed
    BY <2>2, <2>3, <1>3, SameSeq
  <2> QED BY <2>4 DEF m, n
<1>9. format # "GB1" => rest[1] = fr[1] /\ rest[2] = fr[2]
  <2>1. h = 2 => 1 \in 1 .. end /\ 2 \in 1 .. end
    BY SMT, <1>1, <1>2, <1>3
  <2> QED BY <2>1, <1>5, <1>6
<1> QED BY <1>1, <1>2, <1>4, <1>5, <1>7, <1>8, <1>9 DEF HasParts, h, size, fr, iv, sealed

(* A stored chunk is read back, and what follows it is left.               *)
Fits(format, i, stored, c, rest, max) ==
    /\ format = "GB1" => /\ Len(stored) <= chunkSize /\ c = FALSE
                         /\ \/ Len(stored) = chunkSize
                            \/ Len(rest) = Len(Frame(format, Key, i, stored, c))
    /\ format # "GB1" => Len(stored) + TagSize <= max /\ max \in Nat

Got(c, stored) == IF c THEN Decompress(stored) ELSE Ok(stored)

LEMMA FrameReads ==
  ASSUME NEW format \in {"GB1", "GB2", "GB3"}, NEW i, NEW stored, AnySeq(stored),
         NEW c \in BOOLEAN, NEW rest, AnySeq(rest), NEW max,
         Begins(Frame(format, Key, i, stored, c), rest), Fits(format, i, stored, c, rest, max)
  PROVE  Step(format, rest, max) =
           Leaving(Got(c, stored), After(rest, Len(Frame(format, Key, i, stored, c))))
<1> DEFINE h == HeadLen(format)
           size == Len(stored) + TagSize
           end == h + IVSize + size
           iv == IV(0, i)
           sealed == Seal(Key, iv, stored)
<1>1. /\ h \in Nat /\ IVSize \in Nat /\ Len(stored) \in Nat /\ TagSize \in Nat
      /\ Len(rest) \in Nat /\ end <= Len(rest)
      /\ Len(Frame(format, Key, i, stored, c)) = end
      /\ SubSeq(rest, h + 1, h + IVSize) = iv
      /\ SubSeq(rest, h + IVSize + 1, end) = sealed
      /\ format # "GB1" => /\ rest[1] = [num |-> size]
                           /\ rest[2] = [num |-> Bit(c)]
  <2>1. HasParts(rest, format, i, stored, c)
    BY FrameParts
  <2> QED BY <2>1 DEF HasParts
<1>2. Open(Key, iv, sealed) = Ok(stored)
  BY OpenSeal
<1>5. /\ format = "GB1" => /\ Len(stored) <= chunkSize /\ c = FALSE
                           /\ Len(stored) = chunkSize \/ Len(rest) = end
      /\ format # "GB1" => size <= max /\ max \in Nat
  BY <1>1 DEF Fits
<1> HIDE DEF iv, sealed
<1>3. CASE format = "GB1"
  <2>1. h = 0 /\ chunkSize \in Nat
    BY <1>3, FormatAssumption DEF HeadLen
  <2>2. /\ 0 + 1 = 1 /\ 0 + IVSize = IVSize /\ end = IVSize + size
        /\ ~(Len(rest) < IVSize) /\ Least(IVSize + chunkSize + TagSize, Len(rest)) = end
    <3>1. \/ Len(stored) = chunkSize \/ Len(rest) = end
      BY <1>3, <1>5
    <3>2. Len(stored) <= chunkSize
      BY <1>3, <1>5
    <3>3. end = IVSize + (Len(stored) + TagSize) /\ end <= Len(rest)
      BY SMT, <1>1, <2>1
    <3>4. IVSize \in Nat /\ Len(stored) \in Nat /\ TagSize \in Nat /\ Len(rest) \in Nat
      BY <1>1
    <3> HIDE DEF end
    <3> QED BY SMT, <2>1, <3>1, <3>2, <3>3, <3>4 DEF Least
  <2> HIDE DEF h, size
  <2>3. First(rest, IVSize) = iv /\ SubSeq(rest, IVSize + 1, end) = sealed
    BY <1>1, <2>1, <2>2 DEF First
  <2>4. FrameGB1(Key, rest) = Leaving(Ok(stored), After(rest, end))
    BY <1>2, <2>2, <2>3 DEF FrameGB1
  <2> QED BY <1>1, <1>3, <1>5, <2>4 DEF Step, Got
<1>4. CASE format # "GB1"
  <2>1. h = 2
    BY <1>4 DEF HeadLen
  <2>2. /\ h + 1 = 3 /\ h + IVSize = 2 + IVSize /\ h + IVSize + 1 = 3 + IVSize
        /\ end = 2 + IVSize + size
        /\ ~(Len(rest) < 2 + IVSize) /\ ~(size > max) /\ ~(Len(rest) < end)
    BY SMT, <1>1, <1>4, <1>5, <2>1
  <2> HIDE DEF h
  <2>3. SubSeq(rest, 3, 2 + IVSize) = iv /\ SubSeq(rest, 3 + IVSize, end) = sealed
    BY <1>1, <2>2
  <2>4. Number(rest[1]) = size /\ Number(rest[2]) = Bit(c)
    <3> DEFINE flag == Bit(c)
    <3> HIDE DEF flag, size
    <3>1. Number([num |-> size]) = size /\ Number([num |-> flag]) = flag
      BY PlainWords
    <3>2. rest[1] = [num |-> size] /\ rest[2] = [num |-> flag]
      BY <1>1, <1>4 DEF size, flag
    <3>3. Number(rest[1]) = size /\ Number(rest[2]) = flag
      BY <3>1, <3>2
    <3> QED BY <3>3 DEF flag, size
  <2>5. (IF format = "GB2" THEN Number(rest[2]) # 0 ELSE Number(rest[2]) % 2 = 1) <=> c
    <3>1. 1 % 2 = 1 /\ 0 % 2 = 0 /\ 1 # 0
      BY SMT
    <3> QED BY <2>4, <3>1 DEF Bit
  <2>6. FrameSized(Key, format, rest, max) =
          Leaving(IF c THEN Decompress(stored) ELSE Ok(stored), After(rest, end))
    <3> DEFINE opened == Open(Key, SubSeq(rest, 3, 2 + IVSize), SubSeq(rest, 3 + IVSize, end))
               compressed == IF format = "GB2" THEN Number(rest[2]) # 0
                             ELSE Number(rest[2]) % 2 = 1
    <3>1. opened = Ok(stored)
      BY <1>2, <2>3
    <3>2. opened.ok = TRUE /\ opened.out = stored
      BY <3>1, OkDef
    <3>3. FrameSized(Key, format, rest, max) =
            Leaving(IF opened.ok /\ compressed THEN Decompress(opened.out) ELSE opened,
                    After(rest, end))
      <4> HIDE DEF end, size
      <4>1. Number(rest[1]) = size /\ 2 + IVSize + size = end
        BY <2>2, <2>4
      <4>2. FrameSized(Key, format, rest, max) =
              IF Len(rest) < 2 + IVSize \/ Number(rest[1]) > max
                   \/ Len(rest) < 2 + IVSize + Number(rest[1]) THEN Broken
              ELSE Leaving(IF Open(Key, SubSeq(rest, 3, 2 + IVSize),
                                   SubSeq(rest, 3 + IVSize, 2 + IVSize + Number(rest[1]))).ok /\ compressed
                           THEN Decompress(Open(Key, SubSeq(rest, 3, 2 + IVSize),
                                   SubSeq(rest, 3 + IVSize, 2 + IVSize + Number(rest[1]))).out)
                           ELSE Open(Key, SubSeq(rest, 3, 2 + IVSize),
                                   SubSeq(rest, 3 + IVSize, 2 + IVSize + Number(rest[1]))),
                           After(rest, 2 + IVSize + Number(rest[1])))
        BY DEF FrameSized
      <4> HIDE DEF compressed
      <4> QED BY <4>1, <4>2, <2>2
    <3> HIDE DEF opened
    <3> QED BY <2>5, <3>1, <3>2, <3>3
  <2> QED BY <1>1, <1>4, <2>6 DEF Step, Got
<1> QED BY <1>3, <1>4

(* What a decoder makes of any data: a chunk that is accepted begins with  *)
(* the first word of a ciphertext, and is that ciphertext.                 *)
Readable(s) ==
    /\ AnySeq(s)
    /\ \A p \in 1 .. Len(s) : /\ Number(s[p]) \in Nat
                              /\ Has(s[p], "plain") => AnySeq(s[p].plain)

Reads(s, from, to) ==
    LET w == s[from + 1] IN
    /\ Has(w, "plain") /\ to = from + (Len(w.plain) + TagSize) /\ to <= Len(s)
    /\ \A j \in 1 .. Len(w.plain) + TagSize : s[from + j] = SealedWord(Key, w.iv, w.plain, j)

LEMMA OpenReads ==
  ASSUME NEW s, Readable(s), NEW from \in 0 .. Len(s), NEW to \in from .. Len(s), NEW iv,
         Open(Key, iv, SubSeq(s, from + 1, to)).ok = TRUE
  PROVE  /\ Reads(s, from, to) /\ s[from + 1].iv = iv /\ from + 1 \in 1 .. Len(s)
         /\ s[from + 1].at = 1
<1> DEFINE m == from + 1
           d == SubSeq(s, m, to)
           w == s[m]
<1>1. AnySeq(s) /\ Len(s) \in Nat
  BY SeqFacts DEF Readable
<1>2. m \in 1 .. Len(s) + 1 /\ to \in m - 1 .. Len(s) /\ to - m + 1 = to - from
      /\ \A j \in 1 .. to - from : m + j - 1 = from + j
  BY SMT, <1>1
<1> HIDE DEF m
<1>3. AnySeq(d) /\ Len(d) = to - from /\ \A j \in 1 .. to - from : d[j] = s[from + j]
  <2>1. AnySeq(d) /\ Len(d) = to - m + 1 /\ \A j \in 1 .. to - m + 1 : d[j] = s[m + j - 1]
    BY <1>1, <1>2, Piece
  <2> QED BY <2>1, <1>2
<1>4. Open(Key, iv, d).ok = TRUE
  BY DEF m
<1> HIDE DEF d
<1>5. d # <<>> /\ Has(d[1], "plain") /\ d = Seal(Key, iv, d[1].plain)
  BY <1>4, OpenOk
<1>6. Len(d) # 0
  BY <1>3, <1>5, SeqFacts
<1>7. 1 \in 1 .. to - from /\ m \in 1 .. Len(s)
  BY SMT, <1>1, <1>3, <1>6 DEF m
<1>8. d[1] = w
  BY <1>3, <1>7 DEF m
<1>9. AnySeq(w.plain)
  BY <1>5, <1>7, <1>8 DEF Readable
<1> DEFINE n == Len(w.plain) + TagSize
           sealed == Seal(Key, iv, w.plain)
<1>10. /\ Len(sealed) = n /\ 1 \in 1 .. n
       /\ \A j \in 1 .. n : sealed[j] = SealedWord(Key, iv, w.plain, j)
  <2> DEFINE x == w.plain
  <2> HIDE DEF x
  <2>1. AnySeq(x)
    BY <1>9 DEF x
  <2>2. /\ Len(Seal(Key, iv, x)) = Len(x) + TagSize /\ 1 \in 1 .. Len(x) + TagSize
        /\ \A j \in 1 .. Len(x) + TagSize : Seal(Key, iv, x)[j] = SealedWord(Key, iv, x, j)
    BY <2>1, SealDef
  <2> QED BY <2>2 DEF x
<1>11. d = sealed
  BY <1>5, <1>8
<1> HIDE DEF sealed, n, w
<1>12. to - from = n
  BY <1>3, <1>10, <1>11
<1>13. to = from + n /\ to <= Len(s)
  BY SMT, <1>1, <1>12
<1>14. \A j \in 1 .. n : s[from + j] = SealedWord(Key, iv, w.plain, j)
  BY <1>3, <1>10, <1>11, <1>12
<1>15. w = SealedWord(Key, iv, w.plain, 1)
  BY <1>8, <1>10, <1>11
<1>16. w.iv = iv /\ w.at = 1
  <2> DEFINE x == w.plain
  <2> HIDE DEF x
  <2>1. SealedWord(Key, iv, x, 1).iv = iv /\ SealedWord(Key, iv, x, 1).at = 1
    BY SMT, SealedWords
  <2>2. w = SealedWord(Key, iv, x, 1)
    BY <1>15 DEF x
  <2> QED BY <2>1, <2>2
<1>17. Has(w, "plain")
  BY <1>5, <1>8
<1>18. Reads(s, from, to)
  BY <1>13, <1>14, <1>16, <1>17 DEF Reads, w, m, n
<1> QED BY <1>7, <1>16, <1>18 DEF w, m

(* Where the ciphertext begins does not depend on the data.                *)
LEMMA StepReads ==
  ASSUME NEW format, NEW rest, Readable(rest), NEW max, Step(format, rest, max).ok = TRUE
  PROVE  LET from == HeadLen(format) + IVSize IN
         \E to \in from .. Len(rest) :
            /\ Reads(rest, from, to) /\ from + 1 \in 1 .. Len(rest)
            /\ rest[from + 1].at = 1
            /\ Step(format, rest, max).rest = After(rest, to)
<1> DEFINE from == HeadLen(format) + IVSize
<1>1. AnySeq(rest) /\ Len(rest) \in Nat /\ IVSize \in Nat /\ chunkSize \in Nat /\ TagSize \in Nat
  BY SeqFacts, FormatAssumption DEF Readable
<1>2. CASE format = "GB1"
  <2> DEFINE to == Least(IVSize + chunkSize + TagSize, Len(rest))
             opened == Open(Key, First(rest, IVSize), SubSeq(rest, IVSize + 1, to))
  <2>1. from = IVSize
    BY SMT, <1>1, <1>2 DEF HeadLen
  <2>2. Step(format, rest, max) = FrameGB1(Key, rest)
    BY <1>2 DEF Step
  <2>3. ~(Len(rest) < IVSize)
    BY <2>2, OkDef DEF FrameGB1
  <2>4. Step(format, rest, max) = Leaving(opened, After(rest, to))
    BY <2>2, <2>3 DEF FrameGB1
  <2>5. opened.ok = TRUE /\ Step(format, rest, max).rest = After(rest, to)
    <3> HIDE DEF opened, to
    <3>1. /\ Leaving(opened, After(rest, to)).ok = opened.ok
          /\ Leaving(opened, After(rest, to)).rest = After(rest, to)
      BY LeavingDef
    <3> QED BY <2>4, <3>1
  <2>6. IVSize \in 0 .. Len(rest) /\ to \in IVSize .. Len(rest)
    BY SMT, <1>1, <2>3 DEF Least
  <2> HIDE DEF to
  <2>7. Reads(rest, IVSize, to) /\ IVSize + 1 \in 1 .. Len(rest) /\ rest[IVSize + 1].at = 1
    BY <2>5, <2>6, OpenReads
  <2> QED BY <2>1, <2>5, <2>6, <2>7
<1>3. CASE format # "GB1"
  <2> DEFINE size == Number(rest[1])
             to == 2 + IVSize + size
             opened == Open(Key, SubSeq(rest, 3, 2 + IVSize), SubSeq(rest, 3 + IVSize, to))
             compressed == IF format = "GB2" THEN Number(rest[2]) # 0
                           ELSE Number(rest[2]) % 2 = 1
  <2>1. from = 2 + IVSize
    BY <1>3 DEF HeadLen
  <2>2. Step(format, rest, max) = FrameSized(Key, format, rest, max)
    BY <1>3 DEF Step
  <2>3. Step(format, rest, max) =
          IF Len(rest) < 2 + IVSize \/ size > max \/ Len(rest) < to THEN Broken
          ELSE Leaving(IF opened.ok /\ compressed THEN Decompress(opened.out) ELSE opened,
                       After(rest, to))
    BY <2>2 DEF FrameSized
  <2> HIDE DEF opened, compressed, to
  <2>4. ~(Len(rest) < 2 + IVSize) /\ ~(Len(rest) < to)
    BY <2>3, OkDef
  <2>5. Step(format, rest, max) =
          Leaving(IF opened.ok /\ compressed THEN Decompress(opened.out) ELSE opened, After(rest, to))
    BY <2>3, OkDef
  <2>6. opened.ok = TRUE
    <3>1. CASE opened.ok /\ compressed
      <4>1. opened.ok \in BOOLEAN
        BY OkDef DEF opened, Open
      <4> QED BY <3>1, <4>1
    <3>2. CASE ~(opened.ok /\ compressed)
      <4>1. Step(format, rest, max) = Leaving(opened, After(rest, to))
        BY <2>5, <3>2
      <4>2. Leaving(opened, After(rest, to)).ok = opened.ok
        BY LeavingDef
      <4> QED BY <4>1, <4>2
    <3> QED BY <3>1, <3>2
  <2>7. Step(format, rest, max).rest = After(rest, to)
    <3> DEFINE r == IF opened.ok /\ compressed THEN Decompress(opened.out) ELSE opened
               later == After(rest, to)
    <3>1. Step(format, rest, max) = Leaving(r, later)
      BY <2>5
    <3> HIDE DEF r, later
    <3>2. Leaving(r, later).rest = later
      BY LeavingDef
    <3> QED BY <3>1, <3>2 DEF later
  <2>8. 1 \in 1 .. Len(rest)
    BY SMT, <1>1, <2>4
  <2>9. size \in Nat
    BY <2>8 DEF Readable
  <2>10. /\ 2 + IVSize \in 0 .. Len(rest) /\ to \in 2 + IVSize .. Len(rest)
         /\ 2 + IVSize + 1 = 3 + IVSize
    BY SMT, <1>1, <2>4, <2>9 DEF to
  <2>11. /\ Reads(rest, 2 + IVSize, to) /\ 2 + IVSize + 1 \in 1 .. Len(rest)
         /\ rest[2 + IVSize + 1].at = 1
    <3> DEFINE x == 2 + IVSize
    <3>1. x \in 0 .. Len(rest) /\ to \in x .. Len(rest) /\ x + 1 = 3 + IVSize
      BY <2>10
    <3> HIDE DEF x
    <3>2. Open(Key, SubSeq(rest, 3, 2 + IVSize), SubSeq(rest, x + 1, to)).ok = TRUE
      BY <2>6, <3>1 DEF opened
    <3>3. Reads(rest, x, to) /\ x + 1 \in 1 .. Len(rest) /\ rest[x + 1].at = 1
      BY <3>1, <3>2, OpenReads
    <3> QED BY <3>3 DEF x
  <2> QED BY <2>1, <2>7, <2>10, <2>11
<1> QED BY <1>2, <1>3

-----------------------------------------------------------------------------
(* The loops over chunks                                                   *)
Onward(format, max, before) ==
    LET frame == Step(format, before.rest, max) IN
    IF before.ok /\ frame.ok
    THEN Leaving(Ok(before.out \o frame.out), frame.rest)
    ELSE [ok |-> FALSE, out |-> before.out, rest |-> before.rest]

IsLoop(f, format, count, d, max) ==
    f = [i \in 0 .. count |-> IF i = 0 THEN Leaving(Ok(<<>>), d) ELSE Onward(format, max, f[i - 1])]

LoopOf(f, format, count, d, max) ==
    /\ f[0] = Leaving(Ok(<<>>), d)
    /\ \A i \in 1 .. count : f[i] = Onward(format, max, f[i - 1])
    /\ Chunks(Key, format, count, d, max) = f[count]

LEMMA ChunksLoop ==
  ASSUME NEW format, NEW count \in Nat, NEW d, NEW max
  PROVE  \E f : LoopOf(f, format, count, d, max)
<1> DEFINE T == {n \in 0 .. count : \E f : IsLoop(f, format, n, d, max)}
<1>1. 0 \in T
  <2> DEFINE f == [i \in 0 .. 0 |-> Leaving(Ok(<<>>), d)]
  <2>1. (\A i \in 0 .. 0 : i = 0) /\ 0 \in 0 .. count
    BY SMT
  <2>2. IsLoop(f, format, 0, d, max)
    BY <2>1 DEF IsLoop
  <2> QED BY <2>1, <2>2
<1>2. ASSUME NEW n \in 0 .. count - 1, n \in T PROVE n + 1 \in T
  <2>1. PICK f : IsLoop(f, format, n, d, max)
    BY <1>2
  <2> DEFINE g == [i \in 0 .. n + 1 |-> IF i = 0 THEN Leaving(Ok(<<>>), d)
                                        ELSE Onward(format, max, f[i - 1])]
  <2>2. /\ n + 1 \in 0 .. count /\ \A i \in 0 .. n : i \in 0 .. n + 1
        /\ \A i \in 0 .. n + 1 : i # 0 => i - 1 \in 0 .. n
    BY SMT
  <2>3. \A i \in 0 .. n : g[i] = f[i]
    BY <2>1, <2>2 DEF IsLoop
  <2>4. \A i \in 0 .. n + 1 : i # 0 => g[i - 1] = f[i - 1]
    BY <2>2, <2>3
  <2>5. IsLoop(g, format, n + 1, d, max)
    BY <2>4 DEF IsLoop
  <2> QED BY <2>2, <2>5
<1>3. count \in 0 .. count /\ 0 \in 0 .. count /\ \A i \in 1 .. count : i \in 0 .. count /\ i # 0
  BY SMT
<1> HIDE DEF T
<1>4. count \in T
  BY <1>1, <1>2, <1>3, Induction
<1>5. \E f : IsLoop(f, format, count, d, max)
  BY <1>4 DEF T
<1> DEFINE g == CHOOSE f : IsLoop(f, format, count, d, max)
<1>6. IsLoop(g, format, count, d, max)
  BY <1>5
<1>7. Chunks(Key, format, count, d, max) = g[count]
  BY DEF Chunks, IsLoop, Onward, Step
<1> HIDE DEF g
<1>8. /\ g[0] = Leaving(Ok(<<>>), d)
      /\ \A i \in 1 .. count : g[i] = Onward(format, max, g[i - 1])
  BY <1>3, <1>6 DEF IsLoop
<1>9. LoopOf(g, format, count, d, max)
  BY <1>7, <1>8 DEF LoopOf
<1> QED BY <1>9

(* The chunks of a blob, as they are stored.                               *)
Framing(format, cs, st, fl) ==
    /\ AllSeqs(cs) /\ AllSeqs(st) /\ Len(st) = Len(cs)
    /\ \A i \in 1 .. Len(cs) :
          /\ Len(st[i]) <= chunkSize
          /\ i # Len(cs) /\ format = "GB1" => Len(st[i]) = chunkSize
          /\ fl[i] \in BOOLEAN
          /\ fl[i] => format # "GB1" /\ Len(cs[i]) > 1 /\ st[i] = ZstdFrame(cs[i])
          /\ ~fl[i] => st[i] = cs[i]

Frames(format, st, fl) == [i \in 1 .. Len(st) |-> Frame(format, Key, i, st[i], fl[i])]

LEMMA FramesDef ==
  ASSUME NEW format, NEW st, AllSeqs(st), NEW fl
  PROVE  /\ AllSeqs(Frames(format, st, fl)) /\ Len(Frames(format, st, fl)) = Len(st)
         /\ Len(st) \in Nat
         /\ \A i \in 1 .. Len(st) : Frames(format, st, fl)[i] = Frame(format, Key, i, st[i], fl[i])
<1> DEFINE fs == Frames(format, st, fl)
<1>1. AnySeq(st) /\ Len(st) \in Nat
  BY SeqFacts DEF AllSeqs
<1>2. \A i \in 1 .. Len(st) : fs[i] = Frame(format, Key, i, st[i], fl[i])
  BY DEF Frames
<1>3. fs = [i \in 1 .. Len(st) |-> fs[i]]
  BY DEF Frames
<1> HIDE DEF fs
<1>4. AnySeq(fs) /\ Len(fs) = Len(st)
  BY <1>1, <1>3, MakeSeq
<1>5. ASSUME NEW i \in 1 .. Len(st) PROVE AnySeq(fs[i])
  <2>1. AnySeq(st[i])
    BY DEF AllSeqs
  <2>2. IsFrame(Frame(format, Key, i, st[i], fl[i]), format, i, st[i], fl[i])
    BY <2>1, FrameDef
  <2>3. AnySeq(Frame(format, Key, i, st[i], fl[i]))
    BY <2>2 DEF IsFrame
  <2> QED BY <2>3, <1>2
<1> QED BY <1>1, <1>2, <1>4, <1>5 DEF AllSeqs, fs

(* What is left once some of the pieces were read begins with the next.    *)
LEMMA AtPiece ==
  ASSUME NEW ss, AllSeqs(ss), NEW k \in 1 .. Len(ss), NEW n, n = k - 1
  PROVE  LET d == Concat(ss)
             rest == After(d, Off(ss, n)) IN
         /\ AnySeq(rest) /\ Begins(ss[k], rest) /\ Len(rest) = Len(d) - Off(ss, n)
         /\ After(rest, Len(ss[k])) = After(d, Off(ss, k))
         /\ k = Len(ss) => Len(rest) = Len(ss[k])
<1> DEFINE d == Concat(ss)
           a == Off(ss, n)
           b == Off(ss, k)
           e == Len(ss[k])
           rest == After(d, a)
           N == Len(ss)
<1>1. AnySeq(ss) /\ AnySeq(ss[k]) /\ N \in Nat /\ e \in Nat
  BY SeqFacts DEF AllSeqs
<1>2. n \in 0 .. N /\ k \in 0 .. N /\ N \in k .. N
  BY SMT, <1>1
<1>3. b = Off(ss, k - 1) + e /\ a \in Nat /\ b \in Nat /\ Off(ss, N) = Len(d) /\ AnySeq(d)
  BY <1>2, OffDef
<1>4. b = a + e
  BY <1>3
<1>5. b <= Len(d) /\ Len(d) \in Nat
  <2>1. b <= Off(ss, N)
    BY <1>2, OffGrows
  <2> QED BY <2>1, <1>3, SeqFacts
<1>6. \A p \in 1 .. e : d[a + p] = ss[k][p]
  <2>1. \A p \in 1 .. e : d[Off(ss, k - 1) + p] = ss[k][p]
    BY FlatWords
  <2> QED BY <2>1
<1>7. k = N => b = Len(d)
  BY <1>3
<1> HIDE DEF d, a, b, e, N
<1>8. a \in 0 .. Len(d) /\ e \in 0 .. Len(d) - a /\ \A p \in 1 .. e : p \in 1 .. Len(d) - a
  BY SMT, <1>1, <1>3, <1>4, <1>5
<1>9. AnySeq(rest) /\ Len(rest) = Len(d) - a /\ \A p \in 1 .. Len(d) - a : rest[p] = d[a + p]
  BY <1>3, <1>8, AfterDef
<1>10. After(rest, e) = After(d, b)
  BY SMT, <1>3, <1>4, <1>8, AfterAfter
<1> HIDE DEF rest
<1>11. e <= Len(rest) /\ (k = N => Len(rest) = e)
  BY SMT, <1>1, <1>3, <1>4, <1>5, <1>7, <1>9
<1>12. \A p \in 1 .. e : rest[p] = ss[k][p]
  BY <1>6, <1>8, <1>9
<1>13. Begins(ss[k], rest)
  BY <1>11, <1>12 DEF Begins, e
<1> QED BY <1>9, <1>10, <1>11, <1>13 DEF d, a, b, e, rest, N

LEMMA OneMore ==
  ASSUME NEW format, NEW max, NEW before, NEW x, NEW y, NEW rest, NEW later,
         before = Leaving(Ok(x), rest), Step(format, rest, max) = Leaving(Ok(y), later)
  PROVE  Onward(format, max, before) = Leaving(Ok(x \o y), later)
<1>1. before.ok = TRUE /\ before.out = x /\ before.rest = rest
  BY SMT DEF Leaving, Ok
<1> DEFINE frame == Step(format, rest, max)
<1>2. frame = Leaving(Ok(y), later)
  OBVIOUS
<1> HIDE DEF frame
<1>3. frame.ok = TRUE /\ frame.out = y /\ frame.rest = later
  BY SMT, <1>2 DEF Leaving, Ok
<1> QED BY <1>1, <1>3 DEF Onward, frame

(* Every chunk is read back in its turn.                                   *)
LEMMA Decoded ==
  ASSUME NEW format \in {"GB1", "GB2", "GB3"}, NEW cs, NEW st, NEW fl,
         Framing(format, cs, st, fl), NEW max \in Nat, chunkSize + TagSize <= max
  PROVE  Chunks(Key, format, Len(cs), Concat(Frames(format, st, fl)), max) =
           Leaving(Ok(Concat(cs)), <<>>)
<1> DEFINE fs == Frames(format, st, fl)
           d == Concat(fs)
           N == Len(cs)
<1>1. AllSeqs(cs) /\ AllSeqs(st) /\ Len(st) = N
  BY DEF Framing
<1>2. /\ AllSeqs(fs) /\ Len(fs) = Len(st) /\ Len(st) \in Nat
      /\ \A i \in 1 .. Len(st) : fs[i] = Frame(format, Key, i, st[i], fl[i])
  BY SMT, <1>1, FramesDef
<1> HIDE DEF fs
<1>3. Len(fs) = N /\ N \in Nat /\ N \in 0 .. N /\ 0 \in 0 .. N
  BY SMT, <1>1, <1>2
<1>4. \A i \in 1 .. N : fs[i] = Frame(format, Key, i, st[i], fl[i])
  BY <1>1, <1>2
<1>5. Off(fs, 0) = 0 /\ Off(fs, N) = Len(d) /\ AnySeq(d)
  <2>1. Off(fs, 0) = 0 /\ Off(fs, Len(fs)) = Len(d) /\ AnySeq(d)
    BY <1>2, OffDef
  <2> QED BY <2>1, <1>3
<1>6. /\ Pre(cs, 0) = <<>> /\ Pre(cs, N) = Concat(cs)
      /\ \A k \in 1 .. N : Pre(cs, k) = Pre(cs, k - 1) \o cs[k]
  BY <1>1, PreDef
<1>7. \A k \in 1 .. N : AnySeq(st[k]) /\ AnySeq(cs[k])
  <2>1. \A k \in 1 .. Len(st) : AnySeq(st[k])
    BY <1>1 DEF AllSeqs
  <2>2. \A k \in 1 .. N : AnySeq(cs[k])
    BY <1>1 DEF AllSeqs
  <2> QED BY <2>1, <2>2, <1>1
<1>8. \A k \in 1 .. N :
        /\ Len(st[k]) <= chunkSize /\ fl[k] \in BOOLEAN
        /\ k # N /\ format = "GB1" => Len(st[k]) = chunkSize
        /\ fl[k] => format # "GB1" /\ Len(cs[k]) > 1 /\ st[k] = ZstdFrame(cs[k])
        /\ ~fl[k] => st[k] = cs[k]
  BY DEF Framing
<1>9. After(d, 0) = d /\ After(d, Len(d)) = <<>>
  BY <1>5, WholeAfter
<1> HIDE DEF d, N
<1>10a. PICK f : LoopOf(f, format, N, d, max)
  BY <1>3, ChunksLoop
<1>10. /\ f[0] = Leaving(Ok(<<>>), d)
       /\ \A i \in 1 .. N : f[i] = Onward(format, max, f[i - 1])
       /\ Chunks(Key, format, N, d, max) = f[N]
  BY <1>10a DEF LoopOf
<1> DEFINE T == {k \in 0 .. N : f[k] = Leaving(Ok(Pre(cs, k)), After(d, Off(fs, k)))}
<1>11. 0 \in T
  BY <1>3, <1>5, <1>6, <1>9, <1>10
<1>12. ASSUME NEW n \in 0 .. N - 1, n \in T PROVE n + 1 \in T
  <2> DEFINE k == n + 1
             c == fl[k]
             stored == st[k]
             fr == Frame(format, Key, k, stored, c)
             rest == After(d, Off(fs, n))
             later == After(d, Off(fs, k))
  <2>1. k \in 1 .. N /\ k \in 0 .. N /\ n = k - 1 /\ k - 1 = n
    BY SMT, <1>3
  <2> HIDE DEF k
  <2>2. fs[k] = fr /\ AnySeq(stored) /\ AnySeq(cs[k])
    BY <2>1, <1>4, <1>7
  <2>3. /\ AnySeq(rest) /\ Begins(fs[k], rest)
        /\ After(rest, Len(fs[k])) = later
        /\ k = N => Len(rest) = Len(fs[k])
    <3>1. k \in 1 .. Len(fs)
      BY <2>1, <1>3
    <3>2. /\ AnySeq(rest) /\ Begins(fs[k], rest)
          /\ After(rest, Len(fs[k])) = later
          /\ k = Len(fs) => Len(rest) = Len(fs[k])
      BY <3>1, <2>1, <1>2, AtPiece DEF d
    <3> QED BY <3>2, <1>3
  <2>4. /\ Len(stored) <= chunkSize /\ c \in BOOLEAN
        /\ k # N /\ format = "GB1" => Len(stored) = chunkSize
        /\ c => format # "GB1" /\ Len(cs[k]) > 1 /\ stored = ZstdFrame(cs[k])
        /\ ~c => stored = cs[k]
    BY <2>1, <1>8
  <2>5. f[n] = Leaving(Ok(Pre(cs, n)), rest)
    BY <1>12
  <2>6. f[k] = Onward(format, max, f[n])
    BY <2>1, <1>10
  <2>7. Pre(cs, k) = Pre(cs, n) \o cs[k]
    BY <2>1, <1>6
  <2>8. f[k] = Leaving(Ok(Pre(cs, k)), later) => k \in T
    BY <2>1
  <2> HIDE DEF T, c, stored, rest, later
  <2>9. Begins(fr, rest) /\ After(rest, Len(fr)) = later /\ (k = N => Len(rest) = Len(fr))
    BY <2>2, <2>3
  <2>10. Len(stored) + TagSize <= max
    <3>1. Len(stored) \in Nat
      BY <2>2, SeqFacts
    <3> QED BY SMT, <3>1, <2>4, FormatAssumption
  <2>11. Fits(format, k, stored, c, rest, max)
    BY <2>4, <2>9, <2>10 DEF Fits
  <2>12. Step(format, rest, max) =
           Leaving(Got(c, stored), After(rest, Len(fr)))
    BY SMT, <2>2, <2>3, <2>4, <2>9, <2>11, FrameReads
  <2>13. Got(c, stored) = Ok(cs[k])
    <3>1. CASE c
      <4>1. Decompress(ZstdFrame(cs[k])) = Ok(cs[k])
        BY <3>1, <2>2, <2>4, ZstdDef
      <4> QED BY <4>1, <3>1, <2>4 DEF Got
    <3>2. CASE ~c
      BY <3>2, <2>4 DEF Got
    <3> QED BY <3>1, <3>2
  <2>14. Step(format, rest, max) = Leaving(Ok(cs[k]), later)
    BY <2>9, <2>12, <2>13
  <2>15. Onward(format, max, f[n]) = Leaving(Ok(Pre(cs, n) \o cs[k]), later)
    BY SMT, <2>5, <2>14, OneMore
  <2>16. k \in T
    BY <2>6, <2>7, <2>8, <2>15
  <2> QED BY <2>16 DEF k
<1> HIDE DEF T
<1>13. N \in T
  <2>1. \A n \in 0 .. N : n \in T
    BY <1>3, <1>11, <1>12, Induction
  <2> QED BY <2>1, <1>3
<1>14. f[N] = Leaving(Ok(Pre(cs, N)), After(d, Off(fs, N)))
  BY <1>13 DEF T
<1>15. Chunks(Key, format, N, d, max) = Leaving(Ok(Concat(cs)), <<>>)
  BY <1>5, <1>6, <1>9, <1>10, <1>14
<1> QED BY <1>15 DEF N, d, fs

-----------------------------------------------------------------------------
(* The decoders                                                            *)
LEMMA Magics ==
  /\ [magic |-> "GB1"] # [magic |-> "GB2"] /\ [magic |-> "GB1"] # [magic |-> "GB3"]
  /\ [magic |-> "GB2"] # [magic |-> "GB3"]
<1>1. /\ [magic |-> "GB1"].magic = "GB1" /\ [magic |-> "GB2"].magic = "GB2"
      /\ [magic |-> "GB3"].magic = "GB3"
  BY SMT
<1> QED BY SMT, <1>1

Streamed(r) == IF r.ok THEN Ok(r.out) ELSE Err
Tried(large, small) == IF large.ok THEN large ELSE small
Short(data) == Len(data) - 1 \in IVSize .. IVSize + chunkSize + TagSize - 1
TriedStream(large, data) ==
    IF ~large.ok /\ large.out = <<>> /\ Short(data)
    THEN Unpack(DecryptSmall(Key, data)) ELSE Streamed(large)

LEMMA DecryptDef ==
  ASSUME NEW m, m # <<>>, NEW data, data = Tail(m)
  PROVE  /\ m[1] = [magic |-> "GB3"] =>
              /\ Decrypt(Key, m) = Consumed(ChunksGB3(Key, data))
              /\ DecryptStreamToFile(Key, m) = Streamed(ChunksGB3(Key, data))
         /\ m[1] = [magic |-> "GB2"] =>
              /\ Decrypt(Key, m) = Consumed(ChunksCounted(Key, "GB2", data))
              /\ DecryptStreamToFile(Key, m) = Streamed(ChunksCounted(Key, "GB2", data))
         /\ m[1] = [magic |-> "GB1"] /\ Len(data) > 1 /\ IsChunkCount(Number(data[1])) =>
              /\ Decrypt(Key, m) = Tried(Consumed(ChunksCounted(Key, "GB1", data)),
                                         DecryptSmall(Key, data))
              /\ data # <<>> => DecryptStreamToFile(Key, m) =
                                  TriedStream(ChunksCounted(Key, "GB1", data), data)
         /\ m[1] = [magic |-> "GB1"] /\ ~(Len(data) > 1 /\ IsChunkCount(Number(data[1]))) =>
              Decrypt(Key, m) = DecryptSmall(Key, data)
         /\ m[1] = [magic |-> "GB1"] /\ ~IsChunkCount(Number(data[1])) /\ Len(data) <= MaxBlobSize =>
              DecryptStreamToFile(Key, m) = Unpack(DecryptSmall(Key, data))
         /\ m[1] \notin {[magic |-> f] : f \in {"GB1", "GB2", "GB3"}} => Decrypt(Key, m) = Err
<1>1. CASE m[1] = [magic |-> "GB3"]
  <2>1. m[1] # [magic |-> "GB2"] /\ m[1] # [magic |-> "GB1"]
    BY <1>1, Magics
  <2>2. /\ Decrypt(Key, m) = Consumed(ChunksGB3(Key, data))
        /\ DecryptStreamToFile(Key, m) = Streamed(ChunksGB3(Key, data))
    BY SMT, <1>1, <2>1 DEF Decrypt, DecryptStreamToFile, Streamed
  <2>3. m[1] \in {[magic |-> f] : f \in {"GB1", "GB2", "GB3"}}
    BY <1>1
  <2> QED BY <2>1, <2>2, <2>3
<1>2. CASE m[1] = [magic |-> "GB2"]
  <2>1. m[1] # [magic |-> "GB3"] /\ m[1] # [magic |-> "GB1"]
    BY <1>2, Magics
  <2>2. /\ Decrypt(Key, m) = Consumed(ChunksCounted(Key, "GB2", data))
        /\ DecryptStreamToFile(Key, m) = Streamed(ChunksCounted(Key, "GB2", data))
    BY SMT, <1>2, <2>1 DEF Decrypt, DecryptStreamToFile, Streamed
  <2>3. m[1] \in {[magic |-> f] : f \in {"GB1", "GB2", "GB3"}}
    BY <1>2
  <2> QED BY <2>1, <2>2, <2>3
<1>3. CASE m[1] = [magic |-> "GB1"]
  <2>1. m[1] # [magic |-> "GB3"] /\ m[1] # [magic |-> "GB2"]
    BY <1>3, Magics
  <2>2. m[1] \in {[magic |-> f] : f \in {"GB1", "GB2", "GB3"}}
    BY <1>3
  <2>3. ASSUME Len(data) > 1, IsChunkCount(Number(data[1]))
        PROVE  /\ Decrypt(Key, m) = Tried(Consumed(ChunksCounted(Key, "GB1", data)),
                                         DecryptSmall(Key, data))
               /\ data # <<>> => DecryptStreamToFile(Key, m) =
                                  TriedStream(ChunksCounted(Key, "GB1", data), data)
    BY SMT, <1>3, <2>1, <2>3 DEF Decrypt, DecryptStreamToFile, Tried, TriedStream, Streamed, Short
  <2>4. ASSUME ~(Len(data) > 1 /\ IsChunkCount(Number(data[1])))
        PROVE  Decrypt(Key, m) = DecryptSmall(Key, data)
    BY SMT, <1>3, <2>1, <2>4 DEF Decrypt
  <2>5. ASSUME ~IsChunkCount(Number(data[1])), Len(data) <= MaxBlobSize
        PROVE  DecryptStreamToFile(Key, m) = Unpack(DecryptSmall(Key, data))
    BY SMT, <1>3, <2>1, <2>5 DEF DecryptStreamToFile
  <2> QED BY <2>1, <2>2, <2>3, <2>4, <2>5
<1>4. CASE /\ m[1] # [magic |-> "GB1"] /\ m[1] # [magic |-> "GB2"] /\ m[1] # [magic |-> "GB3"]
  <2>1. Decrypt(Key, m) = Err
    BY SMT, <1>4 DEF Decrypt
  <2> QED BY <2>1, <1>4
<1> QED BY <1>1, <1>2, <1>3, <1>4

(* The words of a blob in chunks: a header, then the frames.               *)
HdrLen(format) == IF format = "GB3" THEN 3 ELSE 2

IsBlob(b, format, size, d) ==
    /\ AnySeq(b) /\ Len(b) = HdrLen(format) + Len(d)
    /\ b[1] = [magic |-> format]
    /\ format = "GB3" => b[2] = [num |-> chunkSize] /\ b[3] = [num |-> size]
    /\ format # "GB3" => b[2] = [num |-> CeilDiv(size, chunkSize)]
    /\ \A p \in 1 .. Len(d) : b[HdrLen(format) + p] = d[p]

LEMMA HeaderDef ==
  ASSUME NEW format, NEW size, NEW d, AnySeq(d)
  PROVE  IsBlob(Header(format, size) \o d, format, size, d)
<1> DEFINE x == IF format = "GB3" THEN Num(chunkSize) \o Num(size) ELSE Num(CeilDiv(size, chunkSize))
           m == Magic(format)
           h == m \o x
           l == HdrLen(format)
           b == h \o d
<1>1. AnySeq(m) /\ Len(m) = 1 /\ m[1] = [magic |-> format]
  BY OneWord DEF Magic
<1>2. /\ AnySeq(x) /\ Len(x) = l - 1 /\ l \in {2, 3} /\ (format = "GB3" <=> l = 3)
      /\ format = "GB3" => x[1] = [num |-> chunkSize] /\ x[2] = [num |-> size]
      /\ format # "GB3" => x[1] = [num |-> CeilDiv(size, chunkSize)]
  <2>1. CASE format = "GB3"
    <3>1. l = 3 /\ 3 - 1 = 2
      BY SMT, <2>1 DEF HdrLen
    <3>2. x = Num(chunkSize) \o Num(size)
      BY <2>1
    <3> HIDE DEF x
    <3>3. AnySeq(x) /\ Len(x) = 2 /\ x[1] = [num |-> chunkSize] /\ x[2] = [num |-> size]
      BY <3>2, Numbers
    <3> QED BY <2>1, <3>1, <3>3
  <2>2. CASE format # "GB3"
    <3>1. l = 2 /\ 2 - 1 = 1 /\ 2 # 3
      BY SMT, <2>2 DEF HdrLen
    <3>2. x = Num(CeilDiv(size, chunkSize))
      BY <2>2
    <3>3. AnySeq(x) /\ Len(x) = 1 /\ x[1] = [num |-> CeilDiv(size, chunkSize)]
      BY <3>2, Numbers
    <3> QED BY <2>2, <3>1, <3>3
  <2> QED BY <2>1, <2>2
<1>3. Header(format, size) = h
  BY DEF Header
<1> HIDE DEF m, x
<1>2a. AnySeq(m) /\ AnySeq(x) /\ Len(m) = 1
  BY <1>1, <1>2
<1>4. /\ AnySeq(h) /\ Len(h) = Len(m) + Len(x)
      /\ \A i \in 1 .. Len(m) : h[i] = m[i]
  BY <1>2a, Join
<1>4a. \A i \in 1 .. Len(x) : h[1 + i] = x[i]
  <2> DEFINE n == Len(x)
             e == Len(m)
  <2>1. Len(x) = n /\ Len(m) = e /\ AnySeq(m) /\ AnySeq(x)
    BY <1>2a
  <2>2. e = 1
    BY <1>2a
  <2> HIDE DEF n, e, h
  <2>3. \A i \in 1 .. n : (m \o x)[e + i] = x[i]
    BY SMT, <2>1, JoinRight
  <2> QED BY <2>1, <2>2, <2>3 DEF h
<1> HIDE DEF h, l
<1>5. Len(h) = l /\ l \in Nat /\ h[1] = m[1] /\ h[2] = x[1] /\ (l = 3 => h[3] = x[2])
  BY SMT, <1>1, <1>2, <1>4, <1>4a
<1>6. /\ AnySeq(b) /\ Len(b) = Len(h) + Len(d)
      /\ \A i \in 1 .. Len(h) : b[i] = h[i]
  BY <1>4, Join
<1>7. \A p \in 1 .. Len(d) : b[l + p] = d[p]
  BY SMT, <1>4, <1>5, JoinRight
<1> HIDE DEF b
<1>8. 1 \in 1 .. l /\ 2 \in 1 .. l /\ (l = 3 => 3 \in 1 .. l)
  BY SMT, <1>2
<1>9. b[1] = h[1] /\ b[2] = h[2] /\ (l = 3 => b[3] = h[3])
  BY <1>5, <1>6, <1>8
<1>10. IsBlob(b, format, size, d)
  BY <1>1, <1>2, <1>5, <1>6, <1>7, <1>9 DEF IsBlob, l
<1> QED BY <1>3, <1>10 DEF b

(* A blob in chunks, and how its content was cut up.                       *)
IsLarge(content, blob, format, size, cs, st, fl) ==
    /\ format \in {"GB1", "GB2", "GB3"} /\ Framing(format, cs, st, fl)
    /\ Len(cs) \in Nat \ {0} /\ content = Concat(cs)
    /\ size \in Nat /\ size <= Noise /\ CeilDiv(size, chunkSize) = Len(cs)
    /\ format # "GB3" => Len(cs) < MaxChunkCount
    /\ blob = Header(format, size) \o Concat(Frames(format, st, fl))

LEMMA TwoOff ==
  ASSUME NEW s, AnySeq(s), NEW h \in {2, 3}, h <= Len(s), NEW d, AnySeq(d), Len(s) = h + Len(d),
         \A p \in 1 .. Len(d) : s[h + p] = d[p]
  PROVE  /\ s # <<>> /\ AnySeq(Tail(s)) /\ Tail(s) # <<>> /\ Len(Tail(s)) = h - 1 + Len(d)
         /\ Tail(s)[1] = s[2] /\ (h = 3 => Tail(s)[2] = s[3])
         /\ After(Tail(s), h - 1) = d /\ (h = 2 => Tail(Tail(s)) = d)
<1>1. Len(s) \in Nat /\ Len(d) \in Nat
  BY SeqFacts
<1>2. /\ 1 \in 0 .. Len(s) /\ h \in 0 .. Len(s) /\ h - 1 \in 0 .. Len(s) - 1 /\ 1 + (h - 1) = h
      /\ Len(s) # 0 /\ Len(s) - 1 # 0 /\ Len(s) - 1 = h - 1 + Len(d) /\ Len(s) - h = Len(d)
      /\ 1 \in 1 .. Len(s) - 1 /\ (h = 3 => 2 \in 1 .. Len(s) - 1) /\ 1 + 1 = 2 /\ 1 + 2 = 3
  BY SMT, <1>1
<1>3. s # <<>>
  BY <1>2, SeqFacts
<1>4. Tail(s) = After(s, 1)
  BY <1>3, WholeAfter
<1> DEFINE t == After(s, 1)
<1>5. AnySeq(t) /\ Len(t) = Len(s) - 1 /\ \A i \in 1 .. Len(s) - 1 : t[i] = s[1 + i]
  BY <1>2, AfterDef
<1>6. t[1] = s[2] /\ (h = 3 => t[2] = s[3])
  <2>1. t[1] = s[1 + 1]
    BY <1>2, <1>5
  <2>2. h = 3 => t[2] = s[1 + 2]
    BY <1>2, <1>5
  <2> QED BY <2>1, <2>2, <1>2
<1>7. After(t, h - 1) = After(s, 1 + (h - 1))
  BY <1>2, AfterAfter
<1>8. AnySeq(After(s, h)) /\ Len(After(s, h)) = Len(s) - h /\ \A i \in 1 .. Len(s) - h : After(s, h)[i] = s[h + i]
  BY <1>2, AfterDef
<1>9. After(s, h) = d
  <2>1. Len(After(s, h)) = Len(d) /\ \A i \in 1 .. Len(d) : After(s, h)[i] = d[i]
    BY <1>2, <1>8
  <2> QED BY <2>1, <1>8, SameSeq
<1> HIDE DEF t
<1>10. t # <<>>
  BY <1>2, <1>5, SeqFacts
<1>11. h = 2 => Tail(t) = d
  <2>1. Tail(t) = After(t, 1)
    BY <1>5, <1>10, WholeAfter
  <2>2. h = 2 => h - 1 = 1
    BY SMT
  <2> QED BY <2>1, <2>2, <1>2, <1>7, <1>9
<1>12. After(t, h - 1) = d
  BY <1>2, <1>7, <1>9
<1> QED BY <1>2, <1>3, <1>4, <1>5, <1>6, <1>10, <1>11, <1>12 DEF t

LEMMA LargeReads ==
  ASSUME NEW content, NEW blob, NEW format, NEW size, NEW cs, NEW st, NEW fl,
         IsLarge(content, blob, format, size, cs, st, fl)
  PROVE  Decrypt(Key, blob) = Ok(content) /\ DecryptStreamToFile(Key, blob) = Ok(content)
<1> DEFINE fs == Frames(format, st, fl)
           d == Concat(fs)
           h == HdrLen(format)
           data == Tail(blob)
           done == Leaving(Ok(content), <<>>)
           N == Len(cs)
<1>1. /\ format \in {"GB1", "GB2", "GB3"} /\ Framing(format, cs, st, fl)
      /\ N \in Nat \ {0} /\ content = Concat(cs)
      /\ size \in Nat /\ CeilDiv(size, chunkSize) = N
      /\ format # "GB3" => N < MaxChunkCount
      /\ blob = Header(format, size) \o d
  BY DEF IsLarge
<1>2. AnySeq(d) /\ Len(d) \in Nat
  <2>1. AllSeqs(st)
    BY <1>1 DEF Framing
  <2>2. AllSeqs(fs)
    BY <2>1, FramesDef
  <2>3. AnySeq(d)
    BY <2>2, OffDef
  <2> QED BY <2>3, SeqFacts
<1> HIDE DEF fs, d
<1>3. IsBlob(blob, format, size, d)
  BY <1>1, <1>2, HeaderDef
<1>4. /\ AnySeq(blob) /\ Len(blob) = h + Len(d) /\ blob[1] = [magic |-> format]
      /\ format = "GB3" => blob[2] = [num |-> chunkSize] /\ blob[3] = [num |-> size]
      /\ format # "GB3" => blob[2] = [num |-> CeilDiv(size, chunkSize)]
      /\ \A p \in 1 .. Len(d) : blob[h + p] = d[p]
  BY <1>3 DEF IsBlob
<1>5. h \in {2, 3} /\ (format = "GB3" <=> h = 3) /\ (format # "GB3" <=> h = 2)
  <2>1. 2 # 3
    BY SMT
  <2> QED BY <2>1 DEF HdrLen
<1>6. h <= Len(blob)
  BY SMT, <1>2, <1>4, <1>5
<1> HIDE DEF h
<1>7. /\ blob # <<>> /\ AnySeq(data) /\ data # <<>> /\ Len(data) = h - 1 + Len(d)
      /\ data[1] = blob[2] /\ (h = 3 => data[2] = blob[3])
      /\ After(data, h - 1) = d /\ (h = 2 => Tail(data) = d)
  BY <1>2, <1>4, <1>5, <1>6, TwoOff
<1> HIDE DEF data
<1>8. \A max \in Nat : chunkSize + TagSize <= max => Chunks(Key, format, N, d, max) = done
  <2> SUFFICES ASSUME NEW max \in Nat, chunkSize + TagSize <= max
               PROVE  Chunks(Key, format, Len(cs), Concat(Frames(format, st, fl)), max) =
                        Leaving(Ok(Concat(cs)), <<>>)
    BY <1>1 DEF d, fs
  <2>1. format \in {"GB1", "GB2", "GB3"} /\ Framing(format, cs, st, fl)
    BY <1>1
  <2> QED BY SMT, <2>1, Decoded
<1> HIDE DEF N, done
<1>9. /\ Consumed(done) = Ok(content) /\ Streamed(done) = Ok(content) /\ done.ok = TRUE
  BY SMT DEF Consumed, Streamed, Leaving, Ok, done
<1>10. /\ MaxStoredSize \in Nat /\ chunkSize + TagSize <= MaxStoredSize
       /\ chunkSize + TagSize + Margin \in Nat /\ chunkSize + TagSize <= chunkSize + TagSize + Margin
  BY SMT, FormatAssumption DEF MaxStoredSize
<1>11. CASE format = "GB3"
  <2>1. Number(data[1]) = chunkSize /\ Number(data[2]) = size
    <3>1. data[1] = [num |-> chunkSize] /\ data[2] = [num |-> size]
      BY <1>4, <1>5, <1>7, <1>11
    <3> QED BY <3>1, PlainWords
  <2>2. ~(Len(data) < 2) /\ chunkSize \in 1 .. MaxGB3ChunkSize /\ h - 1 = 2
    BY SMT, <1>2, <1>5, <1>7, <1>11, FormatAssumption
  <2>3. After(data, 2) = d
    BY <1>7, <2>2
  <2>4. Chunks(Key, "GB3", N, d, chunkSize + TagSize + Margin) = done
    BY <1>8, <1>10, <1>11
  <2>5. ChunksGB3(Key, data) = done
    BY <1>1, <2>1, <2>2, <2>3, <2>4 DEF ChunksGB3, N
  <2>6. Decrypt(Key, blob) = Consumed(done) /\ DecryptStreamToFile(Key, blob) = Streamed(done)
    BY <1>4, <1>7, <1>11, <2>5, DecryptDef DEF data
  <2> QED BY <2>6, <1>9
<1>12. CASE format # "GB3"
  <2>1. Number(data[1]) = N
    BY <1>1, <1>4, <1>7, <1>12, PlainWords
  <2>2. IsChunkCount(N)
    BY SMT, <1>1, <1>12 DEF IsChunkCount, N
  <2>3. Tail(data) = d
    BY <1>5, <1>7, <1>12
  <2>4. Chunks(Key, format, N, d, MaxStoredSize) = done
    BY <1>8, <1>10
  <2>5. ChunksCounted(Key, format, data) = done
    BY <1>7, <2>1, <2>2, <2>3, <2>4 DEF ChunksCounted
  <2>6. CASE format = "GB2"
    <3>1. Decrypt(Key, blob) = Consumed(done) /\ DecryptStreamToFile(Key, blob) = Streamed(done)
      BY <1>4, <1>7, <2>5, <2>6, DecryptDef DEF data
    <3> QED BY <3>1, <1>9
  <2>7. CASE format = "GB1"
    <3>1. Len(data) > 1
      <4>1. AllSeqs(st) /\ Len(st) = N /\ 1 \in 1 .. N
        BY SMT, <1>1 DEF Framing, N
      <4>2. /\ AllSeqs(fs) /\ Len(fs) = Len(st)
            /\ \A i \in 1 .. Len(st) : fs[i] = Frame(format, Key, i, st[i], fl[i])
        BY SMT, <4>1, FramesDef DEF fs
      <4>3. AnySeq(st[1]) /\ fs[1] = Frame(format, Key, 1, st[1], fl[1]) /\ 1 \in 1 .. Len(fs)
        BY <4>1, <4>2 DEF AllSeqs
      <4>4. IsFrame(fs[1], format, 1, st[1], fl[1])
        BY <4>3, FrameDef
      <4>5. Len(fs[1]) = HeadLen(format) + IVSize + (Len(st[1]) + TagSize) /\ HeadLen(format) \in Nat
        BY <4>4 DEF IsFrame
      <4>6. Len(st[1]) \in Nat
        BY <4>3, SeqFacts
      <4>7. 1 \in 1 .. Len(fs[1])
        BY SMT, <4>5, <4>6, FormatAssumption
      <4>8. Off(fs, 1 - 1) + 1 \in 1 .. Len(Concat(fs))
        BY <4>2, <4>3, <4>7, FlatWords
      <4>9. Len(d) # 0
        BY SMT, <4>8, <1>2 DEF d
      <4> QED BY SMT, <4>9, <1>2, <1>5, <1>7, <2>7
    <3>2. IsChunkCount(Number(data[1]))
      BY <2>1, <2>2
    <3>3. /\ Decrypt(Key, blob) = Tried(Consumed(done), DecryptSmall(Key, data))
          /\ DecryptStreamToFile(Key, blob) = TriedStream(done, data)
      BY <1>4, <1>7, <2>5, <2>7, <3>1, <3>2, DecryptDef DEF data
    <3>4. Tried(Ok(content), DecryptSmall(Key, data)) = Ok(content)
      BY OkDef DEF Tried
    <3>5. TriedStream(done, data) = Ok(content)
      BY <1>9 DEF TriedStream
    <3> QED BY <3>3, <3>4, <3>5, <1>9
  <2> QED BY <1>1, <1>12, <2>6, <2>7
<1> QED BY <1>11, <1>12

(* A blob of one ciphertext, and a manifest.                               *)
IsBox(b, magic, key, n, plain) ==
    /\ AnySeq(b) /\ Len(b) = 1 + IVSize + (Len(plain) + TagSize)
    /\ b[1] = [magic |-> magic]
    /\ \A j \in 1 .. IVSize : b[1 + j] = IV(n, 0)[j]
    /\ \A j \in 1 .. Len(plain) + TagSize :
          b[1 + IVSize + j] = SealedWord(key, IV(n, 0), plain, j)

LEMMA BoxDef ==
  ASSUME NEW magic, NEW key, NEW n, NEW plain, AnySeq(plain)
  PROVE  IsBox(Magic(magic) \o IV(n, 0) \o Seal(key, IV(n, 0), plain), magic, key, n, plain)
<1> DEFINE m == Magic(magic)
           iv == IV(n, 0)
           sealed == Seal(key, iv, plain)
           h == m \o iv
           size == Len(plain) + TagSize
           b == h \o sealed
<1>1. AnySeq(m) /\ Len(m) = 1 /\ m[1] = [magic |-> magic]
  BY OneWord DEF Magic
<1>2. AnySeq(iv) /\ Len(iv) = IVSize /\ IVSize \in Nat
  BY IVDef
<1>3. /\ AnySeq(sealed) /\ Len(sealed) = size /\ size \in Nat
      /\ \A j \in 1 .. size : sealed[j] = SealedWord(key, iv, plain, j)
  BY SealDef
<1> HIDE DEF m, iv, sealed, size
<1>4. AnySeq(h) /\ Len(h) = Len(m) + Len(iv) /\ \A i \in 1 .. Len(m) : h[i] = m[i]
  BY <1>1, <1>2, Join
<1>5. \A j \in 1 .. IVSize : h[1 + j] = iv[j]
  <2> DEFINE e == Len(m)
  <2>1. Len(m) = e /\ AnySeq(m) /\ Len(iv) = IVSize /\ AnySeq(iv)
    BY <1>1, <1>2
  <2>2. e = 1
    BY <1>1
  <2> HIDE DEF e, h
  <2>3. \A i \in 1 .. IVSize : (m \o iv)[e + i] = iv[i]
    BY SMT, <2>1, JoinRight
  <2> QED BY <2>2, <2>3 DEF h
<1> HIDE DEF h
<1> DEFINE l == 1 + IVSize
<1>6. Len(h) = l /\ l \in Nat /\ 1 \in 1 .. l /\ 1 \in 1 .. 1 /\ \A j \in 1 .. IVSize : 1 + j \in 1 .. l
  BY SMT, <1>1, <1>2, <1>4
<1> HIDE DEF l
<1>7. AnySeq(b) /\ Len(b) = Len(h) + Len(sealed) /\ \A i \in 1 .. Len(h) : b[i] = h[i]
  BY <1>3, <1>4, Join
<1>8. \A j \in 1 .. size : b[l + j] = sealed[j]
  <2>1. AnySeq(h) /\ AnySeq(sealed) /\ Len(h) = l /\ Len(sealed) = size
    BY <1>3, <1>4, <1>6
  <2> QED BY SMT, <2>1, JoinRight
<1> HIDE DEF b
<1>9. b[1] = [magic |-> magic]
  BY <1>1, <1>4, <1>6, <1>7
<1>10. \A j \in 1 .. IVSize : b[1 + j] = iv[j]
  BY <1>5, <1>6, <1>7
<1>11. \A j \in 1 .. size : b[l + j] = SealedWord(key, iv, plain, j)
  BY <1>3, <1>8
<1>12. Len(b) = l + size
  BY <1>3, <1>6, <1>7
<1>13. IsBox(b, magic, key, n, plain)
  BY <1>7, <1>9, <1>10, <1>11, <1>12 DEF IsBox, l, iv, size
<1> QED BY <1>13 DEF b, h, m, iv, sealed

LEMMA BoxTail ==
  ASSUME NEW b, NEW magic, NEW key, NEW n, NEW plain, AnySeq(plain), IsBox(b, magic, key, n, plain)
  PROVE  LET data == Tail(b) IN
         /\ b # <<>> /\ AnySeq(data) /\ Len(data) = IVSize + (Len(plain) + TagSize)
         /\ \A p \in 1 .. Len(data) : data[p] = b[1 + p]
         /\ Number(data[1]) = n
         /\ First(data, IVSize) = IV(n, 0) /\ After(data, IVSize) = Seal(key, IV(n, 0), plain)
<1> DEFINE data == Tail(b)
           iv == IV(n, 0)
           size == Len(plain) + TagSize
           sealed == Seal(key, iv, plain)
<1>1. /\ AnySeq(b) /\ Len(b) = 1 + IVSize + size
      /\ \A j \in 1 .. IVSize : b[1 + j] = iv[j]
      /\ \A j \in 1 .. size : b[1 + IVSize + j] = SealedWord(key, iv, plain, j)
  BY DEF IsBox
<1>2. /\ AnySeq(iv) /\ Len(iv) = IVSize /\ iv[1] = [num |-> n]
      /\ 1 \in 1 .. IVSize /\ IVSize \in Nat
  BY IVDef
<1>3. /\ AnySeq(sealed) /\ Len(sealed) = size /\ size \in Nat
      /\ \A j \in 1 .. size : sealed[j] = SealedWord(key, iv, plain, j)
  BY SealDef
<1> HIDE DEF iv, sealed, size
<1>4. /\ Len(b) # 0 /\ 1 \in 0 .. Len(b) /\ Len(b) - 1 = IVSize + size
      /\ IVSize \in 0 .. IVSize + size /\ IVSize + size - IVSize = size
      /\ \A j \in 1 .. IVSize : j \in 1 .. IVSize + size
      /\ \A j \in 1 .. size : IVSize + j \in 1 .. IVSize + size /\ 1 + (IVSize + j) = 1 + IVSize + j
  BY SMT, <1>1, <1>2, <1>3
<1>5. b # <<>>
  BY <1>1, <1>4, SeqFacts
<1>6. Tail(b) = After(b, 1)
  BY <1>1, <1>5, WholeAfter
<1>7. /\ AnySeq(data) /\ Len(data) = IVSize + size
      /\ \A p \in 1 .. IVSize + size : data[p] = b[1 + p]
  <2>1. /\ AnySeq(After(b, 1)) /\ Len(After(b, 1)) = Len(b) - 1
        /\ \A p \in 1 .. Len(b) - 1 : After(b, 1)[p] = b[1 + p]
    BY <1>1, <1>4, AfterDef
  <2> QED BY <2>1, <1>4, <1>6
<1> HIDE DEF data
<1>8. Number(data[1]) = n
  <2>1. data[1] = [num |-> n]
    BY <1>1, <1>2, <1>4, <1>7
  <2> QED BY <2>1, PlainWords
<1>9. First(data, IVSize) = iv
  <2>1. /\ AnySeq(First(data, IVSize)) /\ Len(First(data, IVSize)) = IVSize
        /\ \A i \in 1 .. IVSize : First(data, IVSize)[i] = data[i]
    BY <1>4, <1>7, FirstDef
  <2>2. \A i \in 1 .. IVSize : First(data, IVSize)[i] = iv[i]
    BY <2>1, <1>1, <1>4, <1>7
  <2> QED BY <2>1, <2>2, <1>2, SameSeq
<1>10. After(data, IVSize) = sealed
  <2> DEFINE t == After(data, IVSize)
  <2>1. /\ AnySeq(t) /\ Len(t) = size
        /\ \A i \in 1 .. size : t[i] = data[IVSize + i]
    <3>1. /\ AnySeq(t) /\ Len(t) = Len(data) - IVSize
          /\ \A i \in 1 .. Len(data) - IVSize : t[i] = data[IVSize + i]
      <4>1. AnySeq(data) /\ IVSize \in 0 .. Len(data)
        BY <1>4, <1>7
      <4> QED BY <4>1, AfterDef
    <3>2. Len(data) - IVSize = size
      BY SMT, <1>2, <1>3, <1>7
    <3> HIDE DEF t
    <3> QED BY <3>1, <3>2
  <2> HIDE DEF t
  <2>2. \A i \in 1 .. size : t[i] = sealed[i]
    BY <2>1, <1>1, <1>3, <1>4, <1>7
  <2>3. t = sealed
    BY <2>1, <2>2, <1>3, SameSeq
  <2> QED BY <2>3 DEF t
<1> QED BY <1>5, <1>7, <1>8, <1>9, <1>10 DEF data, iv, sealed, size

(* A ciphertext opens under its own key only.                              *)
LEMMA BoxReads ==
  ASSUME NEW b, NEW magic, NEW key, NEW n, NEW plain, AnySeq(plain), IsBox(b, magic, key, n, plain)
  PROVE  /\ DecryptSmall(key, Tail(b)) = Ok(plain)
         /\ \A other : other # key => DecryptSmall(other, Tail(b)) = Err
<1> DEFINE data == Tail(b)
           iv == IV(n, 0)
           sealed == Seal(key, iv, plain)
<1>1. /\ Len(data) = IVSize + (Len(plain) + TagSize)
      /\ First(data, IVSize) = iv /\ After(data, IVSize) = sealed
  <2>1. Len(data) = IVSize + (Len(plain) + TagSize)
    BY BoxTail
  <2>2. First(data, IVSize) = iv
    BY BoxTail
  <2>3. After(data, IVSize) = sealed
    BY SMT, BoxTail
  <2> QED BY <2>1, <2>2, <2>3
<1>2. Len(plain) \in Nat
  BY SeqFacts
<1>3. ~(Len(data) < IVSize + TagSize)
  BY SMT, <1>1, <1>2, FormatAssumption
<1> HIDE DEF data
<1>4. \A k : DecryptSmall(k, data) = Open(k, iv, sealed)
  BY <1>1, <1>3 DEF DecryptSmall
<1>5. Open(key, iv, sealed) = Ok(plain)
  BY OpenSeal
<1>6. ASSUME NEW other, other # key PROVE Open(other, iv, sealed) = Err
  <2>1. sealed[1] = SealedWord(key, iv, plain, 1)
    BY SealDef
  <2>2. sealed[1].plain = plain /\ sealed[1].key = key /\ Has(sealed[1], "plain")
    <3>1. LET w == SealedWord(key, iv, plain, 1) IN
          w.plain = plain /\ w.key = key /\ Has(w, "plain")
      BY SMT, SealedWords
    <3> QED BY <2>1, <3>1
  <2>3. sealed # Seal(other, iv, plain)
    <3>1. Seal(other, iv, plain)[1] = SealedWord(other, iv, plain, 1)
      BY SealDef
    <3>2. Seal(other, iv, plain)[1].key = other
      <4>1. SealedWord(other, iv, plain, 1).key = other
        BY SMT, SealedWords
      <4> QED BY <3>1, <4>1
    <3> QED BY <3>2, <2>2, <1>6
  <2> QED BY <2>2, <2>3 DEF Open
<1> QED BY <1>4, <1>5, <1>6 DEF data

(* Loops that fail, and loops that do not.                                 *)
IsDone(r, x, rest) == r.ok = TRUE /\ r.out = x /\ r.rest = rest
Flag(r) == r.ok \in BOOLEAN

LEMMA LeavingOk ==
  ASSUME NEW x, NEW rest
  PROVE  IsDone(Leaving(Ok(x), rest), x, rest)
  BY SMT DEF Leaving, Ok, IsDone

LEMMA StepBool ==
  ASSUME NEW format, NEW rest, NEW max
  PROVE  Step(format, rest, max).ok \in BOOLEAN
<1>1. \A key, iv, d : Open(key, iv, d).ok \in BOOLEAN
  BY OkDef DEF Open
<1>2. \A d : Decompress(d).ok \in BOOLEAN
  BY OkDef DEF Decompress
<1>3. \A r, s : r.ok \in BOOLEAN => Leaving(r, s).ok \in BOOLEAN
  BY LeavingDef
<1>4. Broken.ok \in BOOLEAN
  BY OkDef
<1>5. \A key : FrameGB1(key, rest).ok \in BOOLEAN
  <2> SUFFICES ASSUME NEW key PROVE FrameGB1(key, rest).ok \in BOOLEAN
    OBVIOUS
  <2> DEFINE end == Least(IVSize + chunkSize + TagSize, Len(rest))
             r == Open(key, First(rest, IVSize), SubSeq(rest, IVSize + 1, end))
             s == After(rest, end)
  <2>1. FrameGB1(key, rest) \in {Broken, Leaving(r, s)}
    BY DEF FrameGB1
  <2>2. r.ok \in BOOLEAN
    BY <1>1
  <2> HIDE DEF r, s
  <2>3. Leaving(r, s).ok \in BOOLEAN
    BY SMT, <2>2, <1>3
  <2> QED BY <2>1, <2>3, <1>4
<1>6. \A key : FrameSized(key, format, rest, max).ok \in BOOLEAN
  <2> SUFFICES ASSUME NEW key PROVE FrameSized(key, format, rest, max).ok \in BOOLEAN
    OBVIOUS
  <2> DEFINE end == 2 + IVSize + Number(rest[1])
             opened == Open(key, SubSeq(rest, 3, 2 + IVSize), SubSeq(rest, 3 + IVSize, end))
             flag == Number(rest[2])
             compressed == IF format = "GB2" THEN flag # 0 ELSE flag % 2 = 1
             r == IF opened.ok /\ compressed THEN Decompress(opened.out) ELSE opened
             s == After(rest, end)
  <2>1. FrameSized(key, format, rest, max) \in {Broken, Leaving(r, s)}
    BY DEF FrameSized
  <2> HIDE DEF compressed, s
  <2>2. opened.ok \in BOOLEAN
    BY <1>1
  <2> HIDE DEF opened
  <2>3. r.ok \in BOOLEAN
    BY <2>2, <1>2
  <2> HIDE DEF r
  <2>4. Leaving(r, s).ok \in BOOLEAN
    BY SMT, <2>3, <1>3
  <2> QED BY <2>1, <2>4, <1>4
<1> QED BY <1>5, <1>6 DEF Step

Went(before, frame, after) ==
    /\ after.ok \in BOOLEAN
    /\ after.ok = TRUE => before.ok = TRUE /\ frame.ok = TRUE /\ after.rest = frame.rest
    /\ after.ok = FALSE => after.out = before.out

LEMMA OnwardOk ==
  ASSUME NEW format, NEW max, NEW before, Flag(before)
  PROVE  Went(before, Step(format, before.rest, max), Onward(format, max, before))
<1> DEFINE frame == Step(format, before.rest, max)
           after == Onward(format, max, before)
<1>1. frame.ok \in BOOLEAN
  BY StepBool
<1>2. CASE before.ok /\ frame.ok
  <2>1. after = Leaving(Ok(before.out \o frame.out), frame.rest)
    BY <1>2 DEF Onward
  <2> HIDE DEF after, frame
  <2>2. after.ok = TRUE /\ after.rest = frame.rest
    <3> DEFINE x == before.out \o frame.out
    <3>1. IsDone(Leaving(Ok(x), frame.rest), x, frame.rest)
      BY LeavingOk
    <3> QED BY <2>1, <3>1 DEF IsDone
  <2> QED BY <1>2, <2>2 DEF after, frame, Went
<1>3. CASE ~(before.ok /\ frame.ok)
  <2>1. after = [ok |-> FALSE, out |-> before.out, rest |-> before.rest]
    BY <1>3 DEF Onward
  <2> HIDE DEF after, frame
  <2>2. after.ok = FALSE /\ after.out = before.out
    BY <2>1
  <2> QED BY <2>2 DEF after, frame, Went
<1> QED BY <1>2, <1>3

(* A loop that succeeds succeeded in every round.                          *)
Rounds(f, format, count, d, max) ==
    /\ f[0].ok = TRUE /\ f[0].rest = d /\ f[0].out = <<>>
    /\ \A k \in 0 .. count : f[k].ok \in BOOLEAN
    /\ f[count].ok = TRUE =>
         /\ \A k \in 0 .. count : f[k].ok = TRUE
         /\ \A k \in 1 .. count : LET frame == Step(format, f[k - 1].rest, max) IN
               frame.ok = TRUE /\ f[k].rest = frame.rest

LEMMA LoopOk ==
  ASSUME NEW format, NEW count \in Nat, NEW d, NEW max, NEW f, LoopOf(f, format, count, d, max)
  PROVE  Rounds(f, format, count, d, max)
<1>1. /\ f[0] = Leaving(Ok(<<>>), d)
      /\ \A i \in 1 .. count : f[i] = Onward(format, max, f[i - 1])
  BY DEF LoopOf
<1>2. f[0].ok = TRUE /\ f[0].rest = d /\ f[0].out = <<>>
  <2>1. IsDone(Leaving(Ok(<<>>), d), <<>>, d)
    BY LeavingOk
  <2> QED BY <1>1, <2>1 DEF IsDone
<1> DEFINE T == {k \in 0 .. count : f[k].ok \in BOOLEAN}
<1>3. 0 \in T
  <2>1. 0 \in 0 .. count
    BY SMT
  <2> QED BY <1>2, <2>1
<1>4. ASSUME NEW n \in 0 .. count - 1, n \in T PROVE n + 1 \in T
  <2> DEFINE k == n + 1
  <2>1. k \in 1 .. count /\ k \in 0 .. count /\ k - 1 = n
    BY SMT
  <2> HIDE DEF k
  <2>2. f[k] = Onward(format, max, f[n]) /\ f[n].ok \in BOOLEAN
    BY <1>1, <1>4, <2>1
  <2>3. f[k].ok \in BOOLEAN
    <3>1. Went(f[n], Step(format, f[n].rest, max), Onward(format, max, f[n]))
      <4>1. Flag(f[n])
        BY <2>2 DEF Flag
      <4> QED BY <4>1, OnwardOk
    <3> QED BY <2>2, <3>1 DEF Went
  <2>4. k \in T
    BY <2>1, <2>3
  <2> QED BY <2>4 DEF k
<1> HIDE DEF T
<1>5. \A n \in 0 .. count : n \in T
  BY <1>3, <1>4, Induction
<1>6. \A n \in 0 .. count : f[n].ok \in BOOLEAN
  BY <1>5 DEF T
<1>7. \A k \in 1 .. count : k - 1 \in 0 .. count /\ k \in 0 .. count
  BY SMT
<1>8. ASSUME f[count].ok = TRUE PROVE \A k \in 0 .. count : f[k].ok = TRUE
  <2> DEFINE U == {k \in 0 .. count : f[count - k].ok = TRUE}
  <2>1. 0 \in U
    <3>1. 0 \in 0 .. count /\ count - 0 = count
      BY SMT
    <3> QED BY <3>1, <1>8
  <2>2. ASSUME NEW n \in 0 .. count - 1, n \in U PROVE n + 1 \in U
    <3> DEFINE k == count - n
               m == n + 1
    <3>1. k \in 1 .. count /\ m \in 0 .. count /\ count - m = k - 1
      BY SMT
    <3>2. f[k].ok = TRUE
      BY <2>2
    <3> HIDE DEF k, m
    <3>3. f[k] = Onward(format, max, f[k - 1]) /\ f[k - 1].ok \in BOOLEAN
      BY <3>1, <1>1, <1>6, <1>7
    <3> DEFINE before == f[k - 1]
    <3> HIDE DEF before
    <3>4. Onward(format, max, before).ok = TRUE /\ before.ok \in BOOLEAN
      BY <3>2, <3>3 DEF before
    <3>5. before.ok = TRUE
      <4>1. Went(before, Step(format, before.rest, max), Onward(format, max, before))
        <5>1. Flag(before)
          BY <3>4 DEF Flag
        <5> QED BY <5>1, OnwardOk
      <4> QED BY <3>4, <4>1 DEF Went
    <3>6. m \in U
      BY <3>1, <3>5 DEF before
    <3> QED BY <3>6 DEF m
  <2> HIDE DEF U
  <2>3. \A n \in 0 .. count : n \in U
    BY <2>1, <2>2, Induction
  <2> SUFFICES ASSUME NEW k \in 0 .. count PROVE f[k].ok = TRUE
    OBVIOUS
  <2>4. count - k \in 0 .. count /\ count - (count - k) = k
    BY SMT
  <2>5. f[count - (count - k)].ok = TRUE
    BY <2>3, <2>4 DEF U
  <2> QED BY <2>4, <2>5
<1>9. ASSUME f[count].ok = TRUE, NEW k \in 1 .. count
      PROVE  LET frame == Step(format, f[k - 1].rest, max) IN
             frame.ok = TRUE /\ f[k].rest = frame.rest
  <2>1. f[k].ok = TRUE /\ f[k - 1].ok = TRUE /\ f[k] = Onward(format, max, f[k - 1])
    BY <1>1, <1>7, <1>8, <1>9
  <2> DEFINE before == f[k - 1]
             after == f[k]
  <2> HIDE DEF before, after
  <2>2. before.ok \in BOOLEAN /\ Onward(format, max, before).ok = TRUE /\ after = Onward(format, max, before)
    BY <2>1 DEF before, after
  <2>3. /\ Step(format, before.rest, max).ok = TRUE
        /\ after.rest = Step(format, before.rest, max).rest
    <3>1. Went(before, Step(format, before.rest, max), Onward(format, max, before))
      <4>1. Flag(before)
        BY <2>2 DEF Flag
      <4> QED BY <4>1, OnwardOk
    <3> QED BY <2>2, <3>1 DEF Went
  <2> QED BY <2>3 DEF before, after
<1> QED BY <1>2, <1>6, <1>8, <1>9 DEF Rounds

(* One whose first round fails has nothing to show.                        *)
LEMMA LoopFails ==
  ASSUME NEW format, NEW count \in Nat \ {0}, NEW d, NEW max, NEW f,
         LoopOf(f, format, count, d, max), Step(format, d, max).ok = FALSE
  PROVE  f[count].ok = FALSE /\ f[count].out = <<>>
<1>1. /\ f[0].ok = TRUE /\ f[0].rest = d /\ f[0].out = <<>>
      /\ \A k \in 0 .. count : f[k].ok \in BOOLEAN
  <2>1. count \in Nat
    OBVIOUS
  <2>2. Rounds(f, format, count, d, max)
    BY <2>1, LoopOk
  <2> QED BY <2>2 DEF Rounds
<1>2. \A i \in 1 .. count : f[i] = Onward(format, max, f[i - 1])
  BY DEF LoopOf
<1> DEFINE T == {n \in 0 .. count - 1 : f[n + 1].ok = FALSE /\ f[n + 1].out = <<>>}
<1>3. 0 \in T
  <2>1. 0 \in 0 .. count - 1 /\ 0 + 1 = 1 /\ 1 \in 1 .. count /\ 1 - 1 = 0
    BY SMT
  <2> DEFINE before == f[0]
             after == Onward(format, max, before)
  <2>2. f[1] = after
    BY <2>1, <1>2
  <2>3. before.ok = TRUE /\ before.rest = d /\ before.out = <<>>
    BY <1>1
  <2> HIDE DEF before
  <2>4. after.ok # TRUE /\ after.ok \in BOOLEAN /\ (after.ok = FALSE => after.out = before.out)
    <3>1. Went(before, Step(format, before.rest, max), after)
      <4>1. Flag(before)
        BY <2>3 DEF Flag
      <4> QED BY <4>1, OnwardOk
    <3>2. Step(format, before.rest, max).ok = FALSE
      BY <2>3
    <3> QED BY <3>1, <3>2 DEF Went
  <2>5. after.ok = FALSE /\ after.out = <<>>
    BY <2>3, <2>4
  <2> QED BY <2>1, <2>2, <2>5
<1>4. ASSUME NEW n \in 0 .. count - 1 - 1, n \in T PROVE n + 1 \in T
  <2> DEFINE k == n + 1
  <2>1. k \in 0 .. count - 1 /\ k + 1 \in 1 .. count /\ k + 1 - 1 = k
    BY SMT
  <2>2. f[k].ok = FALSE /\ f[k].out = <<>>
    BY <1>4
  <2> HIDE DEF k
  <2> DEFINE before == f[k]
             after == Onward(format, max, before)
  <2>3. f[k + 1] = after
    <3>1. f[k + 1] = Onward(format, max, f[k + 1 - 1])
      BY SMT, <2>1, <1>2
    <3> QED BY <2>1, <3>1
  <2> HIDE DEF before
  <2>4. before.ok = FALSE /\ before.out = <<>>
    BY <2>2 DEF before
  <2>5. after.ok # TRUE /\ after.ok \in BOOLEAN /\ (after.ok = FALSE => after.out = before.out)
    <3>1. Went(before, Step(format, before.rest, max), after)
      <4>1. Flag(before)
        BY <2>4 DEF Flag
      <4> QED BY <4>1, OnwardOk
    <3> QED BY <2>4, <3>1 DEF Went
  <2>6. after.ok = FALSE /\ after.out = <<>>
    BY <2>4, <2>5
  <2>7. k \in T
    BY <2>1, <2>3, <2>6
  <2> QED BY <2>7 DEF k
<1> HIDE DEF T
<1>5. count - 1 \in Nat /\ count - 1 \in 0 .. count - 1 /\ count - 1 + 1 = count
  BY SMT
<1>6. \A n \in 0 .. count - 1 : n \in T
  BY <1>3, <1>4, <1>5, Induction
<1>7. count - 1 \in T
  BY <1>5, <1>6
<1>8. f[count - 1 + 1].ok = FALSE /\ f[count - 1 + 1].out = <<>>
  BY <1>7 DEF T
<1> QED BY <1>5, <1>8

(* The words of a blob.                                                    *)
GoodWord(w) == Number(w) \in Nat /\ (Has(w, "plain") => AnySeq(w.plain))

LEMMA ReadableDef ==
  ASSUME NEW s, AnySeq(s)
  PROVE  Readable(s) <=> \A p \in 1 .. Len(s) : GoodWord(s[p])
  BY DEF Readable, GoodWord

LEMMA GoodWords ==
  ASSUME NEW n \in Nat, NEW x, NEW key, NEW iv, NEW plain, AnySeq(plain), NEW i
  PROVE  /\ GoodWord([num |-> n]) /\ GoodWord([iv |-> x]) /\ GoodWord([magic |-> x])
         /\ GoodWord(SealedWord(key, iv, plain, i))
<1>0. Noise \in Nat
  BY FormatAssumption
<1>1. GoodWord([num |-> n])
  <2>1. ~Has([num |-> n], "plain") /\ Number([num |-> n]) = n
    BY PlainWords
  <2> QED BY <2>1 DEF GoodWord
<1>2. GoodWord([iv |-> x])
  <2>1. ~Has([iv |-> x], "plain") /\ Number([iv |-> x]) = Noise
    BY PlainWords
  <2> QED BY <2>1, <1>0 DEF GoodWord
<1>3. GoodWord([magic |-> x])
  <2>1. ~Has([magic |-> x], "plain") /\ Number([magic |-> x]) = Noise
    BY SMT DEF Has, Number
  <2> QED BY <2>1, <1>0 DEF GoodWord
<1>4. GoodWord(SealedWord(key, iv, plain, i))
  <2> DEFINE w == SealedWord(key, iv, plain, i)
  <2>1. Has(w, "plain") /\ Number(w) = Noise /\ w.plain = plain
    BY SMT, SealedWords
  <2> HIDE DEF w
  <2>2. GoodWord(w)
    BY <2>1, <1>0 DEF GoodWord
  <2> QED BY <2>2 DEF w
<1> QED BY <1>1, <1>2, <1>3, <1>4

LEMMA GoodIV ==
  ASSUME NEW n \in Nat, NEW id, NEW j \in 1 .. IVSize
  PROVE  GoodWord(IV(n, id)[j])
<1>1. CASE j = 1
  <2>1. IV(n, id)[1] = [num |-> n]
    BY IVDef
  <2>2. GoodWord([num |-> n])
    BY GoodWords, NoWords
  <2> QED BY <2>1, <2>2, <1>1
<1>2. CASE j # 1
  <2>1. j \in 2 .. IVSize
    BY SMT, <1>2, FormatAssumption
  <2>2. IV(n, id)[j] = [iv |-> id]
    BY <1>2 DEF IV
  <2>3. 0 \in Nat
    BY SMT
  <2>4. GoodWord([iv |-> id])
    BY <2>3, GoodWords, NoWords
  <2> QED BY <2>2, <2>4
<1> QED BY <1>1, <1>2

LEMMA BoxReadable ==
  ASSUME NEW b, NEW magic, NEW key, NEW n \in Nat, NEW plain, AnySeq(plain),
         IsBox(b, magic, key, n, plain), NEW p \in 1 .. Len(b)
  PROVE  GoodWord(b[p])
<1> DEFINE size == Len(plain) + TagSize
<1>1. /\ Len(b) = 1 + IVSize + size /\ b[1] = [magic |-> magic]
      /\ \A j \in 1 .. IVSize : b[1 + j] = IV(n, 0)[j]
      /\ \A j \in 1 .. size : b[1 + IVSize + j] = SealedWord(key, IV(n, 0), plain, j)
  BY DEF IsBox
<1>2. size \in Nat /\ IVSize \in Nat
  <2>1. Len(plain) \in Nat
    BY SeqFacts
  <2> QED BY SMT, <2>1, FormatAssumption
<1> HIDE DEF size
<1>3. \/ p = 1
      \/ \E j \in 1 .. IVSize : p = 1 + j
      \/ \E j \in 1 .. size : p = 1 + IVSize + j
  <2>1. CASE p = 1
    BY <2>1
  <2>2. CASE p # 1 /\ p <= 1 + IVSize
    <3>1. p - 1 \in 1 .. IVSize /\ p = 1 + (p - 1)
      BY SMT, <2>2, <1>1, <1>2
    <3> QED BY <3>1
  <2>3. CASE ~(p <= 1 + IVSize)
    <3>1. p - (1 + IVSize) \in 1 .. size /\ p = 1 + IVSize + (p - (1 + IVSize))
      BY SMT, <2>3, <1>1, <1>2
    <3> QED BY <3>1
  <2> QED BY <2>1, <2>2, <2>3
<1>4. CASE p = 1
  <2>1. GoodWord([magic |-> magic])
    BY GoodWords, NoWords
  <2> QED BY <2>1, <1>1, <1>4
<1>5. ASSUME NEW j \in 1 .. IVSize, p = 1 + j PROVE GoodWord(b[p])
  BY <1>1, <1>5, GoodIV
<1>6. ASSUME NEW j \in 1 .. size, p = 1 + IVSize + j PROVE GoodWord(b[p])
  <2>1. GoodWord(SealedWord(key, IV(n, 0), plain, j))
    BY GoodWords
  <2> QED BY <2>1, <1>1, <1>6
<1> QED BY <1>3, <1>4, <1>5, <1>6

(* A small blob is read whatever number its IV begins with: the words of   *)
(* its ciphertext are not where the first chunk of a large one has them.   *)
LEMMA NoChunk ==
  ASSUME NEW b, NEW n \in Nat, NEW plain, AnySeq(plain), IsBox(b, "GB1", Key, n, plain), NEW max
  PROVE  /\ Step("GB1", Tail(Tail(b)), max).ok = FALSE
         /\ Tail(b) # <<>>
<1> DEFINE data == Tail(b)
           rest == Tail(data)
           size == Len(plain) + TagSize
<1>1. /\ AnySeq(data) /\ Len(data) = IVSize + size
      /\ \A p \in 1 .. Len(data) : data[p] = b[1 + p]
  BY BoxTail
<1>2. /\ Len(b) = 1 + IVSize + size
      /\ \A j \in 1 .. size : b[1 + IVSize + j] = SealedWord(Key, IV(n, 0), plain, j)
  BY DEF IsBox
<1>3. size \in Nat /\ IVSize \in Nat /\ IVSize # 0
  <2>1. Len(plain) \in Nat
    BY SeqFacts
  <2> QED BY SMT, <2>1, FormatAssumption
<1> HIDE DEF size, data
<1>4. Len(data) # 0 /\ 1 \in 0 .. Len(data)
  BY SMT, <1>1, <1>3
<1>5. data # <<>>
  BY <1>1, <1>4, SeqFacts
<1>6. rest = After(data, 1)
  BY <1>1, <1>5, WholeAfter
<1>7. AnySeq(rest) /\ Len(rest) = Len(data) - 1 /\ \A p \in 1 .. Len(data) - 1 : rest[p] = data[1 + p]
  <2>1. /\ AnySeq(After(data, 1)) /\ Len(After(data, 1)) = Len(data) - 1
        /\ \A p \in 1 .. Len(data) - 1 : After(data, 1)[p] = data[1 + p]
    <3>1. AnySeq(data) /\ 1 \in 0 .. Len(data)
      BY <1>1, <1>4
    <3> QED BY <3>1, AfterDef
  <2> QED BY <2>1, <1>6
<1> HIDE DEF rest
<1>8. \A p \in 1 .. Len(rest) : rest[p] = b[2 + p] /\ 2 + p \in 1 .. Len(b)
  <2> SUFFICES ASSUME NEW p \in 1 .. Len(rest) PROVE rest[p] = b[2 + p] /\ 2 + p \in 1 .. Len(b)
    OBVIOUS
  <2>1. /\ p \in 1 .. Len(data) - 1 /\ 1 + p \in 1 .. Len(data) /\ 1 + (1 + p) = 2 + p
        /\ 2 + p \in 1 .. Len(b)
    BY SMT, <1>1, <1>2, <1>3, <1>7
  <2>2. rest[p] = data[1 + p]
    BY <2>1, <1>7
  <2>3. data[1 + p] = b[1 + (1 + p)]
    BY <2>1, <1>1
  <2> QED BY <2>1, <2>2, <2>3
<1>9. Readable(rest)
  <2>1. \A p \in 1 .. Len(b) : GoodWord(b[p])
    BY BoxReadable
  <2>2. \A p \in 1 .. Len(rest) : GoodWord(rest[p])
    BY <2>1, <1>8
  <2> QED BY <2>2, <1>7, ReadableDef
<1>10. ASSUME Step("GB1", rest, max).ok = TRUE PROVE FALSE
  <2>1. HeadLen("GB1") + IVSize = IVSize
    BY SMT, <1>3 DEF HeadLen
  <2>2. IVSize + 1 \in 1 .. Len(rest) /\ rest[IVSize + 1].at = 1
    <3>1. LET from == HeadLen("GB1") + IVSize IN
          from + 1 \in 1 .. Len(rest) /\ rest[from + 1].at = 1
      BY <1>9, <1>10, StepReads
    <3> QED BY <3>1, <2>1
  <2>3. rest[IVSize + 1] = b[2 + (IVSize + 1)]
    BY <2>2, <1>8
  <2>4. 2 + (IVSize + 1) = 1 + IVSize + 2 /\ 2 \in 1 .. size
    BY SMT, <2>2, <1>1, <1>3, <1>7
  <2>5. b[1 + IVSize + 2] = SealedWord(Key, IV(n, 0), plain, 2)
    BY <2>4, <1>2
  <2>6. SealedWord(Key, IV(n, 0), plain, 2).at = 2
    BY SMT, SealedWords
  <2>7. 1 # 2
    BY SMT
  <2> QED BY <2>2, <2>3, <2>4, <2>5, <2>6, <2>7
<1>11. Step("GB1", rest, max).ok = FALSE
  BY <1>10, StepBool
<1> QED BY <1>5, <1>11 DEF rest, data

LEMMA SmallReads ==
  ASSUME NEW plain, AnySeq(plain), Len(plain) < chunkSize, NEW n \in Nat
  PROVE  LET b == EncryptSmall(Key, plain, n) IN
         Decrypt(Key, b) = Ok(plain) /\ DecryptStreamToFile(Key, b) = Unpack(Ok(plain))
<1> DEFINE b == EncryptSmall(Key, plain, n)
           data == Tail(b)
           large == ChunksCounted(Key, "GB1", data)
<1>1. IsBox(b, "GB1", Key, n, plain)
  BY BoxDef DEF EncryptSmall
<1> HIDE DEF b
<1>2. /\ b # <<>> /\ AnySeq(data) /\ Len(data) = IVSize + (Len(plain) + TagSize)
      /\ Number(data[1]) = n
  BY <1>1, BoxTail
<1>3. b[1] = [magic |-> "GB1"]
  BY <1>1 DEF IsBox
<1>4. DecryptSmall(Key, data) = Ok(plain)
  BY <1>1, BoxReads
<1>5. /\ \A max : Step("GB1", Tail(data), max).ok = FALSE
      /\ data # <<>>
  BY <1>1, NoChunk
<1>6. Number(data[1]) = n
  BY <1>2
<1>7. Len(plain) \in Nat
  BY SeqFacts
<1>8. Len(data) > 1 /\ Short(data) /\ Len(data) <= MaxBlobSize
  BY SMT, <1>2, <1>7, FormatAssumption DEF Short, MaxBlobSize
<1> HIDE DEF data
<1>9. CASE IsChunkCount(n)
  <2>1. n \in Nat \ {0}
    BY SMT, <1>9 DEF IsChunkCount
  <2>2. large = Chunks(Key, "GB1", n, Tail(data), MaxStoredSize)
    BY <1>5, <1>6, <1>9 DEF ChunksCounted
  <2> DEFINE d == Tail(data)
  <2> HIDE DEF large
  <2>3. PICK f : LoopOf(f, "GB1", n, d, MaxStoredSize)
    BY ChunksLoop
  <2>4. large = f[n]
    BY <2>2, <2>3 DEF LoopOf
  <2>5. Step("GB1", d, MaxStoredSize).ok = FALSE
    BY <1>5
  <2> HIDE DEF d
  <2>6. f[n].ok = FALSE /\ f[n].out = <<>>
    BY <2>1, <2>3, <2>5, LoopFails
  <2>7. large.ok = FALSE /\ large.out = <<>>
    BY <2>4, <2>6
  <2>8. IsChunkCount(Number(data[1]))
    BY <1>6, <1>9
  <2>9. /\ Decrypt(Key, b) = Tried(Consumed(large), DecryptSmall(Key, data))
        /\ DecryptStreamToFile(Key, b) = TriedStream(large, data)
    BY <1>2, <1>3, <1>5, <1>8, <2>8, DecryptDef DEF data, large
  <2>10. Consumed(large).ok = FALSE
    BY <2>7, OkDef DEF Consumed
  <2>11. Tried(Consumed(large), DecryptSmall(Key, data)) = Ok(plain)
    BY <2>10, <1>4 DEF Tried
  <2>12. TriedStream(large, data) = Unpack(Ok(plain))
    BY <2>7, <1>4, <1>8 DEF TriedStream
  <2> QED BY <2>9, <2>11, <2>12 DEF b
<1>10. CASE ~IsChunkCount(n)
  <2>1. ~IsChunkCount(Number(data[1]))
    BY <1>6, <1>10
  <2>2. /\ Decrypt(Key, b) = DecryptSmall(Key, data)
        /\ DecryptStreamToFile(Key, b) = Unpack(DecryptSmall(Key, data))
    BY <1>2, <1>3, <1>8, <2>1, DecryptDef DEF data
  <2> QED BY <2>2, <1>4 DEF b
<1> QED BY <1>9, <1>10

(* Blobs made as the encoders make them.                                   *)
SmallBlob(content, blob) ==
    \E stored :
        /\ AnySeq(stored) /\ Len(stored) < chunkSize /\ blob = EncryptSmall(Key, stored, 0)
        /\ \/ stored = content
           \/ AnySeq(content) /\ Len(content) > 1 /\ stored = ZstdFrame(content)

WellMade(content, blob) ==
    \/ SmallBlob(content, blob)
    \/ \E format, size, cs, st, fl : IsLarge(content, blob, format, size, cs, st, fl)

LEMMA WellMadeDecodes ==
  ASSUME NEW content, NEW blob, WellMade(content, blob), ~IsCompressed(content)
  PROVE  Decodes(content, blob)
<1>0. Unpack(Ok(content)) = Ok(content)
  BY OkDef DEF Unpack
<1>1. CASE SmallBlob(content, blob)
  <2>1. PICK stored :
          /\ AnySeq(stored) /\ Len(stored) < chunkSize /\ blob = EncryptSmall(Key, stored, 0)
          /\ \/ stored = content
             \/ AnySeq(content) /\ Len(content) > 1 /\ stored = ZstdFrame(content)
    BY <1>1 DEF SmallBlob
  <2>2. 0 \in Nat
    BY SMT
  <2>3. Decrypt(Key, blob) = Ok(stored) /\ DecryptStreamToFile(Key, blob) = Unpack(Ok(stored))
    BY <2>1, <2>2, SmallReads
  <2>4. Unpack(Ok(stored)) = Ok(content)
    <3>1. CASE stored = content
      BY <3>1, <1>0
    <3>2. CASE AnySeq(content) /\ Len(content) > 1 /\ stored = ZstdFrame(content)
      <4>1. IsCompressed(stored) /\ Decompress(stored) = Ok(content)
        BY <3>2, ZstdDef
      <4> QED BY <4>1, OkDef DEF Unpack
    <3> QED BY <2>1, <3>1, <3>2
  <2> QED BY <2>3, <2>4 DEF Decodes, Download
<1>2. ASSUME NEW format, NEW size, NEW cs, NEW st, NEW fl,
             IsLarge(content, blob, format, size, cs, st, fl)
      PROVE  Decodes(content, blob)
  <2>1. Decrypt(Key, blob) = Ok(content) /\ DecryptStreamToFile(Key, blob) = Ok(content)
    BY <1>2, LargeReads
  <2> QED BY <2>1, <1>0 DEF Decodes, Download
<1> QED BY <1>1, <1>2 DEF WellMade

(* Manifests of both kinds.                                                *)
LEMMA ManifestsDecode ==
  ASSUME NEW plain, AnySeq(plain)
  PROVE  \A m \in {EncryptManifest(Key, plain), SealManifest(Key, plain)} :
            DecryptIfEncrypted(Key, m) = Ok(plain)
<1> DEFINE derivedKey == DeriveMetadataKey(Key)
<1>1. derivedKey # Key
  <2>1. Key.purpose = "master" /\ derivedKey.purpose = "metadata"
    BY SMT DEF Key, MasterKey, DeriveMetadataKey
  <2>2. "master" # "metadata"
    BY SMT
  <2> QED BY <2>1, <2>2
<1> HIDE DEF derivedKey
<1>2. ASSUME NEW key, NEW m, m = SealManifest(key, plain)
      PROVE  /\ m # <<>> /\ m[1] = [magic |-> "GKM1"]
             /\ DecryptSmall(key, Tail(m)) = Ok(plain)
             /\ \A other : other # key => DecryptSmall(other, Tail(m)) = Err
  <2>1. IsBox(m, "GKM1", key, 0, plain)
    BY <1>2, BoxDef DEF SealManifest
  <2>2. m[1] = [magic |-> "GKM1"]
    BY <2>1 DEF IsBox
  <2>3. m # <<>>
    BY <2>1, BoxTail
  <2> QED BY <2>1, <2>2, <2>3, BoxReads
<1>3. ASSUME NEW m, m = EncryptManifest(Key, plain) PROVE DecryptIfEncrypted(Key, m) = Ok(plain)
  <2>1. m = SealManifest(derivedKey, plain)
    BY <1>3 DEF EncryptManifest, derivedKey
  <2>2. m # <<>> /\ m[1] = [magic |-> "GKM1"] /\ DecryptSmall(derivedKey, Tail(m)) = Ok(plain)
    BY <2>1, <1>2
  <2> QED BY <2>2, OkDef DEF DecryptIfEncrypted, DecryptManifest, derivedKey
<1>4. ASSUME NEW m, m = SealManifest(Key, plain) PROVE DecryptIfEncrypted(Key, m) = Ok(plain)
  <2>1. /\ m # <<>> /\ m[1] = [magic |-> "GKM1"] /\ DecryptSmall(Key, Tail(m)) = Ok(plain)
        /\ DecryptSmall(derivedKey, Tail(m)) = Err
    BY <1>1, <1>2, <1>4
  <2> QED BY <2>1, OkDef DEF DecryptIfEncrypted, DecryptManifest, derivedKey
<1> QED BY <1>3, <1>4

-----------------------------------------------------------------------------
(* What the encoders make                                                  *)
LEMMA FirstMore ==
  ASSUME NEW s, AnySeq(s), NEW a \in 0 .. Len(s), NEW b \in a .. Len(s)
  PROVE  First(s, a) \o SubSeq(s, a + 1, b) = First(s, b)
<1> DEFINE x == First(s, a)
           y == SubSeq(s, a + 1, b)
           z == First(s, b)
           m == b - a
<1>1. Len(s) \in Nat
  BY SeqFacts
<1>2. /\ b \in 0 .. Len(s) /\ a + 1 \in 1 .. Len(s) + 1 /\ b \in a + 1 - 1 .. Len(s)
      /\ m = b - (a + 1) + 1 /\ m \in Nat /\ a + m = b
      /\ \A i \in 1 .. m : a + 1 + i - 1 = a + i /\ a + i \in 1 .. b
      /\ \A i \in 1 .. a : i \in 1 .. b
  BY SMT, <1>1
<1>3. AnySeq(x) /\ Len(x) = a /\ \A i \in 1 .. a : x[i] = s[i]
  BY FirstDef
<1>4. AnySeq(z) /\ Len(z) = b /\ \A i \in 1 .. b : z[i] = s[i]
  BY <1>2, FirstDef
<1>5. AnySeq(y) /\ Len(y) = m /\ \A i \in 1 .. m : y[i] = s[a + i]
  <2>1. /\ AnySeq(y) /\ Len(y) = b - (a + 1) + 1
        /\ \A i \in 1 .. b - (a + 1) + 1 : y[i] = s[a + 1 + i - 1]
    <3> DEFINE g == a + 1
    <3>1. g \in 1 .. Len(s) + 1 /\ b \in g - 1 .. Len(s)
      BY SMT, <1>1, <1>2
    <3> HIDE DEF g
    <3>2. /\ AnySeq(SubSeq(s, g, b)) /\ Len(SubSeq(s, g, b)) = b - g + 1
          /\ \A i \in 1 .. b - g + 1 : SubSeq(s, g, b)[i] = s[g + i - 1]
      BY <3>1, Piece
    <3> QED BY <3>2 DEF g
  <2> HIDE DEF y, m
  <2> QED BY <2>1, <1>2
<1> HIDE DEF x, y, z, m
<1>5a. AnySeq(x) /\ AnySeq(y) /\ Len(x) = a /\ Len(y) = m
  BY <1>3, <1>5
<1>6. AnySeq(x \o y) /\ Len(x \o y) = Len(x) + Len(y) /\ \A i \in 1 .. Len(x) : (x \o y)[i] = x[i]
  BY <1>5a, Join
<1>7. \A i \in 1 .. m : (x \o y)[a + i] = y[i]
  <2>1. Glued(x, y, Len(x), Len(y))
    BY <1>5a, JoinGlued
  <2> QED BY <2>1, <1>5a DEF Glued
<1>8. Len(x \o y) = b
  BY <1>2, <1>3, <1>5, <1>6
<1>9. ASSUME NEW i \in 1 .. b PROVE (x \o y)[i] = z[i]
  <2>1. CASE i <= a
    <3>1. i \in 1 .. a
      BY SMT, <2>1
    <3> QED BY <3>1, <1>3, <1>4, <1>6
  <2>2. CASE ~(i <= a)
    <3> DEFINE j == i - a
    <3>1. j \in 1 .. m /\ a + j = i
      BY SMT, <2>2, <1>2
    <3> HIDE DEF j
    <3>2. (x \o y)[a + j] = s[a + j]
      BY <3>1, <1>5, <1>7
    <3> QED BY <3>1, <3>2, <1>4
  <2> QED BY <2>1, <2>2
<1>10. x \o y = z
  BY <1>4, <1>6, <1>8, <1>9, SameSeq
<1> QED BY <1>10 DEF x, y, z

LEMMA Products ==
  ASSUME NEW c \in Nat, NEW k \in Nat
  PROVE  k * c \in Nat /\ (k + 1) * c = k * c + c /\ \A m \in Nat : k <= m => k * c <= m * c
<1>1. k * c \in Nat /\ (k + 1) * c = k * c + c
  BY SMT
<1>2. ASSUME NEW m \in Nat, k <= m PROVE k * c <= m * c
  <2>1. m - k \in Nat /\ k + (m - k) = m
    BY SMT, <1>2
  <2> DEFINE e == m - k
  <2> HIDE DEF e
  <2>2. (k + e) * c = k * c + e * c /\ e * c \in Nat
    BY SMT, <2>1 DEF e
  <2>3. m * c = k * c + e * c
    BY <2>1, <2>2 DEF e
  <2> QED BY SMT, <1>1, <2>2, <2>3
<1> QED BY <1>1, <1>2

(* Encrypt cuts its input into chunks.                                     *)
Cuts(plain) == [i \in 1 .. CeilDiv(Len(plain), chunkSize) |-> ChunkOf(plain, i)]

LEMMA CutsDef ==
  ASSUME NEW plain, AnySeq(plain)
  PROVE  LET N == CeilDiv(Len(plain), chunkSize)
             cs == Cuts(plain) IN
         /\ N \in Nat /\ AllSeqs(cs) /\ Len(cs) = N /\ Concat(cs) = plain
         /\ \A i \in 1 .. N : Len(cs[i]) <= chunkSize /\ (i # N => Len(cs[i]) = chunkSize)
<1> DEFINE L == Len(plain)
           c == chunkSize
           N == CeilDiv(L, c)
           cs == Cuts(plain)
           To(i) == Least(i * c, L)
<1>1. L \in Nat /\ c \in Nat \ {0} /\ c \in Nat
  BY SeqFacts, FormatAssumption
<1>2. N \in Nat /\ L <= N * c /\ N * c < L + c
  BY <1>1, CeilDivDef
<1>3. /\ cs = [i \in 1 .. N |-> cs[i]]
      /\ \A i \in 1 .. N : cs[i] = SubSeq(plain, (i - 1) * c + 1, To(i))
  BY DEF Cuts, ChunkOf
<1> HIDE DEF N, cs, L, c
<1>4. AnySeq(cs) /\ Len(cs) = N
  BY <1>2, <1>3, MakeSeq
<1>5. ASSUME NEW n \in 0 .. N - 1
      PROVE  LET k == n + 1 IN
             /\ k \in 1 .. N /\ k - 1 = n /\ n * c \in 0 .. L /\ To(n) = n * c
             /\ To(k) \in n * c .. L /\ To(k) - n * c <= c
             /\ k # N => To(k) = n * c + c
  <2> DEFINE k == n + 1
             a == n * c
             b == k * c
             e == N * c
  <2>1. n \in Nat /\ k \in Nat /\ k \in 1 .. N /\ k - 1 = n /\ k <= N /\ (k # N => k + 1 <= N)
    BY SMT, <1>2
  <2>2. a \in Nat /\ b = a + c /\ b <= e /\ (k # N => b + c <= e)
    <3>1. a \in Nat /\ b = a + c
      BY <2>1, <1>1, Products
    <3>2. b <= e
      BY <2>1, <1>1, <1>2, Products
    <3>3. ASSUME k # N PROVE b + c <= e
      <4> HIDE DEF k
      <4>1. k + 1 \in Nat /\ k + 1 <= N
        BY SMT, <2>1, <3>3
      <4>2. (k + 1) * c = k * c + c /\ (k + 1) * c <= N * c
        BY <4>1, <2>1, <1>1, <1>2, Products
      <4> QED BY <4>2
    <3> QED BY <3>1, <3>2, <3>3
  <2>3. L <= e /\ e < L + c
    BY <1>2
  <2>4. e \in Nat
    BY <1>1, <1>2, Products
  <2> HIDE DEF a, b, e, k
  <2>5. /\ a \in 0 .. L /\ Least(a, L) = a /\ Least(b, L) \in a .. L /\ Least(b, L) - a <= c
        /\ k # N => Least(b, L) = a + c
    BY SMT, <2>2, <2>3, <2>4, <1>1 DEF Least
  <2> QED BY <2>1, <2>5 DEF a, b, k
<1>6. ASSUME NEW i \in 1 .. N
      PROVE  /\ AnySeq(cs[i]) /\ Len(cs[i]) <= c /\ (i # N => Len(cs[i]) = c)
  <2> DEFINE n == i - 1
             a == n * c
             b == To(i)
  <2>1. n \in 0 .. N - 1 /\ n + 1 = i
    BY SMT, <1>2
  <2>2. a \in 0 .. L /\ b \in a .. L /\ b - a <= c /\ (i # N => b = a + c)
    <3> HIDE DEF n
    <3> QED BY <2>1, <1>5
  <2>3. cs[i] = SubSeq(plain, a + 1, b)
    BY <1>3
  <2> HIDE DEF a, b, n
  <2>4. a + 1 \in 1 .. L + 1 /\ b \in a + 1 - 1 .. L /\ b - (a + 1) + 1 = b - a
        /\ (i # N => b - a = c)
    BY SMT, <2>2, <1>1
  <2>5. AnySeq(SubSeq(plain, a + 1, b)) /\ Len(SubSeq(plain, a + 1, b)) = b - (a + 1) + 1
    <3> DEFINE g == a + 1
    <3>1. g \in 1 .. Len(plain) + 1 /\ b \in g - 1 .. Len(plain)
      BY SMT, <1>1, <2>2 DEF L
    <3> HIDE DEF g
    <3>2. AnySeq(SubSeq(plain, g, b)) /\ Len(SubSeq(plain, g, b)) = b - g + 1
      BY <3>1, Piece
    <3> QED BY <3>2 DEF g
  <2> QED BY <2>2, <2>3, <2>4, <2>5
<1>7. AllSeqs(cs)
  BY <1>4, <1>6 DEF AllSeqs
<1>8. /\ Pre(cs, 0) = <<>> /\ Pre(cs, N) = Concat(cs)
      /\ \A k \in 1 .. N : Pre(cs, k) = Pre(cs, k - 1) \o cs[k]
  <2>1. /\ Pre(cs, 0) = <<>> /\ Pre(cs, Len(cs)) = Concat(cs)
        /\ \A k \in 1 .. Len(cs) : Pre(cs, k) = Pre(cs, k - 1) \o cs[k]
    BY <1>7, PreDef
  <2> QED BY <2>1, <1>4
<1> DEFINE T == {k \in 0 .. N : Pre(cs, k) = First(plain, To(k))}
<1>9. 0 \in T
  <2>1. 0 \in 0 .. N /\ 0 * c = 0 /\ Least(0, L) = 0 /\ 0 \in 0 .. L
    BY SMT, <1>1, <1>2 DEF Least
  <2>2. AnySeq(First(plain, 0)) /\ Len(First(plain, 0)) = 0
    BY <2>1, FirstDef DEF L
  <2>3. First(plain, 0) = <<>>
    BY <2>2, SeqFacts
  <2> QED BY <2>1, <2>3, <1>8
<1>10. ASSUME NEW n \in 0 .. N - 1, n \in T PROVE n + 1 \in T
  <2> DEFINE k == n + 1
             a == n * c
             b == To(k)
  <2>1. /\ k \in 1 .. N /\ k - 1 = n /\ a \in 0 .. L /\ To(n) = a /\ b \in a .. L
    BY <1>5
  <2>2. Pre(cs, n) = First(plain, a)
    BY <1>10, <2>1
  <2>3. k \in 0 .. N
    BY SMT, <2>1
  <2> HIDE DEF k
  <2>4. cs[k] = SubSeq(plain, (k - 1) * c + 1, b)
    BY <2>1, <1>3
  <2>5. cs[k] = SubSeq(plain, a + 1, b)
    BY <2>1, <2>4
  <2>6. Pre(cs, k) = First(plain, a) \o SubSeq(plain, a + 1, b)
    BY <2>1, <2>2, <2>5, <1>8
  <2> HIDE DEF a, b
  <2>7. Pre(cs, k) = First(plain, b)
    BY <2>1, <2>6, FirstMore DEF L
  <2>8. k \in T
    BY <2>3, <2>7 DEF b
  <2> QED BY <2>8 DEF k
<1> HIDE DEF T
<1>11. N \in T
  <2>1. \A n \in 0 .. N : n \in T
    BY <1>2, <1>9, <1>10, Induction
  <2>2. N \in 0 .. N
    BY SMT, <1>2
  <2> QED BY <2>1, <2>2
<1>12. Concat(cs) = plain
  <2>1. Least(N * c, L) = L
    <3> DEFINE e == N * c
    <3>1. e \in Nat
      BY <1>1, <1>2, Products
    <3>2. L <= e
      BY <1>2
    <3> HIDE DEF e
    <3>3. Least(e, L) = L
      BY SMT, <1>1, <3>1, <3>2 DEF Least
    <3> QED BY <3>3 DEF e
  <2>2. Pre(cs, N) = First(plain, L)
    BY <1>11, <2>1 DEF T
  <2>3. First(plain, L) = plain
    BY WholeAfter DEF L
  <2> QED BY <2>2, <2>3, <1>8
<1> QED BY <1>2, <1>4, <1>6, <1>7, <1>12 DEF N, cs, L, c

LEMMA EncryptMade ==
  ASSUME NEW plain, AnySeq(plain), Len(plain) <= Noise
  PROVE  /\ Len(plain) < chunkSize => Encrypt(Key, plain) = EncryptSmall(Key, plain, 0)
         /\ WellMade(plain, Encrypt(Key, plain))
<1> DEFINE L == Len(plain)
           N == CeilDiv(L, chunkSize)
           cs == Cuts(plain)
           fl == [i \in 1 .. N |-> FALSE]
           format == LargeFormat(L)
           b == Encrypt(Key, plain)
<1>1. L \in Nat /\ chunkSize \in Nat \ {0}
  BY SeqFacts, FormatAssumption
<1>2. CASE L < chunkSize
  <2>1. b = EncryptSmall(Key, plain, 0)
    BY <1>2 DEF Encrypt
  <2>2. SmallBlob(plain, b)
    BY <1>2, <2>1 DEF SmallBlob
  <2> QED BY <2>1, <2>2 DEF WellMade
<1>3. CASE ~(L < chunkSize)
  <2>1. /\ N \in Nat /\ AllSeqs(cs) /\ Len(cs) = N /\ Concat(cs) = plain
        /\ \A i \in 1 .. N : Len(cs[i]) <= chunkSize /\ (i # N => Len(cs[i]) = chunkSize)
    BY CutsDef
  <2>2. \A i \in 1 .. N : fl[i] = FALSE
    OBVIOUS
  <2>3. Frames(format, cs, fl) = [i \in 1 .. N |-> Frame(format, Key, i, ChunkOf(plain, i), FALSE)]
    <3>1. \A i \in 1 .. N : cs[i] = ChunkOf(plain, i)
      BY DEF Cuts
    <3> HIDE DEF cs, fl
    <3> QED BY <3>1, <2>1, <2>2 DEF Frames
  <2>4. b = Header(format, L) \o Concat(Frames(format, cs, fl))
    BY <1>3, <2>3 DEF Encrypt
  <2>5. format \in {"GB1", "GB3"} /\ (format # "GB3" => N < MaxChunkCount)
    BY SMT, <2>1, FormatAssumption DEF LargeFormat
  <2>6. N # 0
    <3>1. L <= N * chunkSize
      BY <1>1, CeilDivDef
    <3>2. N = 0 => N * chunkSize = 0
      BY SMT, <1>1
    <3> HIDE DEF N, L
    <3> QED BY SMT, <3>1, <3>2, <1>1, <1>3
  <2> HIDE DEF b, cs, fl, N, L, format
  <2>7. Framing(format, cs, cs, fl)
    BY <2>1, <2>2 DEF Framing
  <2>8. IsLarge(plain, b, format, L, cs, cs, fl)
    <3>1. Len(cs) \in Nat \ {0} /\ CeilDiv(L, chunkSize) = Len(cs)
      BY <2>1, <2>6 DEF N
    <3>2. format \in {"GB1", "GB2", "GB3"} /\ (format # "GB3" => Len(cs) < MaxChunkCount)
      BY <2>1, <2>5
    <3>3. L <= Noise
      BY DEF L
    <3> QED BY <3>1, <3>2, <3>3, <2>1, <2>4, <2>7, <1>1 DEF IsLarge
  <2>9. WellMade(plain, b)
    BY <2>8 DEF WellMade
  <2> QED BY <1>3, <2>9 DEF b, L
<1> QED BY <1>2, <1>3

LEMMA SqueezedDef ==
  ASSUME NEW x, AnySeq(x)
  PROVE  LET z == Squeezed(x) IN
         /\ AnySeq(z) /\ Len(z) <= Len(x)
         /\ z # x => Len(x) > 1 /\ z = ZstdFrame(x) /\ up.squeeze
<1> DEFINE z == Squeezed(x)
<1>1. Len(x) \in Nat
  BY SeqFacts
<1>2. CASE z = x
  <2>1. Len(x) <= Len(x)
    BY SMT, <1>1
  <2> QED BY <1>2, <2>1
<1>3. CASE z # x
  <2>1. z = Compress(x) /\ up.squeeze /\ Len(Compress(x)) < Len(x)
    BY <1>3 DEF Squeezed
  <2>2. Len(x) > 1 /\ z = ZstdFrame(x)
    BY <1>3, <2>1 DEF Compress
  <2>3. AnySeq(z) /\ Len(z) < Len(x)
    BY <2>1, <2>2, ZstdDef
  <2>4. Len(z) \in Nat
    BY <2>3, SeqFacts
  <2>5. Len(z) <= Len(x)
    BY SMT, <1>1, <2>3, <2>4
  <2> QED BY <2>1, <2>2, <2>3, <2>5
<1> QED BY <1>2, <1>3

LEMMA SmallMade ==
  ASSUME NEW x, AnySeq(x), Len(x) < chunkSize, Len(x) <= Noise
  PROVE  WellMade(x, Encrypt(Key, Squeezed(x)))
<1> DEFINE z == Squeezed(x)
<1>1. AnySeq(z) /\ Len(z) <= Len(x) /\ (z # x => Len(x) > 1 /\ z = ZstdFrame(x))
  BY SqueezedDef
<1>2. Len(x) \in Nat /\ Len(z) \in Nat
  BY <1>1, SeqFacts
<1> HIDE DEF z
<1>3. Len(z) < chunkSize /\ Len(z) <= Noise
  BY SMT, <1>1, <1>2, FormatAssumption
<1>4. Encrypt(Key, z) = EncryptSmall(Key, z, 0)
  BY <1>1, <1>3, EncryptMade
<1>5. SmallBlob(x, Encrypt(Key, z))
  BY <1>1, <1>3, <1>4 DEF SmallBlob
<1> QED BY <1>5 DEF WellMade, z

-----------------------------------------------------------------------------
(* An upload that streams a file: what was written so far follows from     *)
(* what was read.                                                          *)
SqueezedBy(q, x) ==
    IF q /\ Len(x) >= MinCompress /\ Len(Compress(x)) < Len(x) THEN Compress(x) ELSE x
FormatBy(q, size) ==
    IF CeilDiv(size, chunkSize) >= MaxChunkCount THEN "GB3"
    ELSE IF q THEN "GB2" ELSE "GB1"
StoredBy(q, read) == [i \in 1 .. Len(read) |-> SqueezedBy(q, read[i])]
FlagsBy(q, read) == [i \in 1 .. Len(read) |-> SqueezedBy(q, read[i]) # read[i]]
FramesBy(q, size, read) == Frames(FormatBy(q, size), StoredBy(q, read), FlagsBy(q, read))

Written(q, size, read, out) ==
    /\ size \in Nat /\ size <= Noise
    /\ AllSeqs(read) /\ \A i \in 1 .. Len(read) : Len(read[i]) <= chunkSize
    /\ out = Header(FormatBy(q, size), size) \o Concat(FramesBy(q, size, read))

LEMMA SqueezedByDef ==
  ASSUME NEW q, NEW x, AnySeq(x)
  PROVE  LET z == SqueezedBy(q, x) IN
         /\ AnySeq(z) /\ Len(z) <= Len(x)
         /\ z # x => Len(x) > 1 /\ z = ZstdFrame(x) /\ q
<1> DEFINE z == SqueezedBy(q, x)
<1>1. Len(x) \in Nat
  BY SeqFacts
<1>2. CASE z = x
  <2>1. Len(x) <= Len(x)
    BY SMT, <1>1
  <2> QED BY <1>2, <2>1
<1>3. CASE z # x
  <2>1. z = Compress(x) /\ q /\ Len(Compress(x)) < Len(x)
    BY <1>3 DEF SqueezedBy
  <2>2. Len(x) > 1 /\ z = ZstdFrame(x)
    BY <1>3, <2>1 DEF Compress
  <2>3. AnySeq(z) /\ Len(z) < Len(x)
    BY <2>1, <2>2, ZstdDef
  <2>4. Len(z) \in Nat
    BY <2>3, SeqFacts
  <2>5. Len(z) <= Len(x)
    BY SMT, <1>1, <2>3, <2>4
  <2> QED BY <2>1, <2>2, <2>3, <2>5
<1> QED BY <1>2, <1>3

LEMMA StoredByDef ==
  ASSUME NEW q, NEW read, AllSeqs(read)
  PROVE  LET st == StoredBy(q, read) IN
         /\ Len(read) \in Nat /\ AllSeqs(st) /\ Len(st) = Len(read)
         /\ \A i \in 1 .. Len(read) : st[i] = SqueezedBy(q, read[i])
<1> DEFINE st == StoredBy(q, read)
<1>1. AnySeq(read) /\ Len(read) \in Nat
  BY SeqFacts DEF AllSeqs
<1>2. /\ st = [i \in 1 .. Len(read) |-> st[i]]
      /\ \A i \in 1 .. Len(read) : st[i] = SqueezedBy(q, read[i])
  BY DEF StoredBy
<1> HIDE DEF st
<1>3. AnySeq(st) /\ Len(st) = Len(read)
  BY <1>1, <1>2, MakeSeq
<1>4. ASSUME NEW i \in 1 .. Len(read) PROVE AnySeq(st[i])
  <2>1. AnySeq(read[i])
    BY DEF AllSeqs
  <2>2. AnySeq(SqueezedBy(q, read[i]))
    BY <2>1, SqueezedByDef
  <2> QED BY <2>2, <1>2
<1>5. AllSeqs(st)
  BY <1>3, <1>4 DEF AllSeqs
<1> QED BY <1>1, <1>2, <1>3, <1>5 DEF st

AreFrames(fs, format, q, read) ==
    /\ Len(read) \in Nat /\ AllSeqs(fs) /\ Len(fs) = Len(read)
    /\ \A i \in 1 .. Len(read) :
          fs[i] = Frame(format, Key, i, SqueezedBy(q, read[i]), SqueezedBy(q, read[i]) # read[i])

LEMMA FramesByDef ==
  ASSUME NEW q, NEW size, NEW read, AllSeqs(read)
  PROVE  AreFrames(FramesBy(q, size, read), FormatBy(q, size), q, read)
<1> DEFINE fs == FramesBy(q, size, read)
           st == StoredBy(q, read)
           fl == FlagsBy(q, read)
           format == FormatBy(q, size)
<1>1. /\ Len(read) \in Nat /\ AllSeqs(st) /\ Len(st) = Len(read)
      /\ \A i \in 1 .. Len(read) : st[i] = SqueezedBy(q, read[i])
  BY StoredByDef
<1>2. \A i \in 1 .. Len(read) : fl[i] = (SqueezedBy(q, read[i]) # read[i])
  BY DEF FlagsBy
<1>3. fs = Frames(format, st, fl)
  BY DEF FramesBy
<1> HIDE DEF fs, st, fl, format
<1>4. AllSeqs(fs) /\ Len(fs) = Len(st)
  BY <1>1, <1>3, FramesDef
<1>5. ASSUME NEW i \in 1 .. Len(read)
      PROVE  fs[i] = Frame(format, Key, i, SqueezedBy(q, read[i]), SqueezedBy(q, read[i]) # read[i])
  <2>1. i \in 1 .. Len(st)
    BY <1>1
  <2>2. fs[i] = Frame(format, Key, i, st[i], fl[i])
    BY <2>1, <1>3 DEF Frames
  <2> QED BY <2>2, <1>1, <1>2
<1> QED BY <1>1, <1>4, <1>5 DEF fs, format, AreFrames

Assoc(s, t, u) == (s \o t) \o u = s \o (t \o u)

LEMMA JoinAssoc ==
  ASSUME NEW s, AnySeq(s), NEW t, AnySeq(t), NEW u, AnySeq(u)
  PROVE  Assoc(s, t, u)
<1> DEFINE S == Range(s) \cup Range(t) \cup Range(u)
<1>1. s \in Seq(S) /\ t \in Seq(S) /\ u \in Seq(S)
  BY SMT DEF AnySeq
<1> HIDE DEF S
<1> QED BY SMT, <1>1 DEF Assoc

LEMMA HeaderSeq ==
  ASSUME NEW format, NEW size
  PROVE  AnySeq(Header(format, size))
<1> DEFINE x == IF format = "GB3" THEN Num(chunkSize) \o Num(size) ELSE Num(CeilDiv(size, chunkSize))
           m == Magic(format)
<1>1. AnySeq(m)
  BY OneWord DEF Magic
<1>2. AnySeq(x)
  <2>1. AnySeq(Num(chunkSize) \o Num(size)) /\ AnySeq(Num(CeilDiv(size, chunkSize)))
    BY Numbers
  <2> QED BY <2>1
<1>3. Header(format, size) = m \o x
  BY DEF Header
<1> HIDE DEF m, x
<1> QED BY <1>1, <1>2, <1>3, Join

LEMMA WriteOne ==
  ASSUME NEW q, NEW size, NEW read, NEW out, Written(q, size, read, out),
         NEW x, AnySeq(x), Len(x) <= chunkSize
  PROVE  LET z == SqueezedBy(q, x) IN
         Written(q, size, Append(read, x),
                 out \o Frame(FormatBy(q, size), Key, Len(read) + 1, z, z # x))
<1> DEFINE z == SqueezedBy(q, x)
           format == FormatBy(q, size)
           fr == Frame(format, Key, Len(read) + 1, z, z # x)
           more == Append(read, x)
           fs == FramesBy(q, size, read)
           gs == FramesBy(q, size, more)
           head == Header(format, size)
           n == Len(read)
<1>1. /\ size \in Nat /\ size <= Noise
      /\ AllSeqs(read) /\ \A i \in 1 .. n : Len(read[i]) <= chunkSize
      /\ out = head \o Concat(fs)
  BY DEF Written
<1>2. /\ AllSeqs(more) /\ Len(more) = n + 1 /\ more[n + 1] = x
      /\ \A i \in 1 .. n : more[i] = read[i]
  <2>1. Appended(more, read, x)
    BY <1>1, ConcatAppend
  <2> QED BY <2>1 DEF Appended
<1>3. /\ n \in Nat /\ AllSeqs(fs) /\ Len(fs) = n
      /\ \A i \in 1 .. n : fs[i] = Frame(format, Key, i, SqueezedBy(q, read[i]),
                                         SqueezedBy(q, read[i]) # read[i])
  <2>1. AreFrames(fs, format, q, read)
    BY <1>1, FramesByDef
  <2> QED BY <2>1 DEF AreFrames
<1>4. /\ AllSeqs(gs) /\ Len(gs) = Len(more)
      /\ \A i \in 1 .. Len(more) : gs[i] = Frame(format, Key, i, SqueezedBy(q, more[i]),
                                                 SqueezedBy(q, more[i]) # more[i])
  <2>1. AreFrames(gs, format, q, more)
    BY <1>2, FramesByDef
  <2> QED BY <2>1 DEF AreFrames
<1>5. AnySeq(fr)
  <2>1. AnySeq(z)
    BY SqueezedByDef
  <2>2. IsFrame(fr, format, n + 1, z, z # x)
    BY <2>1, FrameDef
  <2> QED BY <2>2 DEF IsFrame
<1>6. AnySeq(head)
  BY HeaderSeq
<1> HIDE DEF fs, gs, head, format, more
<1>7. /\ AllSeqs(Append(fs, fr)) /\ Len(Append(fs, fr)) = Len(fs) + 1
      /\ \A i \in 1 .. Len(fs) : Append(fs, fr)[i] = fs[i]
      /\ Append(fs, fr)[Len(fs) + 1] = fr
      /\ Concat(Append(fs, fr)) = Concat(fs) \o fr
  <2>1. Appended(Append(fs, fr), fs, fr)
    BY <1>3, <1>5, ConcatAppend
  <2> QED BY <2>1 DEF Appended
<1> DEFINE hs == Append(fs, fr)
           m == n + 1
<1>8. \A i \in 1 .. m : i \in 1 .. n \/ i = m
  BY SMT, <1>3
<1> HIDE DEF n, fr
<1>9. gs = hs
  <2>1. /\ Len(gs) = m /\ Len(hs) = m /\ AnySeq(gs) /\ AnySeq(hs)
        /\ \A i \in 1 .. n : hs[i] = fs[i]
        /\ hs[m] = fr
    BY <1>2, <1>3, <1>4, <1>7 DEF AllSeqs
  <2> HIDE DEF hs
  <2>2. \A i \in 1 .. m : gs[i] = Frame(format, Key, i, SqueezedBy(q, more[i]),
                                        SqueezedBy(q, more[i]) # more[i])
    BY <1>2, <1>4
  <2>3. m \in 1 .. m /\ \A i \in 1 .. n : i \in 1 .. m
    BY SMT, <1>3
  <2>4. more[m] = x /\ fr = Frame(format, Key, m, z, z # x)
    BY <1>2 DEF fr, n
  <2> HIDE DEF m
  <2>5. gs[m] = hs[m]
    BY <2>1, <2>2, <2>3, <2>4
  <2>6. ASSUME NEW i \in 1 .. n PROVE gs[i] = hs[i]
    <3>1. hs[i] = Frame(format, Key, i, SqueezedBy(q, read[i]), SqueezedBy(q, read[i]) # read[i])
      BY <2>1, <1>3
    <3>2. more[i] = read[i]
      BY <1>2
    <3> QED BY <3>1, <3>2, <2>2, <2>3
  <2>7. \A i \in 1 .. m : gs[i] = hs[i]
    BY <2>5, <2>6, <1>8
  <2> QED BY <2>1, <2>7, SameSeq
<1>10. AnySeq(Concat(fs))
  BY <1>3, OffDef
<1>11. out \o fr = head \o Concat(gs)
  <2>1. (head \o Concat(fs)) \o fr = head \o (Concat(fs) \o fr)
    <3>1. Assoc(head, Concat(fs), fr)
      BY <1>5, <1>6, <1>10, JoinAssoc
    <3> QED BY <3>1 DEF Assoc
  <2> QED BY <2>1, <1>1, <1>7, <1>9
<1>12. \A i \in 1 .. m : Len(more[i]) <= chunkSize
  BY <1>1, <1>2, <1>8
<1>13. Written(q, size, more, out \o fr)
  BY <1>1, <1>2, <1>11, <1>12 DEF Written, head, format, gs
<1> QED BY <1>13 DEF more, fr, format, n

LEMMA StreamMade ==
  ASSUME NEW q, NEW size, NEW read, NEW out, Written(q, size, read, out), read # <<>>,
         Len(read) = CeilDiv(size, chunkSize),
         \A i \in 1 .. Len(read) - 1 : Len(read[i]) = chunkSize
  PROVE  WellMade(Concat(read), out)
<1> DEFINE format == FormatBy(q, size)
           st == StoredBy(q, read)
           fl == FlagsBy(q, read)
           n == Len(read)
<1>1. /\ size \in Nat /\ size <= Noise
      /\ AllSeqs(read) /\ \A i \in 1 .. n : Len(read[i]) <= chunkSize
      /\ out = Header(format, size) \o Concat(Frames(format, st, fl))
  BY DEF Written, FramesBy
<1>2. /\ n \in Nat /\ AllSeqs(st) /\ Len(st) = n
      /\ \A i \in 1 .. n : st[i] = SqueezedBy(q, read[i])
  BY <1>1, StoredByDef
<1>3. \A i \in 1 .. n : fl[i] = (SqueezedBy(q, read[i]) # read[i])
  BY DEF FlagsBy
<1>4. n # 0
  <2>1. AnySeq(read)
    BY <1>1 DEF AllSeqs
  <2> QED BY <2>1, SeqFacts
<1>5. /\ format \in {"GB1", "GB2", "GB3"} /\ (format = "GB1" => ~q)
      /\ format # "GB3" => n < MaxChunkCount
  <2>1. CASE n >= MaxChunkCount
    <3>1. format = "GB3"
      BY <2>1 DEF FormatBy
    <3> QED BY SMT, <3>1
  <2>2. CASE ~(n >= MaxChunkCount)
    <3>1. format = IF q THEN "GB2" ELSE "GB1"
      BY <2>2 DEF FormatBy
    <3> HIDE DEF format, n
    <3>2. n < MaxChunkCount
      BY SMT, <1>2, <2>2, FormatAssumption
    <3>3. "GB2" # "GB1"
      BY SMT
    <3> QED BY <3>1, <3>2, <3>3
  <2> QED BY <2>1, <2>2
<1> HIDE DEF format, st, fl, n
<1>6. ASSUME NEW i \in 1 .. n
      PROVE  /\ Len(st[i]) <= chunkSize
             /\ i # n /\ format = "GB1" => Len(st[i]) = chunkSize
             /\ fl[i] \in BOOLEAN
             /\ fl[i] => format # "GB1" /\ Len(read[i]) > 1 /\ st[i] = ZstdFrame(read[i])
             /\ ~fl[i] => st[i] = read[i]
  <2> DEFINE x == read[i]
             z == SqueezedBy(q, x)
  <2>1. AnySeq(x) /\ Len(x) <= chunkSize
    BY <1>1 DEF AllSeqs, n
  <2>2. st[i] = z /\ fl[i] = (z # x)
    BY <1>2, <1>3
  <2>3. i # n => Len(x) = chunkSize
    <3>1. i # n => i \in 1 .. Len(read) - 1
      BY SMT, <1>2 DEF n
    <3> QED BY <3>1
  <2> HIDE DEF x
  <2>4. AnySeq(z) /\ Len(z) <= Len(x) /\ (z # x => Len(x) > 1 /\ z = ZstdFrame(x) /\ q)
    BY <2>1, SqueezedByDef
  <2> HIDE DEF z
  <2>5. Len(z) \in Nat /\ Len(x) \in Nat
    BY <2>1, <2>4, SeqFacts
  <2>6. Len(z) <= chunkSize
    BY SMT, <2>1, <2>4, <2>5, FormatAssumption
  <2>7. i # n /\ format = "GB1" => Len(z) = chunkSize
    BY <2>3, <2>4, <1>5
  <2>8. fl[i] \in BOOLEAN /\ (fl[i] <=> z # x)
    BY <2>2
  <2> QED BY <2>2, <2>4, <2>6, <2>7, <2>8, <1>5 DEF x
<1>7. Framing(format, read, st, fl)
  BY <1>1, <1>2, <1>6 DEF Framing, n
<1>8. Len(read) \in Nat \ {0} /\ (format # "GB3" => Len(read) < MaxChunkCount)
  BY <1>2, <1>4, <1>5 DEF n
<1>9. IsLarge(Concat(read), out, format, size, read, st, fl)
  BY <1>1, <1>5, <1>7, <1>8 DEF IsLarge
<1> QED BY <1>9 DEF WellMade

-----------------------------------------------------------------------------
(* The invariant                                                           *)
IsUpload == DOMAIN up = {"pc", "known", "squeeze", "size", "read", "out"}

IsMade(entry, content) == entry.steady => WellMade(content, entry.blob)

UploadInv ==
    /\ file \in Contents
    /\ IsUpload
    /\ IF up.pc = "chunks" THEN Written(up.squeeze, up.size, up.read, up.out) ELSE up.read = <<>>
    /\ \A a \in acked : a.known \in {{}, {a.hash}} /\ a.hash \in DOMAIN store
    /\ \A c \in DOMAIN store : IsMade(store[c], c)

LEMMA ContentSeq ==
  ASSUME NEW c \in Contents
  PROVE  AnySeq(c) /\ Len(c) <= Noise /\ Len(c) \in Nat
<1>1. AnySeq(c) /\ Len(c) <= Noise
  BY UploadAssumption DEF AnySeq
<1> QED BY <1>1, SeqFacts

LEMMA StoredMade ==
  ASSUME UploadInv, NEW content, NEW blob, NEW steady, steady \in BOOLEAN,
         steady => WellMade(content, blob)
  PROVE  LET s == Stored(content, blob, steady) IN
         /\ \A c \in DOMAIN s : IsMade(s[c], c)
         /\ DOMAIN s = DOMAIN store \cup {content}
<1> DEFINE s == Stored(content, blob, steady)
<1>1. \A c \in DOMAIN store : IsMade(store[c], c)
  BY DEF UploadInv
<1>2. CASE content \in DOMAIN store
  <2>1. s = store
    BY <1>2 DEF Stored
  <2> HIDE DEF s
  <2> QED BY <2>1, <1>1, <1>2 DEF s
<1>3. CASE content \notin DOMAIN store
  <2> DEFINE e == [blob |-> blob, steady |-> steady]
  <2>1. s = [c \in DOMAIN store \cup {content} |-> IF c = content THEN e ELSE store[c]]
    BY <1>3 DEF Stored
  <2>2. e.blob = blob /\ e.steady = steady
    OBVIOUS
  <2> HIDE DEF s, e
  <2>3. IsMade(e, content)
    BY <2>2 DEF IsMade
  <2>4. /\ DOMAIN s = DOMAIN store \cup {content} /\ s[content] = e
        /\ \A c \in DOMAIN store : s[c] = store[c]
    BY <2>1, <1>3
  <2>5. ASSUME NEW c \in DOMAIN s PROVE IsMade(s[c], c)
    <3>1. CASE c = content
      BY <3>1, <2>3, <2>4
    <3>2. CASE c \in DOMAIN store
      BY <3>2, <2>4, <1>1
    <3> QED BY <2>4, <3>1, <3>2
  <2> QED BY <2>4, <2>5 DEF s
<1> QED BY <1>2, <1>3

LEMMA NoUploadDef ==
  /\ NoUpload.pc # "chunks" /\ NoUpload.read = <<>>
  /\ DOMAIN NoUpload = {"pc", "known", "squeeze", "size", "read", "out"}
<1>1. "idle" # "chunks"
  BY SMT
<1> QED BY <1>1 DEF NoUpload

(* What an upload that succeeds returns.                                   *)
LEMMA Acknowledged ==
  ASSUME UploadInv, NEW known, NEW content, Succeed(known, content), known \in {{}, {content}},
         content \in DOMAIN store', DOMAIN store \subseteq DOMAIN store'
  PROVE  /\ \A a \in acked' : a.known \in {{}, {a.hash}} /\ a.hash \in DOMAIN store'
         /\ up' = NoUpload
<1> DEFINE e == [known |-> known, hash |-> content]
<1>1. acked' = acked \cup {e} /\ up' = NoUpload
  BY DEF Succeed
<1>2. e.known = known /\ e.hash = content
  OBVIOUS
<1> HIDE DEF e
<1>3. \A a \in acked : a.known \in {{}, {a.hash}} /\ a.hash \in DOMAIN store
  BY DEF UploadInv
<1>4. ASSUME NEW a \in acked' PROVE a.known \in {{}, {a.hash}} /\ a.hash \in DOMAIN store'
  <2>1. CASE a \in acked
    BY <2>1, <1>3
  <2>2. CASE a = e
    BY <2>2, <1>2
  <2> QED BY <2>1, <2>2, <1>1
<1> QED BY <1>1, <1>4

LEMMA UploadEnds ==
  ASSUME UploadInv, file' \in Contents, up' = NoUpload,
         \A a \in acked' : a.known \in {{}, {a.hash}} /\ a.hash \in DOMAIN store',
         \A c \in DOMAIN store' : IsMade(store'[c], c)
  PROVE  UploadInv'
<1>1. IsUpload' /\ up'.pc # "chunks" /\ up'.read = <<>>
  BY NoUploadDef DEF IsUpload
<1> QED BY <1>1 DEF UploadInv

LEMMA FinishKeeps ==
  ASSUME UploadInv, file' \in Contents, NEW content, NEW blob, NEW steady, steady \in BOOLEAN,
         steady => WellMade(content, blob),
         NEW known, known \in {{}, {content}},
         store' = Stored(content, blob, steady), Succeed(known, content)
  PROVE  UploadInv'
<1>1. /\ \A c \in DOMAIN store' : IsMade(store'[c], c)
      /\ DOMAIN store' = DOMAIN store \cup {content}
  BY StoredMade
<1>2. content \in DOMAIN store' /\ DOMAIN store \subseteq DOMAIN store'
  BY <1>1
<1>3. /\ \A a \in acked' : a.known \in {{}, {a.hash}} /\ a.hash \in DOMAIN store'
      /\ up' = NoUpload
  BY <1>2, Acknowledged
<1> QED BY <1>1, <1>3, UploadEnds

(* A step of an upload that stores nothing yet.                            *)
LEMMA UploadGoesOn ==
  ASSUME UploadInv, UNCHANGED <<file, store, acked>>, IsUpload',
         IF up'.pc = "chunks" THEN Written(up'.squeeze, up'.size, up'.read, up'.out)
                              ELSE up'.read = <<>>
  PROVE  UploadInv'
  BY DEF UploadInv

LEMMA NextChunkDef ==
  ASSUME NEW s, AnySeq(s), NEW at \in Nat
  PROVE  LET x == SubSeq(s, at + 1, Least(at + chunkSize, Len(s))) IN
         x # <<>> => AnySeq(x) /\ Len(x) <= chunkSize
<1> DEFINE e == Least(at + chunkSize, Len(s))
           g == at + 1
           x == SubSeq(s, g, e)
<1>1. Len(s) \in Nat /\ chunkSize \in Nat
  BY SeqFacts, FormatAssumption
<1>2. e \in Nat /\ e <= Len(s) /\ e <= at + chunkSize
  BY SMT, <1>1 DEF Least
<1> HIDE DEF e
<1>3. CASE at < e
  <2>1. g \in 1 .. Len(s) + 1 /\ e \in g - 1 .. Len(s) /\ e - g + 1 <= chunkSize
    BY SMT, <1>1, <1>2, <1>3
  <2> HIDE DEF g
  <2>2. AnySeq(x) /\ Len(x) = e - g + 1
    BY <2>1, Piece
  <2> QED BY <2>1, <2>2 DEF g, e
<1>4. CASE ~(at < e)
  <2>1. s \in Seq(Range(s))
    BY DEF AnySeq
  <2> DEFINE S == Range(s)
  <2> HIDE DEF S
  <2>2. s \in Seq(S)
    BY <2>1 DEF S
  <2>3. g > e /\ g \in Nat
    BY SMT, <1>2, <1>4
  <2> HIDE DEF g
  <2>4. SubSeq(s, g, e) = <<>>
    BY SMT, <1>2, <2>2, <2>3
  <2> QED BY <2>4 DEF g, e
<1> QED BY <1>3, <1>4

LEMMA WriteNone ==
  ASSUME NEW q, NEW size \in Nat, size <= Noise
  PROVE  Written(q, size, <<>>, Header(FormatBy(q, size), size))
<1> DEFINE fs == FramesBy(q, size, <<>>)
           head == Header(FormatBy(q, size), size)
<1>1. AnySeq(<<>>) /\ Len(<<>>) = 0
  BY NoWords
<1>2. \A i \in 1 .. Len(<<>>) : FALSE
  BY SMT, <1>1
<1>3. AllSeqs(<<>>)
  BY <1>1, <1>2 DEF AllSeqs
<1>4. AllSeqs(fs) /\ Len(fs) = 0
  <2>1. AreFrames(fs, FormatBy(q, size), q, <<>>)
    BY <1>3, FramesByDef
  <2> QED BY <2>1, <1>1 DEF AreFrames
<1> HIDE DEF fs
<1>5. Concat(fs) = <<>>
  <2>1. Pre(fs, 0) = <<>> /\ Pre(fs, Len(fs)) = Concat(fs)
    BY <1>4, PreDef
  <2> QED BY <2>1, <1>4
<1>6. head \o <<>> = head
  <2>1. head \in Seq(Range(head))
    BY HeaderSeq DEF AnySeq
  <2> DEFINE S == Range(head)
  <2> HIDE DEF S
  <2>2. head \in Seq(S)
    BY <2>1 DEF S
  <2> HIDE DEF head
  <2> QED BY SMT, <2>2
<1> QED BY <1>2, <1>3, <1>5, <1>6 DEF Written, fs

LEMMA UploadInvInit == UploadInit => UploadInv
<1> SUFFICES ASSUME UploadInit PROVE UploadInv
  OBVIOUS
<1>1. up = NoUpload /\ file \in Contents /\ store = <<>> /\ acked = {}
  BY DEF UploadInit
<1>2. IsUpload /\ up.pc # "chunks" /\ up.read = <<>>
  BY <1>1, NoUploadDef DEF IsUpload
<1>3. DOMAIN store = {}
  BY SMT, <1>1
<1> QED BY <1>1, <1>2, <1>3 DEF UploadInv

LEMMA UploadInvNext == UploadInv /\ [UploadNext]_uploadVars => UploadInv'
<1> SUFFICES ASSUME UploadInv, [UploadNext]_uploadVars PROVE UploadInv'
  OBVIOUS
<1>0. /\ file \in Contents /\ IsUpload
      /\ up.pc = "chunks" => Written(up.squeeze, up.size, up.read, up.out)
      /\ up.pc # "chunks" => up.read = <<>>
      /\ \A a \in acked : a.known \in {{}, {a.hash}} /\ a.hash \in DOMAIN store
      /\ \A c \in DOMAIN store : IsMade(store[c], c)
  BY DEF UploadInv
<1>a. AnySeq(file) /\ Len(file) <= Noise /\ Len(file) \in Nat
  BY <1>0, ContentSeq
<1>1. CASE WriteFile
  <2>1. file' \in Contents /\ UNCHANGED <<up, store, acked>>
    BY <1>1 DEF WriteFile
  <2> QED BY <2>1, <1>0 DEF UploadInv, IsUpload
<1>2. CASE UploadFails
  <2>1. up' = NoUpload /\ UNCHANGED <<file, store, acked>>
    BY <1>2 DEF UploadFails
  <2> QED BY <2>1, <1>0, UploadEnds
<1>3. CASE Start
  <2>1. PICK known \in {{}, {file}}, squeeze \in BOOLEAN :
          IF known # {} /\ known \subseteq DOMAIN store
          THEN Succeed(known, file)
          ELSE /\ up' = [NoUpload EXCEPT !.pc = "stat", !.known = known, !.squeeze = squeeze]
               /\ UNCHANGED acked
    BY <1>3 DEF Start
  <2>2. UNCHANGED <<file, store>>
    BY <1>3 DEF Start
  <2>3. CASE known # {} /\ known \subseteq DOMAIN store
    <3>1. Succeed(known, file) /\ known = {file} /\ file \in DOMAIN store
      BY <2>1, <2>3
    <3>2. file \in DOMAIN store' /\ DOMAIN store \subseteq DOMAIN store'
      BY <3>1, <2>2
    <3>3. /\ \A a \in acked' : a.known \in {{}, {a.hash}} /\ a.hash \in DOMAIN store'
          /\ up' = NoUpload
      BY <3>1, <3>2, Acknowledged
    <3> QED BY <3>3, <2>2, <1>0, UploadEnds
  <2>4. CASE ~(known # {} /\ known \subseteq DOMAIN store)
    <3>1. up' = [NoUpload EXCEPT !.pc = "stat", !.known = known, !.squeeze = squeeze] /\ UNCHANGED acked
      BY <2>1, <2>4
    <3>2. DOMAIN up' = DOMAIN NoUpload /\ up'.pc = "stat" /\ up'.read = NoUpload.read
      BY <3>1, NoUploadDef
    <3>3. IsUpload' /\ up'.pc # "chunks" /\ up'.read = <<>>
      <4>1. "stat" # "chunks"
        BY SMT
      <4> QED BY <3>2, <4>1, NoUploadDef DEF IsUpload
    <3> QED BY <3>1, <3>3, <2>2, UploadGoesOn
  <2> QED BY <2>3, <2>4
<1>4. CASE StatFile
  <2> DEFINE pc == IF Len(file) < chunkSize THEN "small" ELSE "header"
  <2>1. up' = [up EXCEPT !.pc = pc, !.size = Len(file)] /\ UNCHANGED <<file, store, acked>>
    BY <1>4 DEF StatFile
  <2>2. pc # "chunks"
    BY SMT
  <2> HIDE DEF pc
  <2>3. IsUpload' /\ up'.pc = pc /\ up'.read = up.read
    BY <2>1, <1>0 DEF IsUpload
  <2>5. up.read = <<>>
    <3>1. up.pc = "stat" /\ "stat" # "chunks"
      BY SMT, <1>4 DEF StatFile
    <3> QED BY <3>1, <1>0
  <2>4. IsUpload' /\ up'.pc # "chunks" /\ up'.read = <<>>
    BY <2>2, <2>3, <2>5
  <2> QED BY <2>1, <2>4, UploadGoesOn
<1>5. CASE UploadSmall
  <2> DEFINE n == Least(Len(file), smallLimit + 1)
             data == First(file, n)
  <2>1. /\ Finish(data, Encrypt(Key, Squeezed(data)), Len(data) < chunkSize) /\ UNCHANGED file
    BY <1>5 DEF UploadSmall
  <2>2. n \in 0 .. Len(file)
    BY SMT, <1>a, FormatAssumption DEF Least, smallLimit, MaxBlobSize
  <2> HIDE DEF n
  <2>3. AnySeq(data) /\ Len(data) = n
    BY <2>2, <1>a, FirstDef
  <2> HIDE DEF data
  <2>4. Len(data) <= Noise
    BY SMT, <2>2, <2>3, <1>a, FormatAssumption
  <2> DEFINE steady == Len(data) < chunkSize
             blob == Encrypt(Key, Squeezed(data))
  <2>5. steady => WellMade(data, blob)
    BY <2>3, <2>4, SmallMade
  <2>6. steady \in BOOLEAN
    BY SMT
  <2>7. /\ up.known \in {{}, {data}} /\ store' = Stored(data, blob, steady)
        /\ Succeed(up.known, data)
    BY <2>1 DEF Finish, Expected
  <2> HIDE DEF steady, blob
  <2>8. file' \in Contents
    BY <2>1, <1>0
  <2> QED BY <2>5, <2>6, <2>7, <2>8, FinishKeeps
<1>6. CASE WriteHeader
  <2> DEFINE L == Len(file)
             head == Header(StreamFormat(L), L)
  <2>1. /\ up' = [up EXCEPT !.pc = "chunks", !.size = L, !.out = head]
        /\ UNCHANGED <<file, store, acked>> /\ up.pc = "header"
    BY <1>6 DEF WriteHeader
  <2>2. up.read = <<>>
    <3>1. "header" # "chunks"
      BY SMT
    <3> QED BY <3>1, <2>1, <1>0
  <2>3. StreamFormat(L) = FormatBy(up.squeeze, L)
    BY DEF StreamFormat, FormatBy
  <2>4. L \in Nat /\ L <= Noise
    BY <1>a
  <2> HIDE DEF L
  <2>5. head = Header(FormatBy(up.squeeze, L), L)
    BY <2>3
  <2> HIDE DEF head
  <2>6. /\ IsUpload' /\ up'.pc = "chunks" /\ up'.size = L /\ up'.out = head
        /\ up'.read = up.read /\ up'.squeeze = up.squeeze
    BY <2>1, <1>0 DEF IsUpload
  <2>7. Written(up.squeeze, L, <<>>, head)
    BY <2>4, <2>5, WriteNone
  <2> QED BY <2>1, <2>2, <2>6, <2>7, UploadGoesOn
<1>7. CASE WriteChunk
  <2> DEFINE x == NextChunk
             z == Squeezed(x)
             fr == Frame(StreamFormat(up.size), Key, Len(up.read) + 1, z, z # x)
  <2>1. /\ up' = [up EXCEPT !.read = Append(@, x), !.out = @ \o fr]
        /\ UNCHANGED <<file, store, acked>> /\ up.pc = "chunks" /\ x # <<>>
    BY <1>7 DEF WriteChunk
  <2>2. z = SqueezedBy(up.squeeze, x) /\ StreamFormat(up.size) = FormatBy(up.squeeze, up.size)
    BY DEF Squeezed, SqueezedBy, StreamFormat, FormatBy
  <2>3. Written(up.squeeze, up.size, up.read, up.out)
    BY <2>1, <1>0
  <2>4. AnySeq(x) /\ Len(x) <= chunkSize
    <3> DEFINE at == Len(Concat(up.read))
    <3>1. AllSeqs(up.read)
      BY <2>3 DEF Written
    <3>2. AnySeq(Concat(up.read))
      BY <3>1, OffDef
    <3>3. at \in Nat
      BY <3>2, SeqFacts
    <3>4. x = SubSeq(file, at + 1, Least(at + chunkSize, Len(file)))
      BY DEF NextChunk
    <3> HIDE DEF at, x
    <3> QED BY <3>3, <3>4, <2>1, <1>a, NextChunkDef
  <2> HIDE DEF x, z
  <2> DEFINE more == Append(up.read, x)
             out == up.out \o fr
  <2>5. Written(up.squeeze, up.size, more, out)
    <3>1. Written(up.squeeze, up.size, more,
                  up.out \o Frame(FormatBy(up.squeeze, up.size), Key, Len(up.read) + 1,
                                  SqueezedBy(up.squeeze, x), SqueezedBy(up.squeeze, x) # x))
      BY <2>3, <2>4, WriteOne
    <3> QED BY <2>2, <3>1
  <2>6. up' = [up EXCEPT !.read = more, !.out = out]
    BY <2>1
  <2> HIDE DEF more, out
  <2>7. /\ IsUpload' /\ up'.pc = up.pc /\ up'.size = up.size /\ up'.out = out
        /\ up'.read = more /\ up'.squeeze = up.squeeze
    BY <2>6, <1>0 DEF IsUpload
  <2> QED BY <2>1, <2>5, <2>7, UploadGoesOn
<1>8. CASE UploadLarge
  <2> DEFINE content == Concat(up.read)
             blob == up.out
             steady == /\ up.read # <<>>
                       /\ Len(up.read) = CeilDiv(up.size, chunkSize)
                       /\ \A i \in 1 .. Len(up.read) - 1 : Len(up.read[i]) = chunkSize
  <2>1. Finish(content, blob, steady) /\ UNCHANGED file /\ up.pc = "chunks"
    BY <1>8 DEF UploadLarge
  <2>2. Written(up.squeeze, up.size, up.read, up.out)
    BY <2>1, <1>0
  <2>3. steady => WellMade(content, blob)
    BY <2>2, StreamMade
  <2>4. steady \in BOOLEAN
    OBVIOUS
  <2> HIDE DEF steady, content, blob
  <2>5. /\ up.known \in {{}, {content}} /\ store' = Stored(content, blob, steady)
        /\ Succeed(up.known, content)
    BY <2>1 DEF Finish, Expected
  <2>6. file' \in Contents
    BY <2>1, <1>0
  <2> QED BY <2>3, <2>4, <2>5, <2>6, FinishKeeps
<1>9. CASE UploadBytes
  <2>1. PICK c \in Contents : store' = Stored(c, Encrypt(Key, c), TRUE) /\ Succeed({}, c)
    BY <1>9 DEF UploadBytes
  <2>2. UNCHANGED file
    BY <1>9 DEF UploadBytes
  <2>3. WellMade(c, Encrypt(Key, c))
    BY ContentSeq, EncryptMade
  <2>4. file' \in Contents
    BY <2>2, <1>0
  <2> DEFINE steady == TRUE
             known == {}
  <2>5. steady \in BOOLEAN /\ known \in {{}, {c}} /\ (steady => WellMade(c, Encrypt(Key, c)))
    BY <2>3
  <2>6. store' = Stored(c, Encrypt(Key, c), steady) /\ Succeed(known, c)
    BY <2>1
  <2> HIDE DEF steady, known
  <2> QED BY <2>4, <2>5, <2>6, FinishKeeps
<1>10. CASE UNCHANGED uploadVars
  BY <1>10 DEF UploadInv, uploadVars, IsUpload
<1> QED BY <1>1, <1>2, <1>3, <1>4, <1>5, <1>6, <1>7, <1>8, <1>9, <1>10 DEF UploadNext

(* Whatever is stored, and was announced as it was read, was made as the   *)
(* encoders make it (simple/stream.go:45-291, simple/hash.go:44-86).       *)
THEOREM UploadInvariant == UploadSpec => []UploadInv
<1>1. UploadInit => UploadInv
  BY UploadInvInit
<1>2. UploadInv /\ [UploadNext]_uploadVars => UploadInv'
  BY UploadInvNext
<1> QED BY <1>1, <1>2, PTL DEF UploadSpec

(* What an upload acknowledged is stored under its hash and both decoders  *)
(* return its content (simple/stream.go:45-291, simple/hash.go:44-86,      *)
(* simple/crypto.go:107-239).                                              *)
THEOREM AckedIsDecodable == UploadSpec => []AckedDecodes
<1>1. UploadInv => AckedDecodes
  <2> SUFFICES ASSUME UploadInv, NEW a \in acked
               PROVE  /\ a.known \in {{}, {a.hash}}
                      /\ a.hash \in DOMAIN store
                      /\ store[a.hash].steady /\ ~IsCompressed(a.hash)
                            => Decodes(a.hash, store[a.hash].blob)
    BY DEF AckedDecodes
  <2>1. a.known \in {{}, {a.hash}} /\ a.hash \in DOMAIN store
    BY DEF UploadInv
  <2>2. IsMade(store[a.hash], a.hash)
    BY <2>1 DEF UploadInv
  <2>3. ASSUME store[a.hash].steady, ~IsCompressed(a.hash)
        PROVE  Decodes(a.hash, store[a.hash].blob)
    <3>1. WellMade(a.hash, store[a.hash].blob)
      BY <2>2, <2>3 DEF IsMade
    <3> QED BY <2>3, <3>1, WellMadeDecodes
  <2> QED BY <2>1, <2>3
<1> QED BY <1>1, UploadInvariant, PTL

(* Small blobs of older versions, whatever their IV begins with, and both  *)
(* kinds of manifest are read (simple/crypto.go:253-296, 672-685,          *)
(* simple/stream.go:390-471).                                              *)
THEOREM OldFormsAreRead == UploadSpec => []OldFormsDecode
<1>1. UploadInv => OldFormsDecode
  <2> SUFFICES ASSUME UploadInv PROVE OldFormsDecode
    OBVIOUS
  <2>1. AnySeq(file)
    BY ContentSeq DEF UploadInv
  <2>2. ASSUME Len(file) < chunkSize, ~IsCompressed(file), NEW n \in 0 .. MaxChunkCount + 1
        PROVE  Decodes(file, EncryptSmall(Key, file, n))
    <3>1. n \in Nat
      BY SMT, FormatAssumption
    <3>2. Unpack(Ok(file)) = Ok(file)
      BY <2>2, OkDef DEF Unpack
    <3> DEFINE b == EncryptSmall(Key, file, n)
    <3>3. Decrypt(Key, b) = Ok(file) /\ DecryptStreamToFile(Key, b) = Unpack(Ok(file))
      BY <2>1, <2>2, <3>1, SmallReads
    <3> HIDE DEF b
    <3>4. Decodes(file, b)
      BY <3>2, <3>3 DEF Decodes, Download
    <3> QED BY <3>4 DEF b
  <2>3. \A m \in {EncryptManifest(Key, file), SealManifest(Key, file)} :
           DecryptIfEncrypted(Key, m) = Ok(file)
    BY <2>1, ManifestsDecode
  <2> QED BY <2>2, <2>3 DEF OldFormsDecode
<1> QED BY <1>1, UploadInvariant, PTL

=============================================================================
