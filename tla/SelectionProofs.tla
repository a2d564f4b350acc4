--------------------------- MODULE SelectionProofs ---------------------------
(***************************************************************************)
(* What filters and flattened lists hold, and in which order, for lists of *)
(* every length; and what a list tells when each of its elements tells one. *)
(*                                                                         *)
(* Both are defined by recursion on the length.  Induction comes from the  *)
(* library's theorem that a well-founded relation has minimal elements: a  *)
(* set of numbers that is not empty has a least one (Least), and a claim   *)
(* that fails somewhere fails at a least length, where the step refutes it.*)
(***************************************************************************)
EXTENDS Selections, SequenceTheorems, WellFoundedInduction, TLAPS

-----------------------------------------------------------------------------
(* Induction.                                                               *)

LEMMA Least ==
    ASSUME NEW T, T \subseteq Nat, T # {}
    PROVE  \E x \in T : \A y \in T : x <= y
<1>1. PICK R : R = OpToRel(<, Nat)
    OBVIOUS
<1>2. IsWellFoundedOn(R, Nat)
    BY <1>1, NatLessThanWellFounded
<1>3. PICK x \in T : \A y \in T : ~(<<y, x>> \in R)
    BY <1>2, WFMin
<1>4. R = {ss \in Nat \X Nat : ss[1] < ss[2]}
    BY <1>1 DEF OpToRel
<1>5. \A y \in T : ~(y < x)
    BY <1>3, <1>4
<1> QED BY <1>3, <1>5

\* What holds at 0 and is carried from each number to the next holds up to N.
LEMMA Induction ==
    ASSUME NEW N \in Nat, NEW T, 0 \in T, \A n \in 0 .. N - 1 : n \in T => n + 1 \in T
    PROVE  \A n \in 0 .. N : n \in T
<1> DEFINE Bad == {n \in 0 .. N : n \notin T}
<1>1. SUFFICES ASSUME Bad # {} PROVE FALSE
    OBVIOUS
<1>2. PICK x \in Bad : \A y \in Bad : x <= y
    <2>1. Bad \subseteq Nat
        OBVIOUS
    <2> HIDE DEF Bad
    <2> QED BY <1>1, <2>1, Least
<1>3. x \in 0 .. N /\ x \notin T /\ x # 0
    OBVIOUS
<1>4. x - 1 \in 0 .. N - 1 /\ x - 1 \notin Bad
    BY <1>2, <1>3
<1>5. x - 1 \in T
    BY <1>4
<1> QED BY <1>3, <1>4, <1>5

\* A list grows by its last element.
LEMMA Prefixed ==
    ASSUME NEW A, NEW s \in Seq(A)
    PROVE  /\ Len(s) \in Nat
           /\ SubSeq(s, 1, 0) = <<>> /\ SubSeq(s, 1, Len(s)) = s
           /\ \A n \in 0 .. Len(s) - 1 :
                /\ s[n + 1] \in A
                /\ SubSeq(s, 1, n) \in Seq(A)
                /\ SubSeq(s, 1, n + 1) = Append(SubSeq(s, 1, n), s[n + 1])
<1>1. Len(s) \in Nat /\ \A i \in 1 .. Len(s) : s[i] \in A
    BY LenProperties
<1>2. SubSeq(s, 1, 0) = <<>> /\ SubSeq(s, 1, Len(s)) = s
    BY <1>1, SubSeqEmpty, SubSeqFull
<1>3. ASSUME NEW n \in 0 .. Len(s) - 1
      PROVE  /\ s[n + 1] \in A
             /\ SubSeq(s, 1, n) \in Seq(A)
             /\ SubSeq(s, 1, n + 1) = Append(SubSeq(s, 1, n), s[n + 1])
    <2>1. s[n + 1] \in A
        BY <1>1
    <2>2. /\ SubSeq(s, 1, n) \in Seq(A) /\ Len(SubSeq(s, 1, n)) = n
          /\ \A i \in 1 .. n : SubSeq(s, 1, n)[i] = s[i]
        BY <1>1, SubSeqProperties
    <2>3. /\ SubSeq(s, 1, n + 1) \in Seq(A) /\ Len(SubSeq(s, 1, n + 1)) = n + 1
          /\ \A i \in 1 .. n + 1 : SubSeq(s, 1, n + 1)[i] = s[i]
        BY <1>1, SubSeqProperties
    <2>4. PICK a, b : a = SubSeq(s, 1, n) /\ b = SubSeq(s, 1, n + 1)
        OBVIOUS
    <2>5. /\ Append(a, s[n + 1]) \in Seq(A) /\ Len(Append(a, s[n + 1])) = n + 1
          /\ \A i \in 1 .. n + 1 : Append(a, s[n + 1])[i] = b[i]
        BY <2>1, <2>2, <2>3, <2>4, AppendProperties
    <2>6. b = Append(a, s[n + 1])
        BY <2>3, <2>4, <2>5, SeqEqual
    <2> QED BY <2>1, <2>2, <2>4, <2>6
<1> QED BY <1>1, <1>2, <1>3

-----------------------------------------------------------------------------
(* Flattened lists.                                                         *)

\* g[i] is what the first i lists of ss are together.
Joins(g, ss, n) == g = [i \in 1 .. n |-> IF i = 1 THEN ss[i] ELSE g[i - 1] \o ss[i]]

LEMMA JoinsExist ==
    ASSUME NEW ss, NEW N \in Nat
    PROVE  \E g : Joins(g, ss, N)
<1> DEFINE T == {n \in Nat : \E g : Joins(g, ss, n)}
<1>1. 0 \in T
    <2>1. Joins(<<>>, ss, 0)
        BY DEF Joins
    <2> QED BY <2>1
<1>2. ASSUME NEW n \in 0 .. N - 1, n \in T PROVE n + 1 \in T
    <2>1. PICK g : Joins(g, ss, n)
        BY <1>2
    <2>2. PICK x : x = IF n = 0 THEN ss[1] ELSE g[n] \o ss[n + 1]
        OBVIOUS
    <2>3. PICK h : h = [i \in 1 .. n + 1 |-> IF i = n + 1 THEN x ELSE g[i]]
        OBVIOUS
    <2>4. ASSUME NEW i \in 1 .. n + 1
          PROVE  h[i] = IF i = 1 THEN ss[i] ELSE h[i - 1] \o ss[i]
        <3>1. CASE i = n + 1
            <4>1. CASE i = 1
                BY <2>2, <2>3, <3>1, <4>1
            <4>2. CASE i # 1
                <5>1. i - 1 \in 1 .. n + 1 /\ i - 1 # n + 1 /\ i - 1 = n
                    BY <3>1, <4>2
                <5>2. h[i - 1] = g[n]
                    BY <2>3, <5>1
                <5>3. h[i] = x /\ ss[i] = ss[n + 1] /\ n # 0
                    BY <2>3, <3>1, <5>1, <4>2
                <5>4. x = g[n] \o ss[n + 1]
                    BY <2>2, <5>3
                <5> QED BY <4>2, <5>2, <5>3, <5>4
            <4> QED BY <4>1, <4>2
        <3>2. CASE i # n + 1
            <4>1. i \in 1 .. n /\ h[i] = g[i]
                BY <2>3, <3>2
            <4>2. g[i] = IF i = 1 THEN ss[i] ELSE g[i - 1] \o ss[i]
                BY <2>1, <4>1 DEF Joins
            <4>3. i # 1 => h[i - 1] = g[i - 1]
                <5>1. ASSUME i # 1 PROVE i - 1 \in 1 .. n + 1 /\ i - 1 # n + 1
                    BY <4>1, <5>1
                <5> QED BY <2>3, <5>1
            <4> QED BY <4>1, <4>2, <4>3
        <3> QED BY <3>1, <3>2
    <2>5. Joins(h, ss, n + 1)
        BY <2>3, <2>4 DEF Joins
    <2> QED BY <2>5
<1> HIDE DEF T
<1>3. N \in T
    BY <1>1, <1>2, Induction
<1> QED BY <1>3 DEF T

\* The lists begin alike.
Alike(ss, tt, N) == \A i \in 1 .. N : ss[i] = tt[i]

\* Lists that begin alike are joined alike as far as that.
LEMMA JoinsAgree ==
    ASSUME NEW ss, NEW tt, NEW g, NEW h, NEW N \in Nat, NEW m \in Nat,
           Joins(g, ss, N), Joins(h, tt, m), N <= m,
           Alike(ss, tt, N)
    PROVE  Alike(g, h, N)
<1> DEFINE T == {i \in Nat : i = 0 \/ g[i] = h[i]}
<1>1. 0 \in T
    OBVIOUS
<1>2. ASSUME NEW i \in 0 .. N - 1, i \in T PROVE i + 1 \in T
    <2>1. i + 1 \in 1 .. N /\ i + 1 \in 1 .. m /\ (i + 1) - 1 = i
        OBVIOUS
    <2>2. /\ g[i + 1] = IF i + 1 = 1 THEN ss[i + 1] ELSE g[i] \o ss[i + 1]
          /\ h[i + 1] = IF i + 1 = 1 THEN tt[i + 1] ELSE h[i] \o tt[i + 1]
        BY <2>1 DEF Joins
    <2>3. i = 0 \/ g[i] = h[i]
        BY <1>2
    <2>4. ss[i + 1] = tt[i + 1]
        BY <2>1 DEF Alike
    <2>5. g[i + 1] = h[i + 1]
        BY <2>1, <2>2, <2>3, <2>4
    <2> QED BY <2>1, <2>5
<1> HIDE DEF T
<1>3. \A i \in 0 .. N : i \in T
    BY <1>1, <1>2, Induction
<1> QED BY <1>3 DEF T, Alike

LEMMA FlattenIs ==
    ASSUME NEW ss, NEW N \in Nat, Len(ss) = N
    PROVE  /\ N = 0 => FlattenSeq(ss) = ss
           /\ N > 0 => \E g : Joins(g, ss, N) /\ FlattenSeq(ss) = g[N]
<1>1. N = 0 => FlattenSeq(ss) = ss
    BY DEF FlattenSeq
<1>2. ASSUME N > 0 PROVE \E g : Joins(g, ss, N) /\ FlattenSeq(ss) = g[N]
    <2>1. \E g : Joins(g, ss, N)
        BY JoinsExist
    <2> DEFINE g == CHOOSE f : f = [i \in 1 .. N |-> IF i = 1 THEN ss[i] ELSE f[i - 1] \o ss[i]]
    <2>2. \E f : f = [i \in 1 .. N |-> IF i = 1 THEN ss[i] ELSE f[i - 1] \o ss[i]]
        BY <2>1 DEF Joins
    <2>3. g = [i \in 1 .. N |-> IF i = 1 THEN ss[i] ELSE g[i - 1] \o ss[i]]
        BY <2>2, Zenon
    <2>4. FlattenSeq(ss) = g[N]
        BY <1>2 DEF FlattenSeq
    <2> HIDE DEF g
    <2>5. Joins(g, ss, N)
        BY <2>3 DEF Joins
    <2> QED BY <2>4, <2>5
<1> QED BY <1>1, <1>2

LEMMA FlattenEmpty == FlattenSeq(<<>>) = <<>>
BY FlattenIs

LEMMA JoinsTyped ==
    ASSUME NEW A, NEW N \in Nat, NEW ss \in Seq(Seq(A)), Len(ss) = N,
           NEW g, Joins(g, ss, N)
    PROVE  \A i \in 1 .. N : g[i] \in Seq(A)
<1> DEFINE T == {i \in Nat : i = 0 \/ g[i] \in Seq(A)}
<1>1. 0 \in T
    OBVIOUS
<1>2. ASSUME NEW i \in 0 .. N - 1, i \in T PROVE i + 1 \in T
    <2>1. i + 1 \in 1 .. N /\ (i + 1) - 1 = i /\ i + 1 \in Nat
        OBVIOUS
    <2>2. g[i + 1] = IF i + 1 = 1 THEN ss[i + 1] ELSE g[i] \o ss[i + 1]
        BY <2>1 DEF Joins
    <2>3. ss[i + 1] \in Seq(A)
        BY <2>1, LenProperties
    <2>4. i = 0 \/ g[i] \in Seq(A)
        BY <1>2
    <2>5. g[i] \in Seq(A) => g[i] \o ss[i + 1] \in Seq(A)
        BY <2>3, ConcatProperties
    <2>6. g[i + 1] \in Seq(A)
        BY <2>2, <2>3, <2>4, <2>5
    <2> QED BY <2>1, <2>6
<1> HIDE DEF T
<1>3. \A i \in 0 .. N : i \in T
    BY <1>1, <1>2, Induction
<1> QED BY <1>3 DEF T

LEMMA FlattenOne ==
    ASSUME NEW ss, NEW N \in Nat, Len(ss) = N, N = 1
    PROVE  FlattenSeq(ss) = ss[1]
<1>1. PICK g : Joins(g, ss, N) /\ FlattenSeq(ss) = g[N]
    BY FlattenIs
<1> QED BY <1>1 DEF Joins

\* tt is ss with one list x more, M lists and not N.
Longer(tt, M, ss, N, x) ==
    /\ M = N + 1 /\ Len(ss) = N /\ Len(tt) = M /\ tt[M] = x
    /\ \A i \in 1 .. N : ss[i] = tt[i]

LEMMA FlattenLonger ==
    ASSUME NEW A, NEW ss \in Seq(Seq(A)), NEW tt \in Seq(Seq(A)), NEW x \in Seq(A),
           NEW N \in Nat, NEW M \in Nat, Longer(tt, M, ss, N, x)
    PROVE  FlattenSeq(ss) \in Seq(A) /\ FlattenSeq(tt) = FlattenSeq(ss) \o x
<1>0. /\ M = N + 1 /\ Len(ss) = N /\ Len(tt) = M /\ tt[M] = x
      /\ \A i \in 1 .. N : ss[i] = tt[i]
    BY DEF Longer
<1>1. CASE N = 0
    <2>1. ss = <<>> /\ FlattenSeq(ss) = <<>>
        BY <1>0, <1>1, EmptySeq, FlattenEmpty
    <2>2. FlattenSeq(tt) = x
        <3>1. M = 1 /\ tt[1] = x /\ Len(tt) = M
            BY <1>0, <1>1
        <3>2. FlattenSeq(tt) = tt[1]
            BY <3>1, FlattenOne
        <3> QED BY <3>1, <3>2
    <2>3. <<>> \o x = x
        BY ConcatEmptySeq
    <2> QED BY <2>1, <2>2, <2>3, EmptySeq
<1>2. CASE N > 0
    <2>1. PICK g : Joins(g, ss, N) /\ FlattenSeq(ss) = g[N]
        BY <1>0, <1>2, FlattenIs
    <2>2. PICK h : Joins(h, tt, M) /\ FlattenSeq(tt) = h[M]
        <3>1. M > 0 /\ Len(tt) = M
            BY <1>0
        <3> QED BY <3>1, FlattenIs
    <2>3. Alike(g, h, N)
        <3>1. N <= M /\ Alike(ss, tt, N)
            BY <1>0 DEF Alike
        <3> QED BY <2>1, <2>2, <3>1, JoinsAgree
    <2>4. h[M] = h[N] \o x
        <3>1. M \in 1 .. M /\ M # 1 /\ M - 1 = N
            BY <1>0, <1>2
        <3>2. h[M] = h[M - 1] \o tt[M]
            BY <2>2, <3>1 DEF Joins
        <3> QED BY <1>0, <3>1, <3>2
    <2>5. g[N] \in Seq(A) /\ h[N] = g[N]
        <3>1. N \in 1 .. N
            BY <1>2
        <3>2. \A i \in 1 .. N : g[i] \in Seq(A)
            BY <1>0, <2>1, JoinsTyped
        <3>3. \A i \in 1 .. N : g[i] = h[i]
            BY <2>3 DEF Alike
        <3>4. g[N] \in Seq(A)
            BY <3>1, <3>2
        <3>5. g[N] = h[N]
            BY <3>1, <3>3
        <3> QED BY <3>4, <3>5
    <2> QED BY <2>1, <2>2, <2>4, <2>5
<1> QED BY <1>1, <1>2


LEMMA FlattenAppend ==
    ASSUME NEW A, NEW ss \in Seq(Seq(A)), NEW x \in Seq(A)
    PROVE  /\ FlattenSeq(ss) \in Seq(A)
           /\ FlattenSeq(Append(ss, x)) = FlattenSeq(ss) \o x
<1>1. Append(ss, x) \in Seq(Seq(A)) /\ Len(ss) \in Nat /\ Len(ss) + 1 \in Nat
    BY AppendProperties, LenProperties
<1>2. Longer(Append(ss, x), Len(ss) + 1, ss, Len(ss), x)
    <2>1. /\ Len(Append(ss, x)) = Len(ss) + 1 /\ Append(ss, x)[Len(ss) + 1] = x
          /\ \A i \in 1 .. Len(ss) : Append(ss, x)[i] = ss[i]
        BY AppendProperties
    <2> QED BY <2>1 DEF Longer
<1> QED BY <1>1, <1>2, FlattenLonger

-----------------------------------------------------------------------------
(* Where the elements of a flattened list come from.                        *)

\* The element at place p of F is element o[p] of list b[p] of ss: the places
\* follow the lists in order, and nothing of them is left out.
Places(b, o, ss, F) ==
    /\ b \in [1 .. Len(F) -> 1 .. Len(ss)] /\ o \in [1 .. Len(F) -> Nat]
    /\ \A p \in 1 .. Len(F) : o[p] \in 1 .. Len(ss[b[p]]) /\ F[p] = ss[b[p]][o[p]]
    /\ \A p, q \in 1 .. Len(F) :
          p < q => b[p] < b[q] \/ (b[p] = b[q] /\ o[p] < o[q])
    /\ \A i \in 1 .. Len(ss) : \A j \in 1 .. Len(ss[i]) :
          \E p \in 1 .. Len(F) : b[p] = i /\ o[p] = j

LEMMA PlacesAppend ==
    ASSUME NEW A, NEW ss \in Seq(Seq(A)), NEW x \in Seq(A), NEW F \in Seq(A),
           NEW b, NEW o, Places(b, o, ss, F)
    PROVE  \E c, r : Places(c, r, Append(ss, x), F \o x)
<1>1. PICK tt, G, n, f, m : /\ tt = Append(ss, x) /\ G = F \o x
                            /\ n = Len(ss) /\ f = Len(F) /\ m = Len(x)
    OBVIOUS
<1>2. /\ n \in Nat /\ f \in Nat /\ m \in Nat
      /\ Len(tt) = n + 1 /\ Len(G) = f + m
    BY <1>1, LenProperties, AppendProperties, ConcatProperties
<1>3. /\ \A i \in 1 .. n : tt[i] = ss[i]
      /\ tt[n + 1] = x
    BY <1>1, AppendProperties
<1>4. /\ \A p \in 1 .. f : G[p] = F[p]
      /\ \A p \in f + 1 .. f + m : G[p] = x[p - f]
    <2>1. \A p \in 1 .. f + m : G[p] = IF p <= f THEN F[p] ELSE x[p - f]
        BY <1>1, ConcatProperties
    <2> QED BY <1>2, <2>1
<1>5. /\ b \in [1 .. f -> 1 .. n] /\ o \in [1 .. f -> Nat]
      /\ \A p \in 1 .. f : o[p] \in 1 .. Len(ss[b[p]]) /\ F[p] = ss[b[p]][o[p]]
      /\ \A p, q \in 1 .. f : p < q => b[p] < b[q] \/ (b[p] = b[q] /\ o[p] < o[q])
      /\ \A i \in 1 .. n : \A j \in 1 .. Len(ss[i]) :
            \E p \in 1 .. f : b[p] = i /\ o[p] = j
    BY <1>1 DEF Places
<1>6. PICK c : c = [p \in 1 .. f + m |-> IF p <= f THEN b[p] ELSE n + 1]
    OBVIOUS
<1>7. PICK r : r = [p \in 1 .. f + m |-> IF p <= f THEN o[p] ELSE p - f]
    OBVIOUS
<1>8. \A p \in 1 .. f : p \in 1 .. f + m /\ c[p] = b[p] /\ r[p] = o[p]
    BY <1>2, <1>6, <1>7
<1>9. \A p \in f + 1 .. f + m : p \in 1 .. f + m /\ c[p] = n + 1 /\ r[p] = p - f
    BY <1>2, <1>6, <1>7
<1>10. \A p \in 1 .. f + m : p \in 1 .. f \/ p \in f + 1 .. f + m
    BY <1>2
<1>11. c \in [1 .. f + m -> 1 .. n + 1] /\ r \in [1 .. f + m -> Nat]
    BY <1>2, <1>5, <1>6, <1>7
<1>12. ASSUME NEW p \in 1 .. f + m
       PROVE  r[p] \in 1 .. Len(tt[c[p]]) /\ G[p] = tt[c[p]][r[p]]
    <2>1. CASE p \in 1 .. f
        <3>1. b[p] \in 1 .. n
            BY <1>5, <2>1
        <3>2. tt[c[p]] = ss[b[p]]
            BY <1>3, <1>8, <2>1, <3>1
        <3> QED BY <1>4, <1>5, <1>8, <2>1, <3>2
    <2>2. CASE p \in f + 1 .. f + m
        <3>1. tt[c[p]] = x /\ r[p] = p - f /\ p - f \in 1 .. m
            BY <1>2, <1>3, <1>9, <2>2
        <3> QED BY <1>1, <1>4, <2>2, <3>1
    <2> QED BY <1>10, <2>1, <2>2
<1>13. ASSUME NEW p \in 1 .. f + m, NEW q \in 1 .. f + m, p < q
       PROVE  c[p] < c[q] \/ (c[p] = c[q] /\ r[p] < r[q])
    <2>1. CASE q \in 1 .. f
        <3>1. p \in 1 .. f
            BY <1>2, <1>13, <2>1
        <3> QED BY <1>5, <1>8, <1>13, <2>1, <3>1
    <2>2. CASE p \in 1 .. f /\ q \in f + 1 .. f + m
        <3>1. c[p] \in 1 .. n /\ c[q] = n + 1
            BY <1>5, <1>8, <1>9, <2>2
        <3> QED BY <1>2, <3>1
    <2>3. CASE p \in f + 1 .. f + m /\ q \in f + 1 .. f + m
        BY <1>2, <1>9, <1>13, <2>3
    <2> QED BY <1>10, <2>1, <2>2, <2>3
<1>14. ASSUME NEW i \in 1 .. n + 1, NEW j \in 1 .. Len(tt[i])
       PROVE  \E p \in 1 .. f + m : c[p] = i /\ r[p] = j
    <2>1. CASE i \in 1 .. n
        <3>1. j \in 1 .. Len(ss[i])
            BY <1>3, <2>1
        <3>2. PICK p \in 1 .. f : b[p] = i /\ o[p] = j
            BY <1>5, <2>1, <3>1
        <3> QED BY <1>8, <3>2
    <2>2. CASE i = n + 1
        <3>1. j \in 1 .. m
            BY <1>1, <1>3, <2>2
        <3>2. f + j \in f + 1 .. f + m /\ (f + j) - f = j
            BY <1>2, <3>1
        <3>3. PICK p : p = f + j
            OBVIOUS
        <3> QED BY <1>9, <2>2, <3>2, <3>3
    <2> QED BY <1>2, <2>1, <2>2
<1>15. Places(c, r, tt, G)
    BY <1>2, <1>11, <1>12, <1>13, <1>14 DEF Places
<1> QED BY <1>1, <1>15

LEMMA FlattenPlaces ==
    ASSUME NEW A, NEW ss \in Seq(Seq(A))
    PROVE  \E b, o : Places(b, o, ss, FlattenSeq(ss))
<1> DEFINE P(n) == SubSeq(ss, 1, n)
           T == {n \in Nat : \E b, o : Places(b, o, P(n), FlattenSeq(P(n)))}
<1>1. PICK N : N = Len(ss)
    OBVIOUS
<1>2. /\ N \in Nat /\ P(0) = <<>> /\ P(N) = ss
      /\ \A n \in 0 .. N - 1 : /\ ss[n + 1] \in Seq(A) /\ P(n) \in Seq(Seq(A))
                               /\ P(n + 1) = Append(P(n), ss[n + 1])
    BY <1>1, Prefixed
<1> HIDE DEF P
<1>3. 0 \in T
    <2>1. Places(<<>>, <<>>, <<>>, <<>>)
        BY DEF Places
    <2> QED BY <1>2, <2>1, FlattenEmpty
<1>4. ASSUME NEW n \in 0 .. N - 1, n \in T PROVE n + 1 \in T
    <2>1. PICK b, o : Places(b, o, P(n), FlattenSeq(P(n)))
        BY <1>4
    <2>2. PICK ps, x, qs : ps = P(n) /\ x = ss[n + 1] /\ qs = P(n + 1)
        OBVIOUS
    <2>3. ps \in Seq(Seq(A)) /\ x \in Seq(A) /\ qs = Append(ps, x)
        BY <1>2, <2>2
    <2>4. FlattenSeq(ps) \in Seq(A) /\ FlattenSeq(qs) = FlattenSeq(ps) \o x
        BY <2>3, FlattenAppend
    <2>5. \E c, r : Places(c, r, qs, FlattenSeq(qs))
        BY <2>1, <2>2, <2>3, <2>4, PlacesAppend
    <2>6. n + 1 \in Nat
        BY <1>2
    <2> QED BY <2>2, <2>5, <2>6
<1> HIDE DEF T
<1>5. N \in Nat
    BY <1>2
<1>6. \A n \in 0 .. N : n \in T
    BY <1>3, <1>4, <1>5, Induction
<1>7. N \in T
    BY <1>5, <1>6
<1> QED BY <1>2, <1>7 DEF T

-----------------------------------------------------------------------------
(* Filters.                                                                 *)

LEMMA ListOfLength ==
    ASSUME NEW A, NEW n \in Nat, NEW s \in [1 .. n -> A]
    PROVE  s \in Seq(A) /\ Len(s) = n
<1>1. s \in Seq(A)
    BY SeqDef
<1>2. DOMAIN s = 1 .. n /\ DOMAIN s = 1 .. Len(s) /\ Len(s) \in Nat
    BY <1>1, LenProperties
<1>3. Len(s) = n
    BY <1>2
<1> QED BY <1>1, <1>3

\* The list of what the filter makes of each element.
Kept1(x, S) == IF x \in S THEN <<x>> ELSE <<>>
Blocks(s, S) == [k \in DOMAIN s |-> Kept1(s[k], S)]

LEMMA KeepIs ==
    ASSUME NEW A, NEW s \in Seq(A), NEW S
    PROVE  /\ Keep(s, S) = FlattenSeq(Blocks(s, S))
           /\ Blocks(s, S) \in Seq(Seq(A)) /\ Len(Blocks(s, S)) = Len(s)
           /\ \A k \in 1 .. Len(s) : Blocks(s, S)[k] = Kept1(s[k], S)
<1>1. Keep(s, S) = FlattenSeq(Blocks(s, S))
    BY DEF Keep, Blocks, Kept1
<1>2. PICK B, n : B = Blocks(s, S) /\ n = Len(s)
    OBVIOUS
<1>3. n \in Nat /\ DOMAIN s = 1 .. n /\ \A k \in 1 .. n : s[k] \in A
    BY <1>2, LenProperties
<1>4. \A k \in 1 .. n : Kept1(s[k], S) \in Seq(A)
    BY <1>3 DEF Kept1
<1>5. B = [k \in 1 .. n |-> Kept1(s[k], S)]
    BY <1>2, <1>3 DEF Blocks
<1>6. B \in [1 .. n -> Seq(A)]
    BY <1>4, <1>5
<1>7. B \in Seq(Seq(A)) /\ Len(B) = n
    BY <1>3, <1>6, ListOfLength
<1> QED BY <1>1, <1>2, <1>5, <1>7

LEMMA KeepTyped ==
    ASSUME NEW A, NEW s \in Seq(A), NEW S
    PROVE  Keep(s, S) \in Seq(A)
<1>1. PICK B : B = Blocks(s, S)
    OBVIOUS
<1>2. Keep(s, S) = FlattenSeq(B) /\ B \in Seq(Seq(A))
    BY <1>1, KeepIs
<1>3. <<>> \in Seq(A)
    OBVIOUS
<1> QED BY <1>2, <1>3, FlattenAppend

LEMMA KeepEmpty ==
    ASSUME NEW S PROVE Keep(<<>>, S) = <<>>
<1>1. Keep(<<>>, S) = FlattenSeq(Blocks(<<>>, S))
    BY DEF Keep, Blocks, Kept1
<1>2. Blocks(<<>>, S) = <<>>
    BY DEF Blocks
<1> QED BY <1>1, <1>2, FlattenEmpty

LEMMA KeepAppend ==
    ASSUME NEW A, NEW s \in Seq(A), NEW x \in A, NEW S
    PROVE  Keep(Append(s, x), S) = Keep(s, S) \o Kept1(x, S)
<1>1. PICK t, n : t = Append(s, x) /\ n = Len(s)
    OBVIOUS
<1>2. /\ t \in Seq(A) /\ n \in Nat /\ Len(t) = n + 1 /\ t[n + 1] = x
      /\ \A k \in 1 .. n : t[k] = s[k]
    BY <1>1, AppendProperties, LenProperties
<1>3. PICK B, C : B = Blocks(s, S) /\ C = Blocks(t, S)
    OBVIOUS
<1>4. /\ B \in Seq(Seq(A)) /\ Len(B) = n /\ Keep(s, S) = FlattenSeq(B)
      /\ \A k \in 1 .. n : B[k] = Kept1(s[k], S)
    BY <1>1, <1>3, KeepIs
<1>5. /\ C \in Seq(Seq(A)) /\ Len(C) = n + 1 /\ Keep(t, S) = FlattenSeq(C)
      /\ \A k \in 1 .. n + 1 : C[k] = Kept1(t[k], S)
    BY <1>2, <1>3, KeepIs
<1>6. Kept1(x, S) \in Seq(A)
    BY DEF Kept1
<1>7. Append(B, Kept1(x, S)) = C
    <2>1. PICK y, D : y = Kept1(x, S) /\ D = Append(B, y)
        OBVIOUS
    <2>2. /\ D \in Seq(Seq(A)) /\ Len(D) = n + 1 /\ D[n + 1] = y
          /\ \A k \in 1 .. n : D[k] = B[k]
        BY <1>4, <1>6, <2>1, AppendProperties
    <2>3. \A k \in 1 .. n + 1 : D[k] = C[k]
        <3>1. ASSUME NEW k \in 1 .. n + 1 PROVE D[k] = C[k]
            <4>1. CASE k \in 1 .. n
                BY <1>2, <1>4, <1>5, <2>2, <4>1
            <4>2. CASE k = n + 1
                BY <1>2, <1>5, <2>1, <2>2, <4>2
            <4> QED BY <1>2, <4>1, <4>2
        <3> QED BY <3>1
    <2>4. D = C
        BY <1>5, <2>2, <2>3, SeqEqual
    <2> QED BY <2>1, <2>4
<1> QED BY <1>1, <1>4, <1>5, <1>6, <1>7, FlattenAppend

\* The element at place p of K is the one at place f[p] of s.
Picks(f, s, S, K) ==
    /\ f \in [1 .. Len(K) -> 1 .. Len(s)]
    /\ \A p \in 1 .. Len(K) : K[p] = s[f[p]] /\ K[p] \in S
    /\ \A p, q \in 1 .. Len(K) : p < q => f[p] < f[q]
    /\ \A i \in 1 .. Len(s) : s[i] \in S => \E p \in 1 .. Len(K) : f[p] = i

LEMMA KeepPlaces ==
    ASSUME NEW A, NEW s \in Seq(A), NEW S
    PROVE  \E f : Picks(f, s, S, Keep(s, S))
<1>1. PICK B, K, n, m : B = Blocks(s, S) /\ K = Keep(s, S) /\ n = Len(s) /\ m = Len(K)
    OBVIOUS
<1>2. /\ B \in Seq(Seq(A)) /\ Len(B) = n /\ K = FlattenSeq(B)
      /\ \A k \in 1 .. n : B[k] = Kept1(s[k], S)
    BY <1>1, KeepIs
<1>3. PICK b, o : Places(b, o, B, K)
    BY <1>2, FlattenPlaces
<1>4. K \in Seq(A) /\ m \in Nat /\ n \in Nat
    BY <1>1, KeepTyped, LenProperties
<1>5. /\ b \in [1 .. m -> 1 .. n]
      /\ \A p \in 1 .. m : o[p] \in 1 .. Len(B[b[p]]) /\ K[p] = B[b[p]][o[p]]
      /\ \A p, q \in 1 .. m : p < q => b[p] < b[q] \/ (b[p] = b[q] /\ o[p] < o[q])
      /\ \A i \in 1 .. n : \A j \in 1 .. Len(B[i]) : \E p \in 1 .. m : b[p] = i /\ o[p] = j
    BY <1>1, <1>2, <1>3 DEF Places
<1>6. \A k \in 1 .. n : \/ (B[k] = <<s[k]>> /\ Len(B[k]) = 1 /\ s[k] \in S)
                         \/ (Len(B[k]) = 0 /\ s[k] \notin S)
    BY <1>2 DEF Kept1
<1>7. \A p \in 1 .. m : b[p] \in 1 .. n /\ o[p] = 1 /\ K[p] = s[b[p]] /\ K[p] \in S
    <2>1. ASSUME NEW p \in 1 .. m
          PROVE  b[p] \in 1 .. n /\ o[p] = 1 /\ K[p] = s[b[p]] /\ K[p] \in S
        <3>1. b[p] \in 1 .. n /\ o[p] \in 1 .. Len(B[b[p]]) /\ K[p] = B[b[p]][o[p]]
            BY <1>5
        <3>2. PICK k : k = b[p]
            OBVIOUS
        <3>3. B[k] = <<s[k]>> /\ Len(B[k]) = 1 /\ s[k] \in S
            BY <1>6, <3>1, <3>2
        <3>4. o[p] = 1
            BY <3>1, <3>2, <3>3
        <3> QED BY <3>1, <3>2, <3>3, <3>4
    <2> QED BY <2>1
<1>8. \A p, q \in 1 .. m : p < q => b[p] < b[q]
    BY <1>5, <1>7
<1>9. \A i \in 1 .. n : s[i] \in S => \E p \in 1 .. m : b[p] = i
    <2>1. ASSUME NEW i \in 1 .. n, s[i] \in S PROVE \E p \in 1 .. m : b[p] = i
        <3>1. Len(B[i]) = 1
            BY <1>6, <2>1
        <3>2. 1 \in 1 .. Len(B[i])
            BY <3>1
        <3> QED BY <1>5, <3>2
    <2> QED BY <2>1
<1>10. Picks(b, s, S, K)
    BY <1>1, <1>5, <1>7, <1>8, <1>9 DEF Picks
<1> QED BY <1>1, <1>10

All(s, S) == \A i \in 1 .. Len(s) : s[i] \in S
None(s, S) == \A i \in 1 .. Len(s) : s[i] \notin S

LEMMA KeepNone ==
    ASSUME NEW A, NEW s \in Seq(A), NEW S
    PROVE  None(s, S) <=> Keep(s, S) = <<>>
<1>1. PICK K, f : K = Keep(s, S) /\ Picks(f, s, S, K)
    BY KeepPlaces
<1>2. K \in Seq(A) /\ Len(K) \in Nat
    BY <1>1, KeepTyped, LenProperties
<1>3. ASSUME None(s, S) PROVE K = <<>>
    <2>1. SUFFICES ASSUME K # <<>> PROVE FALSE
        OBVIOUS
    <2>2. 1 \in 1 .. Len(K)
        BY <1>2, <2>1, EmptySeq
    <2>3. f[1] \in 1 .. Len(s) /\ s[f[1]] \in S
        BY <1>1, <2>2 DEF Picks
    <2> QED BY <1>3, <2>3 DEF None
<1>4. ASSUME K = <<>> PROVE None(s, S)
    <2>1. Len(K) = 0
        BY <1>4
    <2>2. \A p \in 1 .. Len(K) : FALSE
        BY <2>1
    <2> QED BY <1>1, <2>2 DEF Picks, None
<1> QED BY <1>1, <1>3, <1>4

LEMMA KeepAgree ==
    ASSUME NEW A, NEW s \in Seq(A), NEW S, NEW T,
           \A i \in 1 .. Len(s) : s[i] \in S <=> s[i] \in T
    PROVE  Keep(s, S) = Keep(s, T)
<1>1. DOMAIN s = 1 .. Len(s)
    BY LenProperties
<1>2. \A k \in DOMAIN s : Kept1(s[k], S) = Kept1(s[k], T)
    BY <1>1 DEF Kept1
<1>3. Blocks(s, S) = Blocks(s, T)
    BY <1>2 DEF Blocks
<1> QED BY <1>3, KeepIs

LEMMA KeepAll ==
    ASSUME NEW A, NEW s \in Seq(A), NEW S, All(s, S)
    PROVE  Keep(s, S) = s
<1> DEFINE P(n) == SubSeq(s, 1, n)
           T == {n \in Nat : Keep(P(n), S) = P(n)}
<1>1. PICK N : N = Len(s)
    OBVIOUS
<1>2. N \in Nat
    BY <1>1, LenProperties
<1>3. /\ P(0) = <<>> /\ P(N) = s
      /\ \A n \in 0 .. N - 1 : /\ s[n + 1] \in A /\ P(n) \in Seq(A)
                               /\ P(n + 1) = Append(P(n), s[n + 1])
    BY <1>1, Prefixed
<1>4. \A n \in 0 .. N - 1 : s[n + 1] \in S /\ n + 1 \in Nat
    <2>1. \A n \in 0 .. N - 1 : n + 1 \in 1 .. N /\ n + 1 \in Nat
        BY <1>2
    <2> QED BY <1>1, <2>1 DEF All
<1> HIDE DEF P
<1>5. 0 \in T
    BY <1>3, KeepEmpty
<1>6. ASSUME NEW n \in 0 .. N - 1, n \in T PROVE n + 1 \in T
    <2>1. PICK p, q, x : p = P(n) /\ q = P(n + 1) /\ x = s[n + 1]
        OBVIOUS
    <2>2. x \in A /\ x \in S /\ p \in Seq(A) /\ q = Append(p, x) /\ Keep(p, S) = p
        BY <1>3, <1>4, <1>6, <2>1
    <2>3. Keep(q, S) = p \o <<x>>
        BY <2>2, KeepAppend DEF Kept1
    <2>4. q = p \o <<x>>
        BY <2>2, AppendIsConcat
    <2> QED BY <1>4, <2>1, <2>3, <2>4
<1> HIDE DEF T
<1>7. \A n \in 0 .. N : n \in T
    BY <1>2, <1>5, <1>6, Induction
<1>8. N \in T
    BY <1>2, <1>7
<1> QED BY <1>3, <1>8 DEF T

LEMMA JoinedInAnyOrder ==
    ASSUME NEW A
    PROVE  \A a, b, c \in Seq(A) : (a \o b) \o c = a \o (b \o c)
<1>1. ASSUME NEW a \in Seq(A), NEW b \in Seq(A), NEW c \in Seq(A)
      PROVE  (a \o b) \o c = a \o (b \o c)
    BY ConcatAssociative
<1> QED BY <1>1

LEMMA KeepConcat ==
    ASSUME NEW A, NEW s \in Seq(A), NEW t \in Seq(A), NEW S
    PROVE  Keep(s \o t, S) = Keep(s, S) \o Keep(t, S)
<1> DEFINE P(n) == SubSeq(t, 1, n)
           T == {n \in Nat : Keep(s \o P(n), S) = Keep(s, S) \o Keep(P(n), S)}
<1>1. PICK N : N = Len(t)
    OBVIOUS
<1>2. N \in Nat
    BY <1>1, LenProperties
<1>3. /\ P(0) = <<>> /\ P(N) = t
      /\ \A n \in 0 .. N - 1 : /\ t[n + 1] \in A /\ P(n) \in Seq(A)
                               /\ P(n + 1) = Append(P(n), t[n + 1])
    BY <1>1, Prefixed
<1> HIDE DEF P
<1>4. 0 \in T
    <2>1. s \o <<>> = s
        BY ConcatEmptySeq
    <2>2. Keep(s, S) \o <<>> = Keep(s, S)
        BY KeepTyped, ConcatEmptySeq
    <2> QED BY <1>3, <2>1, <2>2, KeepEmpty
<1>5. ASSUME NEW n \in 0 .. N - 1, n \in T PROVE n + 1 \in T
    <2>1. PICK p, q, x : p = P(n) /\ q = P(n + 1) /\ x = t[n + 1]
        OBVIOUS
    <2>2. x \in A /\ p \in Seq(A) /\ q = Append(p, x)
        BY <1>3, <2>1
    <2>3. Keep(s \o p, S) = Keep(s, S) \o Keep(p, S)
        BY <1>5, <2>1
    <2>4. PICK u : u = s \o p
        OBVIOUS
    <2>5. u \in Seq(A)
        BY <2>2, <2>4, ConcatProperties
    <2>6. s \o q = Append(u, x)
        <3>1. q = p \o <<x>> /\ Append(u, x) = u \o <<x>>
            BY <2>2, <2>5, AppendIsConcat
        <3>2. <<x>> \in Seq(A)
            BY <2>2
        <3> QED BY <2>2, <2>4, <3>1, <3>2, ConcatAssociative
    <2>7. Keep(s \o q, S) = Keep(u, S) \o Kept1(x, S)
        BY <2>2, <2>5, <2>6, KeepAppend
    <2>8. Keep(q, S) = Keep(p, S) \o Kept1(x, S)
        BY <2>2, KeepAppend
    <2>9. (Keep(s, S) \o Keep(p, S)) \o Kept1(x, S) = Keep(s, S) \o (Keep(p, S) \o Kept1(x, S))
        <3>1. Kept1(x, S) \in Seq(A)
            BY <2>2 DEF Kept1
        <3>2. Keep(s, S) \in Seq(A) /\ Keep(p, S) \in Seq(A)
            BY <2>2, KeepTyped
        <3>3. PICK a, b, c : a = Keep(s, S) /\ b = Keep(p, S) /\ c = Kept1(x, S)
            OBVIOUS
        <3>4. a \in Seq(A) /\ b \in Seq(A) /\ c \in Seq(A)
            BY <3>1, <3>2, <3>3
        <3>5. (a \o b) \o c = a \o (b \o c)
            BY <3>4, ConcatAssociative, SMTT(30)
        <3> QED BY <3>3, <3>5
    <2>10. n + 1 \in Nat
        BY <1>2
    <2> QED BY <2>1, <2>3, <2>4, <2>7, <2>8, <2>9, <2>10
<1> HIDE DEF T
<1>6. \A n \in 0 .. N : n \in T
    BY <1>2, <1>4, <1>5, Induction
<1>7. N \in T
    BY <1>2, <1>6
<1> QED BY <1>3, <1>7 DEF T

LEMMA KeepOne ==
    ASSUME NEW A, NEW x \in A, NEW S
    PROVE  Keep(<<x>>, S) = Kept1(x, S)
<1>1. <<>> \in Seq(A) /\ <<x>> = Append(<<>>, x)
    OBVIOUS
<1>2. Keep(<<x>>, S) = Keep(<<>>, S) \o Kept1(x, S)
    BY <1>1, KeepAppend
<1>3. Kept1(x, S) \in Seq(A)
    BY DEF Kept1
<1> QED BY <1>2, <1>3, KeepEmpty, ConcatEmptySeq

LEMMA KeepKeep ==
    ASSUME NEW A, NEW s \in Seq(A), NEW S, NEW R
    PROVE  Keep(Keep(s, S), R) = Keep(s, S \cap R)
<1> DEFINE P(n) == SubSeq(s, 1, n)
           T == {n \in Nat : Keep(Keep(P(n), S), R) = Keep(P(n), S \cap R)}
<1>1. PICK N : N = Len(s)
    OBVIOUS
<1>2. N \in Nat
    BY <1>1, LenProperties
<1>3. /\ P(0) = <<>> /\ P(N) = s
      /\ \A n \in 0 .. N - 1 : /\ s[n + 1] \in A /\ P(n) \in Seq(A)
                               /\ P(n + 1) = Append(P(n), s[n + 1])
    BY <1>1, Prefixed
<1> HIDE DEF P
<1>4. 0 \in T
    BY <1>3, KeepEmpty
<1>5. ASSUME NEW n \in 0 .. N - 1, n \in T PROVE n + 1 \in T
    <2>1. PICK p, q, x : p = P(n) /\ q = P(n + 1) /\ x = s[n + 1]
        OBVIOUS
    <2>2. x \in A /\ p \in Seq(A) /\ q = Append(p, x)
        BY <1>3, <2>1
    <2>3. Keep(Keep(p, S), R) = Keep(p, S \cap R)
        BY <1>5, <2>1
    <2>4. Keep(q, S) = Keep(p, S) \o Kept1(x, S)
        BY <2>2, KeepAppend
    <2>5. Keep(p, S) \in Seq(A) /\ Kept1(x, S) \in Seq(A)
        BY <2>2, KeepTyped DEF Kept1
    <2>6. Keep(Keep(q, S), R) = Keep(Keep(p, S), R) \o Keep(Kept1(x, S), R)
        BY <2>4, <2>5, KeepConcat
    <2>7. Keep(Kept1(x, S), R) = Kept1(x, S \cap R)
        <3>1. CASE x \in S
            BY <2>2, <3>1, KeepOne DEF Kept1
        <3>2. CASE x \notin S
            BY <3>2, KeepEmpty DEF Kept1
        <3> QED BY <3>1, <3>2
    <2>8. Keep(q, S \cap R) = Keep(p, S \cap R) \o Kept1(x, S \cap R)
        BY <2>2, KeepAppend
    <2>9. n + 1 \in Nat
        BY <1>2
    <2> QED BY <2>1, <2>3, <2>6, <2>7, <2>8, <2>9
<1> HIDE DEF T
<1>6. \A n \in 0 .. N : n \in T
    BY <1>2, <1>4, <1>5, Induction
<1>7. N \in T
    BY <1>2, <1>6
<1> QED BY <1>3, <1>7 DEF T

\* What a filter keeps are elements that satisfy it.
LEMMA KeepMembers ==
    ASSUME NEW A, NEW s \in Seq(A), NEW S
    PROVE  /\ \A p \in 1 .. Len(Keep(s, S)) :
                 /\ Keep(s, S)[p] \in S
                 /\ \E i \in 1 .. Len(s) : Keep(s, S)[p] = s[i]
           /\ \A i \in 1 .. Len(s) : s[i] \in S =>
                 \E p \in 1 .. Len(Keep(s, S)) : Keep(s, S)[p] = s[i]
<1>1. PICK K, f : K = Keep(s, S) /\ Picks(f, s, S, K)
    BY KeepPlaces
<1>2. ASSUME NEW p \in 1 .. Len(K)
      PROVE  K[p] \in S /\ \E i \in 1 .. Len(s) : K[p] = s[i]
    <2>1. f[p] \in 1 .. Len(s) /\ K[p] = s[f[p]] /\ K[p] \in S
        BY <1>1 DEF Picks
    <2> QED BY <2>1
<1>3. ASSUME NEW i \in 1 .. Len(s), s[i] \in S
      PROVE  \E p \in 1 .. Len(K) : K[p] = s[i]
    BY <1>1, <1>3 DEF Picks
<1> QED BY <1>1, <1>2, <1>3

LEMMA KeepFirst ==
    ASSUME NEW A, NEW s \in Seq(A), NEW S, s # <<>>, s[1] \in S
    PROVE  Keep(s, S) # <<>> /\ Keep(s, S)[1] = s[1]
<1>1. PICK K, f : K = Keep(s, S) /\ Picks(f, s, S, K)
    BY KeepPlaces
<1>2. K \in Seq(A) /\ Len(K) \in Nat /\ Len(s) \in Nat
    BY <1>1, KeepTyped, LenProperties
<1>3. 1 \in 1 .. Len(s)
    BY <1>2, EmptySeq
<1>4. PICK p \in 1 .. Len(K) : f[p] = 1
    BY <1>1, <1>3 DEF Picks
<1>5. 1 \in 1 .. Len(K) /\ K # <<>>
    BY <1>2, <1>4, EmptySeq
<1>6. f[1] \in 1 .. Len(s) /\ (1 < p => f[1] < f[p])
    BY <1>1, <1>5 DEF Picks
<1>7. p = 1
    BY <1>2, <1>4, <1>6
<1>8. K[1] = s[1]
    BY <1>1, <1>4, <1>5, <1>7 DEF Picks
<1> QED BY <1>1, <1>5, <1>8

LEMMA KeepLast ==
    ASSUME NEW A, NEW s \in Seq(A), NEW S, s # <<>>, s[Len(s)] \in S
    PROVE  Keep(s, S) # <<>> /\ Keep(s, S)[Len(Keep(s, S))] = s[Len(s)]
<1>1. PICK K, f, n, m : K = Keep(s, S) /\ Picks(f, s, S, K) /\ n = Len(s) /\ m = Len(K)
    BY KeepPlaces
<1>2. K \in Seq(A) /\ m \in Nat /\ n \in Nat
    BY <1>1, KeepTyped, LenProperties
<1>3. n \in 1 .. n
    BY <1>1, <1>2, EmptySeq
<1>4. PICK p \in 1 .. m : f[p] = n
    BY <1>1, <1>3 DEF Picks
<1>5. m \in 1 .. m /\ K # <<>>
    BY <1>1, <1>2, <1>4, EmptySeq
<1>6. f[m] \in 1 .. n /\ (p < m => f[p] < f[m])
    BY <1>1, <1>5 DEF Picks
<1>7. p = m
    BY <1>2, <1>4, <1>6
<1>8. K[m] = s[n]
    BY <1>1, <1>4, <1>5, <1>7 DEF Picks
<1> QED BY <1>1, <1>5, <1>8

\* Each element is related to every later one.
Ordered(s, R) == \A i, j \in 1 .. Len(s) : i < j => <<s[i], s[j]>> \in R

LEMMA OrderedKeep ==
    ASSUME NEW A, NEW s \in Seq(A), NEW S, NEW R, Ordered(s, R)
    PROVE  Ordered(Keep(s, S), R)
<1>1. PICK K, f : K = Keep(s, S) /\ Picks(f, s, S, K)
    BY KeepPlaces
<1>2. ASSUME NEW p \in 1 .. Len(K), NEW q \in 1 .. Len(K), p < q
      PROVE  <<K[p], K[q]>> \in R
    <2>1. f[p] \in 1 .. Len(s) /\ f[q] \in 1 .. Len(s) /\ f[p] < f[q]
        BY <1>1, <1>2 DEF Picks
    <2>2. <<s[f[p]], s[f[q]]>> \in R
        BY <2>1 DEF Ordered
    <2>3. K[p] = s[f[p]] /\ K[q] = s[f[q]]
        BY <1>1 DEF Picks
    <2> QED BY <2>2, <2>3
<1>3. Ordered(K, R)
    BY <1>2 DEF Ordered
<1> QED BY <1>1, <1>3

LEMMA OrderedConcat ==
    ASSUME NEW A, NEW s \in Seq(A), NEW t \in Seq(A), NEW R,
           Ordered(s, R), Ordered(t, R),
           \A i \in 1 .. Len(s), j \in 1 .. Len(t) : <<s[i], t[j]>> \in R
    PROVE  Ordered(s \o t, R)
<1>1. PICK u, n, m : u = s \o t /\ n = Len(s) /\ m = Len(t)
    OBVIOUS
<1>2. /\ n \in Nat /\ m \in Nat /\ Len(u) = n + m
      /\ \A i \in 1 .. n + m : u[i] = IF i <= n THEN s[i] ELSE t[i - n]
    BY <1>1, LenProperties, ConcatProperties
<1>3. ASSUME NEW i \in 1 .. n + m, NEW j \in 1 .. n + m, i < j
      PROVE  <<u[i], u[j]>> \in R
    <2>1. CASE j <= n
        <3>1. i \in 1 .. n /\ j \in 1 .. n
            BY <1>2, <1>3, <2>1
        <3>2. u[i] = s[i] /\ u[j] = s[j]
            BY <1>2, <3>1
        <3> QED BY <1>1, <1>3, <3>1, <3>2 DEF Ordered
    <2>2. CASE i <= n /\ ~(j <= n)
        <3>1. i \in 1 .. n /\ j - n \in 1 .. m
            BY <1>2, <1>3, <2>2
        <3>2. u[i] = s[i] /\ u[j] = t[j - n]
            BY <1>2, <2>2
        <3> QED BY <1>1, <3>1, <3>2
    <2>3. CASE ~(i <= n)
        <3>1. i - n \in 1 .. m /\ j - n \in 1 .. m /\ i - n < j - n /\ ~(j <= n)
            BY <1>2, <1>3, <2>3
        <3>2. u[i] = t[i - n] /\ u[j] = t[j - n]
            BY <1>2, <2>3, <3>1
        <3> QED BY <1>1, <3>1, <3>2 DEF Ordered
    <2> QED BY <2>1, <2>2, <2>3
<1>4. Ordered(u, R)
    BY <1>2, <1>3 DEF Ordered
<1> QED BY <1>1, <1>4

\* A flattened list is ordered when its lists are, and each before the next.
LEMMA OrderedFlatten ==
    ASSUME NEW A, NEW ss \in Seq(Seq(A)), NEW R,
           \A k \in 1 .. Len(ss) : Ordered(ss[k], R),
           \A k, l \in 1 .. Len(ss) : k < l =>
               \A i \in 1 .. Len(ss[k]), j \in 1 .. Len(ss[l]) : <<ss[k][i], ss[l][j]>> \in R
    PROVE  Ordered(FlattenSeq(ss), R)
<1>1. PICK F, b, o : F = FlattenSeq(ss) /\ Places(b, o, ss, F)
    BY FlattenPlaces
<1>2. ASSUME NEW p \in 1 .. Len(F), NEW q \in 1 .. Len(F), p < q
      PROVE  <<F[p], F[q]>> \in R
    <2>1. /\ b[p] \in 1 .. Len(ss) /\ b[q] \in 1 .. Len(ss)
          /\ o[p] \in 1 .. Len(ss[b[p]]) /\ o[q] \in 1 .. Len(ss[b[q]])
          /\ F[p] = ss[b[p]][o[p]] /\ F[q] = ss[b[q]][o[q]]
          /\ b[p] < b[q] \/ (b[p] = b[q] /\ o[p] < o[q])
        BY <1>1, <1>2 DEF Places
    <2>2. CASE b[p] < b[q]
        BY <2>1, <2>2
    <2>3. CASE b[p] = b[q] /\ o[p] < o[q]
        <3>1. Ordered(ss[b[p]], R)
            BY <2>1
        <3>2. <<ss[b[p]][o[p]], ss[b[p]][o[q]]>> \in R
            BY <2>1, <2>3, <3>1 DEF Ordered
        <3> QED BY <2>1, <2>3, <3>2
    <2> QED BY <2>1, <2>2, <2>3
<1>3. Ordered(F, R)
    BY <1>2 DEF Ordered
<1> QED BY <1>1, <1>3

LEMMA KeepFlattenAppend ==
    ASSUME NEW A, NEW ss \in Seq(Seq(A)), NEW x \in Seq(A), NEW S
    PROVE  Keep(FlattenSeq(Append(ss, x)), S) = Keep(FlattenSeq(ss), S) \o Keep(x, S)
<1>1. FlattenSeq(ss) \in Seq(A) /\ FlattenSeq(Append(ss, x)) = FlattenSeq(ss) \o x
    BY FlattenAppend
<1>2. ASSUME NEW f \in Seq(A) PROVE Keep(f \o x, S) = Keep(f, S) \o Keep(x, S)
    BY KeepConcat
<1> QED BY <1>1, <1>2

\* What a filter keeps of a flattened list when only list k holds any of it.
Only(ss, S, k) == \A j \in 1 .. Len(ss) : j # k => None(ss[j], S)

LEMMA KeepFlatten ==
    ASSUME NEW A, NEW ss \in Seq(Seq(A)), NEW S, NEW k \in 1 .. Len(ss), Only(ss, S, k)
    PROVE  Keep(FlattenSeq(ss), S) = Keep(ss[k], S)
<1> DEFINE P(n) == SubSeq(ss, 1, n)
           T == {n \in Nat : Keep(FlattenSeq(P(n)), S) = IF n < k THEN <<>> ELSE Keep(ss[k], S)}
<1>1. PICK N : N = Len(ss)
    OBVIOUS
<1>2. N \in Nat /\ k \in 1 .. N
    BY <1>1, LenProperties
<1>3. /\ P(0) = <<>> /\ P(N) = ss
      /\ \A n \in 0 .. N - 1 : /\ ss[n + 1] \in Seq(A) /\ P(n) \in Seq(Seq(A))
                               /\ P(n + 1) = Append(P(n), ss[n + 1])
    BY <1>1, Prefixed
<1> HIDE DEF P
<1>4. 0 \in T
    BY <1>2, <1>3, KeepEmpty, FlattenEmpty
<1>5. ASSUME NEW n \in 0 .. N - 1, n \in T PROVE n + 1 \in T
    <2>1. PICK p, q, x : p = P(n) /\ q = P(n + 1) /\ x = ss[n + 1]
        OBVIOUS
    <2>2. x \in Seq(A) /\ p \in Seq(Seq(A)) /\ q = Append(p, x)
        BY <1>3, <2>1
    <2>3. Keep(FlattenSeq(p), S) = IF n < k THEN <<>> ELSE Keep(ss[k], S)
        BY <1>5, <2>1
    <2>4. FlattenSeq(p) \in Seq(A) /\ FlattenSeq(q) = FlattenSeq(p) \o x
        BY <2>2, FlattenAppend
    <2>5. Keep(FlattenSeq(q), S) = Keep(FlattenSeq(p), S) \o Keep(x, S)
        BY <2>2, KeepFlattenAppend
    <2>6. Keep(x, S) \in Seq(A) /\ Keep(FlattenSeq(p), S) \in Seq(A)
        BY <2>2, <2>4, KeepTyped
    <2>7. n + 1 \in 1 .. N /\ n + 1 \in Nat
        BY <1>2
    <2>8. CASE n + 1 = k
        <3>1. n < k /\ ~(n + 1 < k) /\ x = ss[k]
            BY <1>2, <2>1, <2>8
        <3>2. <<>> \o Keep(x, S) = Keep(x, S)
            BY <2>6, ConcatEmptySeq
        <3> QED BY <2>1, <2>3, <2>5, <2>7, <3>1, <3>2
    <2>9. CASE n + 1 # k
        <3>1. Keep(x, S) = <<>>
            <4>1. None(x, S)
                BY <1>1, <2>1, <2>7, <2>9 DEF Only
            <4> QED BY <2>2, <4>1, KeepNone
        <3>2. Keep(FlattenSeq(q), S) = Keep(FlattenSeq(p), S)
            BY <2>5, <2>6, <3>1, ConcatEmptySeq
        <3>3. n < k <=> n + 1 < k
            BY <1>2, <2>9
        <3> QED BY <2>1, <2>3, <2>7, <3>2, <3>3
    <2> QED BY <2>8, <2>9
<1> HIDE DEF T
<1>6. \A n \in 0 .. N : n \in T
    BY <1>2, <1>4, <1>5, Induction
<1>7. N \in T /\ ~(N < k)
    BY <1>2, <1>6
<1> QED BY <1>3, <1>7 DEF T

-----------------------------------------------------------------------------
(* Lists.                                                                   *)

LEMMA Greatest ==
    ASSUME NEW N \in Nat, NEW T, T \subseteq 1 .. N, T # {}
    PROVE  \E x \in T : \A y \in T : y <= x
<1> DEFINE U == {N - y : y \in T}
<1>1. U \subseteq Nat /\ U # {}
    <2>1. \A y \in T : y \in 1 .. N
        OBVIOUS
    <2>2. \A y \in T : N - y \in Nat
        BY <2>1
    <2> QED BY <2>2
<1>2. PICK u \in U : \A v \in U : u <= v
    BY <1>1, Least
<1>3. PICK x \in T : u = N - x
    OBVIOUS
<1>4. ASSUME NEW y \in T PROVE y <= x
    <2>1. N - x <= N - y
        BY <1>2, <1>3
    <2> QED BY <2>1
<1> QED BY <1>4

LEMMA FlattenTyped ==
    ASSUME NEW A, NEW ss \in Seq(Seq(A))
    PROVE  FlattenSeq(ss) \in Seq(A)
<1>1. <<>> \in Seq(A)
    OBVIOUS
<1> QED BY <1>1, FlattenAppend

LEMMA FlattenMembers ==
    ASSUME NEW A, NEW ss \in Seq(Seq(A))
    PROVE  /\ \A p \in 1 .. Len(FlattenSeq(ss)) : \E k \in 1 .. Len(ss) :
                  \E i \in 1 .. Len(ss[k]) : FlattenSeq(ss)[p] = ss[k][i]
           /\ \A k \in 1 .. Len(ss) : \A i \in 1 .. Len(ss[k]) :
                  \E p \in 1 .. Len(FlattenSeq(ss)) : FlattenSeq(ss)[p] = ss[k][i]
<1>1. PICK F, b, o : F = FlattenSeq(ss) /\ Places(b, o, ss, F)
    BY FlattenPlaces
<1>2. ASSUME NEW p \in 1 .. Len(F)
      PROVE  \E k \in 1 .. Len(ss) : \E i \in 1 .. Len(ss[k]) : F[p] = ss[k][i]
    <2>1. b[p] \in 1 .. Len(ss) /\ o[p] \in 1 .. Len(ss[b[p]]) /\ F[p] = ss[b[p]][o[p]]
        BY <1>1, <1>2 DEF Places
    <2> QED BY <2>1
<1>3. ASSUME NEW k \in 1 .. Len(ss), NEW i \in 1 .. Len(ss[k])
      PROVE  \E p \in 1 .. Len(F) : F[p] = ss[k][i]
    <2>0. \A l \in 1 .. Len(ss) : \A j \in 1 .. Len(ss[l]) :
             \E p \in 1 .. Len(F) : b[p] = l /\ o[p] = j
        BY <1>1 DEF Places
    <2>1. PICK p \in 1 .. Len(F) : b[p] = k /\ o[p] = i
        BY <1>3, <2>0
    <2>2. F[p] = ss[b[p]][o[p]]
        BY <1>1, <2>1 DEF Places
    <2> QED BY <2>1, <2>2
<1> QED BY <1>1, <1>2, <1>3

\* What holds of the empty list and is kept by joining two holds of all joined.
LEMMA FlattenClosed ==
    ASSUME NEW A, NEW ss \in Seq(Seq(A)), NEW P, <<>> \in P,
           \A a, b \in Seq(A) : a \in P /\ b \in P => a \o b \in P,
           \A k \in 1 .. Len(ss) : ss[k] \in P
    PROVE  FlattenSeq(ss) \in P
<1> DEFINE Q(n) == SubSeq(ss, 1, n)
           T == {n \in Nat : FlattenSeq(Q(n)) \in P}
<1>1. PICK N : N = Len(ss)
    OBVIOUS
<1>2. N \in Nat
    BY <1>1, LenProperties
<1>3. /\ Q(0) = <<>> /\ Q(N) = ss
      /\ \A n \in 0 .. N - 1 : /\ ss[n + 1] \in Seq(A) /\ Q(n) \in Seq(Seq(A))
                               /\ Q(n + 1) = Append(Q(n), ss[n + 1])
    BY <1>1, Prefixed
<1> HIDE DEF Q
<1>4. 0 \in T
    BY <1>3, FlattenEmpty
<1>5. ASSUME NEW n \in 0 .. N - 1, n \in T PROVE n + 1 \in T
    <2>1. PICK p, q, x : p = Q(n) /\ q = Q(n + 1) /\ x = ss[n + 1]
        OBVIOUS
    <2>2. x \in Seq(A) /\ p \in Seq(Seq(A)) /\ q = Append(p, x)
        BY <1>3, <2>1
    <2>3. FlattenSeq(p) \in P /\ x \in P
        BY <1>1, <1>2, <1>5, <2>1
    <2>4. FlattenSeq(p) \in Seq(A) /\ FlattenSeq(q) = FlattenSeq(p) \o x
        BY <2>2, FlattenAppend
    <2>5. FlattenSeq(q) \in P /\ n + 1 \in Nat
        BY <1>2, <2>2, <2>3, <2>4
    <2> QED BY <2>1, <2>5
<1> HIDE DEF T
<1>6. \A n \in 0 .. N : n \in T
    BY <1>2, <1>4, <1>5, Induction
<1>7. N \in T
    BY <1>2, <1>6
<1> QED BY <1>3, <1>7 DEF T

LEMMA FlattenConcat ==
    ASSUME NEW A, NEW ss \in Seq(Seq(A)), NEW tt \in Seq(Seq(A))
    PROVE  FlattenSeq(ss \o tt) = FlattenSeq(ss) \o FlattenSeq(tt)
<1> DEFINE Q(n) == SubSeq(tt, 1, n)
           T == {n \in Nat : FlattenSeq(ss \o Q(n)) = FlattenSeq(ss) \o FlattenSeq(Q(n))}
<1>1. PICK N : N = Len(tt)
    OBVIOUS
<1>2. N \in Nat
    BY <1>1, LenProperties
<1>3. /\ Q(0) = <<>> /\ Q(N) = tt
      /\ \A n \in 0 .. N - 1 : /\ tt[n + 1] \in Seq(A) /\ Q(n) \in Seq(Seq(A))
                               /\ Q(n + 1) = Append(Q(n), tt[n + 1])
    BY <1>1, Prefixed
<1> HIDE DEF Q
<1>4. 0 \in T
    <2>1. ss \o <<>> = ss
        BY ConcatEmptySeq
    <2>2. FlattenSeq(ss) \in Seq(A)
        BY FlattenTyped
    <2>3. FlattenSeq(ss) \o <<>> = FlattenSeq(ss)
        BY <2>2, ConcatEmptySeq
    <2> QED BY <1>3, <2>1, <2>3, FlattenEmpty
<1>5. ASSUME NEW n \in 0 .. N - 1, n \in T PROVE n + 1 \in T
    <2>1. PICK p, q, x : p = Q(n) /\ q = Q(n + 1) /\ x = tt[n + 1]
        OBVIOUS
    <2>2. x \in Seq(A) /\ p \in Seq(Seq(A)) /\ q = Append(p, x)
        BY <1>3, <2>1
    <2>3. FlattenSeq(ss \o p) = FlattenSeq(ss) \o FlattenSeq(p)
        BY <1>5, <2>1
    <2>4. PICK u : u = ss \o p
        OBVIOUS
    <2>5. u \in Seq(Seq(A))
        BY <2>2, <2>4, ConcatProperties
    <2>6. ss \o q = Append(u, x)
        <3>1. q = p \o <<x>> /\ Append(u, x) = u \o <<x>>
            BY <2>2, <2>5, AppendIsConcat
        <3>2. <<x>> \in Seq(Seq(A))
            BY <2>2
        <3> QED BY <2>2, <2>4, <3>1, <3>2, JoinedInAnyOrder
    <2>7. FlattenSeq(ss \o q) = FlattenSeq(u) \o x
        BY <2>2, <2>5, <2>6, FlattenAppend
    <2>8. FlattenSeq(q) = FlattenSeq(p) \o x
        BY <2>2, FlattenAppend
    <2>9. (FlattenSeq(ss) \o FlattenSeq(p)) \o x = FlattenSeq(ss) \o (FlattenSeq(p) \o x)
        <3>1. PICK a, b : a = FlattenSeq(ss) /\ b = FlattenSeq(p)
            OBVIOUS
        <3>2. a \in Seq(A) /\ b \in Seq(A)
            BY <2>2, <3>1, FlattenTyped
        <3>3. (a \o b) \o x = a \o (b \o x)
            BY <2>2, <3>2, JoinedInAnyOrder
        <3> QED BY <3>1, <3>3
    <2>10. n + 1 \in Nat
        BY <1>2
    <2> QED BY <2>1, <2>3, <2>4, <2>7, <2>8, <2>9, <2>10
<1> HIDE DEF T
<1>6. \A n \in 0 .. N : n \in T
    BY <1>2, <1>4, <1>5, Induction
<1>7. N \in T
    BY <1>2, <1>6
<1> QED BY <1>3, <1>7 DEF T

-----------------------------------------------------------------------------
(* What a list tells when each of its elements tells a list.                *)

Each(L, s)   == [i \in DOMAIN s |-> L[s[i]]]
Spread(L, s) == FlattenSeq(Each(L, s))

Tells(L, A, B) == L \in [A -> Seq(B)]

LEMMA EachIs ==
    ASSUME NEW A, NEW B, NEW L, Tells(L, A, B), NEW s \in Seq(A)
    PROVE  /\ Each(L, s) \in Seq(Seq(B)) /\ Len(Each(L, s)) = Len(s)
           /\ \A i \in 1 .. Len(s) : Each(L, s)[i] = L[s[i]] /\ L[s[i]] \in Seq(B)
<1>1. PICK E, n : E = Each(L, s) /\ n = Len(s)
    OBVIOUS
<1>2. n \in Nat /\ DOMAIN s = 1 .. n /\ \A i \in 1 .. n : s[i] \in A
    BY <1>1, LenProperties
<1>3. E = [i \in 1 .. n |-> L[s[i]]]
    BY <1>1, <1>2 DEF Each
<1>4. \A i \in 1 .. n : L[s[i]] \in Seq(B)
    BY <1>2 DEF Tells
<1>5. E \in [1 .. n -> Seq(B)] /\ \A i \in 1 .. n : E[i] = L[s[i]]
    BY <1>3, <1>4
<1>6. E \in Seq(Seq(B)) /\ Len(E) = n
    BY <1>2, <1>5, ListOfLength
<1> QED BY <1>1, <1>4, <1>5, <1>6

LEMMA SpreadTyped ==
    ASSUME NEW A, NEW B, NEW L, Tells(L, A, B), NEW s \in Seq(A)
    PROVE  Spread(L, s) \in Seq(B)
<1>1. Each(L, s) \in Seq(Seq(B))
    BY EachIs
<1> QED BY <1>1, FlattenTyped DEF Spread

LEMMA SpreadEmpty ==
    ASSUME NEW L PROVE Spread(L, <<>>) = <<>>
<1>1. Each(L, <<>>) = <<>>
    BY DEF Each
<1> QED BY <1>1, FlattenEmpty DEF Spread

LEMMA SpreadOne ==
    ASSUME NEW A, NEW B, NEW L, Tells(L, A, B), NEW x \in A
    PROVE  Spread(L, <<x>>) = L[x]
<1>1. PICK s, E : s = <<x>> /\ E = Each(L, s)
    OBVIOUS
<1>2. s \in Seq(A) /\ Len(s) = 1 /\ s[1] = x
    BY <1>1
<1>3. E \in Seq(Seq(B)) /\ Len(E) = 1 /\ \A i \in 1 .. 1 : E[i] = L[s[i]]
    <2>1. /\ Each(L, s) \in Seq(Seq(B)) /\ Len(Each(L, s)) = Len(s)
          /\ \A i \in 1 .. Len(s) : Each(L, s)[i] = L[s[i]]
        BY <1>2, EachIs
    <2> QED BY <1>1, <1>2, <2>1
<1>4. E[1] = L[x]
    BY <1>2, <1>3
<1>5. FlattenSeq(E) = E[1]
    <2>1. PICK n : n = 1
        OBVIOUS
    <2>2. n \in Nat /\ Len(E) = n
        BY <1>3, <2>1
    <2> QED BY <2>1, <2>2, FlattenOne
<1> QED BY <1>1, <1>4, <1>5 DEF Spread

LEMMA EachConcat ==
    ASSUME NEW A, NEW B, NEW L, Tells(L, A, B), NEW s \in Seq(A), NEW t \in Seq(A)
    PROVE  Each(L, s \o t) = Each(L, s) \o Each(L, t)
<1>1. PICK u, n, m : u = s \o t /\ n = Len(s) /\ m = Len(t)
    OBVIOUS
<1>2. /\ n \in Nat /\ m \in Nat /\ u \in Seq(A) /\ Len(u) = n + m
      /\ \A i \in 1 .. n + m : u[i] = IF i <= n THEN s[i] ELSE t[i - n]
    BY <1>1, ConcatProperties, LenProperties
<1>3. PICK E, F, G : E = Each(L, s) /\ F = Each(L, t) /\ G = Each(L, u)
    OBVIOUS
<1>4. /\ E \in Seq(Seq(B)) /\ Len(E) = n /\ \A i \in 1 .. n : E[i] = L[s[i]]
      /\ F \in Seq(Seq(B)) /\ Len(F) = m /\ \A i \in 1 .. m : F[i] = L[t[i]]
      /\ G \in Seq(Seq(B)) /\ Len(G) = n + m /\ \A i \in 1 .. n + m : G[i] = L[u[i]]
    <2>1. ASSUME NEW v \in Seq(A)
          PROVE  /\ Each(L, v) \in Seq(Seq(B)) /\ Len(Each(L, v)) = Len(v)
                 /\ \A i \in 1 .. Len(v) : Each(L, v)[i] = L[v[i]]
        BY EachIs
    <2> QED BY <1>1, <1>2, <1>3, <2>1
<1>5. PICK H : H = E \o F
    OBVIOUS
<1>6. /\ H \in Seq(Seq(B)) /\ Len(H) = n + m
      /\ \A i \in 1 .. n + m : H[i] = IF i <= n THEN E[i] ELSE F[i - n]
    <2>1. E \in Seq(Seq(B)) /\ F \in Seq(Seq(B)) /\ Len(E) = n /\ Len(F) = m
        BY <1>4
    <2>2. /\ E \o F \in Seq(Seq(B)) /\ Len(E \o F) = Len(E) + Len(F)
          /\ \A i \in 1 .. Len(E) + Len(F) :
                (E \o F)[i] = IF i <= Len(E) THEN E[i] ELSE F[i - Len(E)]
        BY <2>1, ConcatProperties, Zenon
    <2> QED BY <1>5, <2>1, <2>2
<1>7. ASSUME NEW i \in 1 .. n + m PROVE G[i] = H[i]
    <2>0. G[i] = L[u[i]]
        BY <1>4
    <2>1. CASE i <= n
        <3>1. i \in 1 .. n
            BY <1>2, <2>1
        <3>2. u[i] = s[i] /\ H[i] = E[i] /\ E[i] = L[s[i]]
            BY <1>2, <1>4, <1>6, <2>1, <3>1
        <3> QED BY <2>0, <3>2
    <2>2. CASE ~(i <= n)
        <3>1. i - n \in 1 .. m
            BY <1>2, <2>2
        <3>2. u[i] = t[i - n] /\ H[i] = F[i - n] /\ F[i - n] = L[t[i - n]]
            BY <1>2, <1>4, <1>6, <2>2, <3>1
        <3> QED BY <2>0, <3>2
    <2> QED BY <2>1, <2>2
<1>8. G = H
    BY <1>4, <1>6, <1>7, SeqEqual
<1> QED BY <1>1, <1>3, <1>5, <1>8

LEMMA SpreadConcat ==
    ASSUME NEW A, NEW B, NEW L, Tells(L, A, B), NEW s \in Seq(A), NEW t \in Seq(A)
    PROVE  Spread(L, s \o t) = Spread(L, s) \o Spread(L, t)
<1>1. Each(L, s \o t) = Each(L, s) \o Each(L, t)
    BY EachConcat
<1>2. Each(L, s) \in Seq(Seq(B)) /\ Each(L, t) \in Seq(Seq(B))
    BY EachIs
<1> QED BY <1>1, <1>2, FlattenConcat DEF Spread

\* What a joined list tells is what its parts tell, joined.
LEMMA SpreadFlatten ==
    ASSUME NEW A, NEW B, NEW L, Tells(L, A, B), NEW ss \in Seq(Seq(A))
    PROVE  Spread(L, FlattenSeq(ss))
           = FlattenSeq(Each([s \in Seq(A) |-> Spread(L, s)], ss))
<1> DEFINE M == [s \in Seq(A) |-> Spread(L, s)]
           Q(n) == SubSeq(ss, 1, n)
           T == {n \in Nat : Spread(L, FlattenSeq(Q(n))) = FlattenSeq(Each(M, Q(n)))}
<1>0. Tells(M, Seq(A), B) /\ \A s \in Seq(A) : M[s] = Spread(L, s)
    BY SpreadTyped DEF Tells
<1> HIDE DEF M
<1>1. PICK N : N = Len(ss)
    OBVIOUS
<1>2. N \in Nat
    BY <1>1, LenProperties
<1>3. /\ Q(0) = <<>> /\ Q(N) = ss
      /\ \A n \in 0 .. N - 1 : /\ ss[n + 1] \in Seq(A) /\ Q(n) \in Seq(Seq(A))
                               /\ Q(n + 1) = Append(Q(n), ss[n + 1])
    BY <1>1, Prefixed
<1> HIDE DEF Q
<1>4. 0 \in T
    <2>1. Each(M, <<>>) = <<>>
        BY DEF Each
    <2> QED BY <1>3, <2>1, FlattenEmpty, SpreadEmpty
<1>5. ASSUME NEW n \in 0 .. N - 1, n \in T PROVE n + 1 \in T
    <2>1. PICK p, q, x : p = Q(n) /\ q = Q(n + 1) /\ x = ss[n + 1]
        OBVIOUS
    <2>2. x \in Seq(A) /\ p \in Seq(Seq(A)) /\ q = Append(p, x)
        BY <1>3, <2>1
    <2>3. Spread(L, FlattenSeq(p)) = FlattenSeq(Each(M, p))
        BY <1>5, <2>1
    <2>4. FlattenSeq(p) \in Seq(A) /\ FlattenSeq(q) = FlattenSeq(p) \o x
        BY <2>2, FlattenAppend
    <2>5. Spread(L, FlattenSeq(q)) = Spread(L, FlattenSeq(p)) \o Spread(L, x)
        BY <2>2, <2>4, SpreadConcat
    <2>6. <<x>> \in Seq(Seq(A)) /\ q = p \o <<x>>
        BY <2>2, AppendIsConcat
    <2>7. Each(M, q) = Each(M, p) \o Each(M, <<x>>)
        <3>1. PICK C, y : C = Seq(A) /\ y = <<x>>
            OBVIOUS
        <3>2. Tells(M, C, B) /\ p \in Seq(C) /\ y \in Seq(C)
            BY <1>0, <2>2, <2>6, <3>1
        <3>3. Each(M, p \o y) = Each(M, p) \o Each(M, y)
            BY <3>2, EachConcat
        <3> QED BY <2>6, <3>1, <3>3
    <2>8. Each(M, p) \in Seq(Seq(B)) /\ Each(M, <<x>>) \in Seq(Seq(B))
        <3>1. PICK C, y : C = Seq(A) /\ y = <<x>>
            OBVIOUS
        <3>2. Tells(M, C, B) /\ p \in Seq(C) /\ y \in Seq(C)
            BY <1>0, <2>2, <2>6, <3>1
        <3>3. Each(M, p) \in Seq(Seq(B)) /\ Each(M, y) \in Seq(Seq(B))
            BY <3>2, EachIs
        <3> QED BY <3>1, <3>3
    <2>9. FlattenSeq(Each(M, q)) = FlattenSeq(Each(M, p)) \o FlattenSeq(Each(M, <<x>>))
        BY <2>7, <2>8, FlattenConcat
    <2>10. FlattenSeq(Each(M, <<x>>)) = Spread(L, x)
        <3>1. Spread(M, <<x>>) = M[x]
            BY <1>0, <2>2, SpreadOne
        <3> QED BY <1>0, <2>2, <3>1 DEF Spread
    <2>11. n + 1 \in Nat
        BY <1>2
    <2> QED BY <2>1, <2>3, <2>5, <2>9, <2>10, <2>11
<1> HIDE DEF T
<1>6. \A n \in 0 .. N : n \in T
    BY <1>2, <1>4, <1>5, Induction
<1>7. N \in T
    BY <1>2, <1>6
<1> QED BY <1>3, <1>7 DEF T, M

LEMMA SpreadMembers ==
    ASSUME NEW A, NEW B, NEW L, Tells(L, A, B), NEW s \in Seq(A)
    PROVE  /\ \A p \in 1 .. Len(Spread(L, s)) : \E k \in 1 .. Len(s) :
                  \E i \in 1 .. Len(L[s[k]]) : Spread(L, s)[p] = L[s[k]][i]
           /\ \A k \in 1 .. Len(s) : \A i \in 1 .. Len(L[s[k]]) :
                  \E p \in 1 .. Len(Spread(L, s)) : Spread(L, s)[p] = L[s[k]][i]
<1>1. PICK E, n, F : E = Each(L, s) /\ n = Len(s) /\ F = FlattenSeq(E)
    OBVIOUS
<1>2. E \in Seq(Seq(B)) /\ Len(E) = n /\ \A k \in 1 .. n : E[k] = L[s[k]]
    BY <1>1, EachIs
<1>3. /\ \A p \in 1 .. Len(F) : \E k \in 1 .. n : \E i \in 1 .. Len(E[k]) : F[p] = E[k][i]
      /\ \A k \in 1 .. n : \A i \in 1 .. Len(E[k]) : \E p \in 1 .. Len(F) : F[p] = E[k][i]
    <2>1. ASSUME NEW ss \in Seq(Seq(B))
          PROVE  /\ \A p \in 1 .. Len(FlattenSeq(ss)) : \E k \in 1 .. Len(ss) :
                        \E i \in 1 .. Len(ss[k]) : FlattenSeq(ss)[p] = ss[k][i]
                 /\ \A k \in 1 .. Len(ss) : \A i \in 1 .. Len(ss[k]) :
                        \E p \in 1 .. Len(FlattenSeq(ss)) : FlattenSeq(ss)[p] = ss[k][i]
        BY FlattenMembers
    <2>2. Len(E) = n /\ F = FlattenSeq(E) /\ E \in Seq(Seq(B))
        BY <1>1, <1>2
    <2>3. ASSUME NEW p \in 1 .. Len(F)
          PROVE  \E k \in 1 .. n : \E i \in 1 .. Len(E[k]) : F[p] = E[k][i]
        BY <2>1, <2>2
    <2>4. ASSUME NEW k \in 1 .. n, NEW i \in 1 .. Len(E[k])
          PROVE  \E p \in 1 .. Len(F) : F[p] = E[k][i]
        BY <2>1, <2>2
    <2> QED BY <2>3, <2>4
<1>4. F = Spread(L, s)
    BY <1>1 DEF Spread
<1>5. ASSUME NEW p \in 1 .. Len(F)
      PROVE  \E k \in 1 .. Len(s) : \E i \in 1 .. Len(L[s[k]]) : F[p] = L[s[k]][i]
    <2>1. PICK k \in 1 .. n : \E i \in 1 .. Len(E[k]) : F[p] = E[k][i]
        BY <1>3
    <2>2. E[k] = L[s[k]] /\ k \in 1 .. Len(s)
        BY <1>1, <1>2
    <2> QED BY <2>1, <2>2
<1>6. ASSUME NEW k \in 1 .. Len(s), NEW i \in 1 .. Len(L[s[k]])
      PROVE  \E p \in 1 .. Len(F) : F[p] = L[s[k]][i]
    <2>1. E[k] = L[s[k]] /\ k \in 1 .. n
        BY <1>1, <1>2
    <2>2. i \in 1 .. Len(E[k])
        BY <2>1
    <2>3. \E p \in 1 .. Len(F) : F[p] = E[k][i]
        BY <1>3, <2>1, <2>2
    <2> QED BY <2>1, <2>3
<1> QED BY <1>4, <1>5, <1>6

LEMMA SpreadOrdered ==
    ASSUME NEW A, NEW B, NEW L, Tells(L, A, B), NEW s \in Seq(A), NEW R,
           \A k \in 1 .. Len(s) : Ordered(L[s[k]], R),
           \A k, l \in 1 .. Len(s) : k < l =>
               \A i \in 1 .. Len(L[s[k]]), j \in 1 .. Len(L[s[l]]) :
                   <<L[s[k]][i], L[s[l]][j]>> \in R
    PROVE  Ordered(Spread(L, s), R)
<1>1. PICK E, n : E = Each(L, s) /\ n = Len(s)
    OBVIOUS
<1>2. E \in Seq(Seq(B)) /\ Len(E) = n /\ \A k \in 1 .. n : E[k] = L[s[k]]
    BY <1>1, EachIs
<1>3. \A k \in 1 .. Len(E) : Ordered(E[k], R)
    BY <1>1, <1>2
<1>4. \A k, l \in 1 .. Len(E) : k < l =>
          \A i \in 1 .. Len(E[k]), j \in 1 .. Len(E[l]) : <<E[k][i], E[l][j]>> \in R
    <2>1. SUFFICES ASSUME NEW k \in 1 .. Len(E), NEW l \in 1 .. Len(E), k < l,
                          NEW i \in 1 .. Len(E[k]), NEW j \in 1 .. Len(E[l])
                   PROVE  <<E[k][i], E[l][j]>> \in R
        OBVIOUS
    <2>2. k \in 1 .. Len(s) /\ l \in 1 .. Len(s) /\ E[k] = L[s[k]] /\ E[l] = L[s[l]]
        BY <1>1, <1>2
    <2>3. i \in 1 .. Len(L[s[k]]) /\ j \in 1 .. Len(L[s[l]])
        BY <2>2
    <2>4. <<L[s[k]][i], L[s[l]][j]>> \in R
        BY <2>1, <2>2, <2>3
    <2> QED BY <2>2, <2>4
<1>5. Ordered(FlattenSeq(E), R)
    BY <1>2, <1>3, <1>4, OrderedFlatten
<1> QED BY <1>1, <1>5 DEF Spread

LEMMA SpreadClosed ==
    ASSUME NEW A, NEW B, NEW L, Tells(L, A, B), NEW s \in Seq(A), NEW P, <<>> \in P,
           \A a, b \in Seq(B) : a \in P /\ b \in P => a \o b \in P,
           \A k \in 1 .. Len(s) : L[s[k]] \in P
    PROVE  Spread(L, s) \in P
<1>1. PICK E, n : E = Each(L, s) /\ n = Len(s)
    OBVIOUS
<1>2. E \in Seq(Seq(B)) /\ Len(E) = n /\ \A k \in 1 .. n : E[k] = L[s[k]]
    BY <1>1, EachIs
<1>3. \A k \in 1 .. Len(E) : E[k] \in P
    BY <1>1, <1>2
<1>4. FlattenSeq(E) \in P
    BY <1>2, <1>3, FlattenClosed
<1> QED BY <1>1, <1>4 DEF Spread

\* A list of which every element tells one thing.
LEMMA SpreadSingles ==
    ASSUME NEW A, NEW B, NEW L, Tells(L, A, B), NEW s \in Seq(A),
           \A i \in 1 .. Len(s) : Len(L[s[i]]) = 1
    PROVE  /\ Len(Spread(L, s)) = Len(s)
           /\ \A i \in 1 .. Len(s) : Spread(L, s)[i] = L[s[i]][1]
<1> DEFINE Q(n) == SubSeq(s, 1, n)
           Good(n, F) == Len(F) = n /\ \A i \in 1 .. n : F[i] = L[s[i]][1]
           T == {n \in Nat : Good(n, Spread(L, Q(n)))}
<1>1. PICK N : N = Len(s)
    OBVIOUS
<1>2. N \in Nat
    BY <1>1, LenProperties
<1>3. /\ Q(0) = <<>> /\ Q(N) = s
      /\ \A n \in 0 .. N - 1 : /\ s[n + 1] \in A /\ Q(n) \in Seq(A)
                               /\ Q(n + 1) = Append(Q(n), s[n + 1])
    BY <1>1, Prefixed
<1> HIDE DEF Q
<1>4. 0 \in T
    BY <1>3, SpreadEmpty
<1>5. ASSUME NEW n \in 0 .. N - 1, n \in T PROVE n + 1 \in T
    <2>1. PICK p, q, x : p = Q(n) /\ q = Q(n + 1) /\ x = s[n + 1]
        OBVIOUS
    <2>2. x \in A /\ p \in Seq(A) /\ q = Append(p, x) /\ <<x>> \in Seq(A) /\ q = p \o <<x>>
        <3>1. x \in A /\ p \in Seq(A) /\ q = Append(p, x)
            BY <1>3, <2>1
        <3> QED BY <3>1, AppendIsConcat
    <2>3. PICK F, y : F = Spread(L, p) /\ y = L[x]
        OBVIOUS
    <2>4. F \in Seq(B) /\ y \in Seq(B) /\ Len(y) = 1 /\ n \in Nat /\ n + 1 \in 1 .. N
        <3>1. n \in Nat /\ n + 1 \in 1 .. N
            BY <1>2
        <3>2. L[x] \in Seq(B)
            BY <2>2 DEF Tells
        <3> QED BY <1>1, <2>1, <2>2, <2>3, <3>1, <3>2, SpreadTyped
    <2>5. Spread(L, q) = F \o y
        <3>1. PICK z : z = <<x>>
            OBVIOUS
        <3>2. Spread(L, p \o z) = Spread(L, p) \o Spread(L, z)
            <4>1. p \in Seq(A) /\ z \in Seq(A)
                BY <2>2, <3>1
            <4> QED BY <4>1, SpreadConcat
        <3>3. Spread(L, <<x>>) = L[x]
            BY <2>2, SpreadOne
        <3> QED BY <2>2, <2>3, <3>1, <3>2, <3>3
    <2>6. Good(n, F)
        BY <1>5, <2>1, <2>3
    <2>7. PICK H : H = F \o y
        OBVIOUS
    <2>8. Len(H) = n + 1 /\ \A i \in 1 .. n + 1 : H[i] = IF i <= n THEN F[i] ELSE y[i - n]
        <3>1. Len(F) = n
            BY <2>6
        <3>2. /\ Len(H) = Len(F) + Len(y)
              /\ \A i \in 1 .. Len(F) + Len(y) : H[i] = IF i <= Len(F) THEN F[i] ELSE y[i - Len(F)]
            BY <2>4, <2>7, ConcatProperties
        <3> QED BY <2>4, <3>1, <3>2
    <2>9. ASSUME NEW i \in 1 .. n + 1 PROVE H[i] = L[s[i]][1]
        <3>1. CASE i <= n
            BY <2>4, <2>6, <2>8, <3>1
        <3>2. CASE ~(i <= n)
            <4>1. i = n + 1 /\ i - n = 1
                BY <2>4, <3>2
            <4> QED BY <2>1, <2>3, <2>8, <3>2, <4>1
        <3> QED BY <3>1, <3>2
    <2>10. Good(n + 1, H)
        BY <2>8, <2>9
    <2> QED BY <2>1, <2>4, <2>5, <2>7, <2>10
<1> HIDE DEF T
<1>6. \A n \in 0 .. N : n \in T
    BY <1>2, <1>4, <1>5, Induction
<1>7. N \in T
    BY <1>2, <1>6
<1> QED BY <1>1, <1>3, <1>7 DEF T

LEMMA SpreadNothing ==
    ASSUME NEW A, NEW B, NEW L, Tells(L, A, B), NEW s \in Seq(A),
           \A i \in 1 .. Len(s) : L[s[i]] = <<>>
    PROVE  Spread(L, s) = <<>>
<1>1. PICK F : F = Spread(L, s)
    OBVIOUS
<1>2. F \in Seq(B)
    BY <1>1, SpreadTyped
<1>3. Len(F) \in Nat
    BY <1>2, LenProperties
<1>4. ASSUME NEW p \in 1 .. Len(F) PROVE FALSE
    <2>1. \A x \in 1 .. Len(F) : \E k \in 1 .. Len(s) : \E i \in 1 .. Len(L[s[k]]) : F[x] = L[s[k]][i]
        BY <1>1, SpreadMembers
    <2>2. PICK k \in 1 .. Len(s) : \E i \in 1 .. Len(L[s[k]]) : F[p] = L[s[k]][i]
        BY <2>1
    <2>3. L[s[k]] = <<>>
        OBVIOUS
    <2>4. 1 .. Len(L[s[k]]) = {}
        BY <2>3
    <2> QED BY <2>2, <2>4
<1>5. Len(F) = 0
    BY <1>3, <1>4
<1> QED BY <1>1, <1>2, <1>5, EmptySeq
=============================================================================
