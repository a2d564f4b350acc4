------------------------- MODULE MessageStreamProofs -------------------------
(***************************************************************************)
(* The streamed message of MessageStream: what is shown, kept for the next  *)
(* call and marked follows from what the model said alone, for every number *)
(* of choices, every text and every way to cut it into chunks.              *)
(*                                                                         *)
(* The proof looks at one choice at a time, at what the listeners will have *)
(* of it once they have heard the events under way (Rest).  Then            *)
(*   - what they have and what is held is what the model said,              *)
(*   - what they are shown is what they have, cleaned,                      *)
(*   - the snapshots of the publisher are what they have, and               *)
(*   - what they have does not end in "<", so no marker is cut in two.      *)
(* A choice passes its text on, holds it back or releases it, and each of   *)
(* the three keeps these facts.  Cleaning is what makes it work: a text cut *)
(* after anything but "<" has its markers in one half or in the other, and  *)
(* removing them from both halves removes them from the whole (CutTexts).   *)
(* Removing is picking places by their rank, hence the lemmas on ranks.     *)
(***************************************************************************)
EXTENDS MessageStream, SequenceTheorems, FiniteSetTheorems, TLAPS

-----------------------------------------------------------------------------
(* Ranks: the places that are kept, counted from the first.                *)

\* S is a set of places in a text of n tokens.
Places(S, n) == n \in Nat /\ S \subseteq 1 .. n

UpTo(S, i) == {j \in S : j <= i}
Rank(S, i) == Cardinality(UpTo(S, i))

LEMMA RankTyped ==
    ASSUME NEW n, NEW S, Places(S, n)
    PROVE  /\ IsFiniteSet(S) /\ Cardinality(S) \in 0 .. n /\ Cardinality(S) \in Nat
           /\ \A i \in S : i \in Int
           /\ \A i \in Int : /\ IsFiniteSet(UpTo(S, i))
                             /\ Rank(S, i) \in 0 .. Cardinality(S)
<1>1. IsFiniteSet(1 .. n) /\ Cardinality(1 .. n) = n /\ S \in SUBSET (1 .. n) /\ n \in Nat
    BY FS_Interval DEF Places
<1>2. IsFiniteSet(S) /\ Cardinality(S) <= n /\ Cardinality(S) \in Nat
    BY <1>1, FS_Subset, FS_CardinalityType
<1>3. ASSUME NEW i \in Int
      PROVE  IsFiniteSet(UpTo(S, i)) /\ Rank(S, i) \in 0 .. Cardinality(S)
    <2>1. UpTo(S, i) \in SUBSET S
        BY DEF UpTo
    <2>2. IsFiniteSet(UpTo(S, i)) /\ Cardinality(UpTo(S, i)) <= Cardinality(S)
        BY <1>2, <2>1, FS_Subset
    <2>3. Cardinality(UpTo(S, i)) \in Nat
        BY <2>2, FS_CardinalityType
    <2> QED BY <1>2, <2>2, <2>3 DEF Rank
<1>4. \A i \in S : i \in Int
    BY DEF Places
<1> QED BY <1>1, <1>2, <1>3, <1>4

\* The rank goes up by one at each place of the set and nowhere else.
LEMMA RankStep ==
    ASSUME NEW n, NEW S, Places(S, n), NEW i \in Int
    PROVE  Rank(S, i) = IF i \in S THEN Rank(S, i - 1) + 1 ELSE Rank(S, i - 1)
<1>1. IsFiniteSet(UpTo(S, i - 1)) /\ i \notin UpTo(S, i - 1)
    BY RankTyped DEF UpTo
<1>2. UpTo(S, i) = IF i \in S THEN UpTo(S, i - 1) \cup {i} ELSE UpTo(S, i - 1)
    <2>1. \A j \in S : j \in Int
        BY RankTyped
    <2>2. \A j \in Int : j <= i <=> j <= i - 1 \/ j = i
        OBVIOUS
    <2> QED BY <2>1, <2>2 DEF UpTo
<1>3. CASE i \in S
    BY <1>1, <1>2, <1>3, FS_AddElement DEF Rank
<1>4. CASE i \notin S
    BY <1>2, <1>4 DEF Rank
<1> QED BY <1>3, <1>4

LEMMA RankGrows ==
    ASSUME NEW n, NEW S, Places(S, n), NEW i \in S, NEW j \in S, i < j
    PROVE  Rank(S, i) < Rank(S, j)
<1>1. UpTo(S, i) \in SUBSET UpTo(S, j) /\ j \in UpTo(S, j) /\ j \notin UpTo(S, i)
    <2>1. \A k \in S : k \in Int
        BY RankTyped
    <2> QED BY <2>1 DEF UpTo
<1>2. IsFiniteSet(UpTo(S, j)) /\ Rank(S, i) \in Int /\ Rank(S, j) \in Int
    <2>1. i \in Int /\ j \in Int
        BY RankTyped
    <2>2. Cardinality(S) \in Nat
        BY RankTyped
    <2> QED BY <2>1, <2>2, RankTyped
<1>3. Rank(S, i) <= Rank(S, j) /\ Rank(S, i) # Rank(S, j)
    BY <1>1, <1>2, FS_Subset DEF Rank
<1> QED BY <1>2, <1>3

\* Every rank up to the number of places is the rank of one of them.
LEMMA RankTaken ==
    ASSUME NEW n, NEW S, Places(S, n), NEW k \in 1 .. Cardinality(S)
    PROVE  \E i \in S : Rank(S, i) = k
<1>1. PICK T, f : T = 1 .. Cardinality(S) /\ f = [i \in S |-> Rank(S, i)]
    OBVIOUS
<1>2. IsFiniteSet(S) /\ Cardinality(S) \in Nat
    BY RankTyped
<1>3. IsFiniteSet(T) /\ Cardinality(T) = Cardinality(S)
    BY <1>1, <1>2, FS_Interval
<1>4. \A i \in S : i \in Int
    BY RankTyped
<1>5. \A i \in S : Rank(S, i) \in T
    <2>1. ASSUME NEW i \in S PROVE Rank(S, i) \in 1 .. Cardinality(S)
        <3>1. IsFiniteSet(UpTo(S, i)) /\ Rank(S, i) \in 0 .. Cardinality(S)
            BY <1>4, RankTyped
        <3>2. i \in UpTo(S, i)
            BY <1>4 DEF UpTo
        <3>3. Rank(S, i) # 0
            BY <3>1, <3>2, FS_EmptySet DEF Rank
        <3> QED BY <1>2, <3>1, <3>3
    <2> QED BY <1>1, <2>1
<1>6. \A i, j \in S : f[i] = f[j] => i = j
    <2>1. ASSUME NEW i \in S, NEW j \in S, Rank(S, i) = Rank(S, j) PROVE i = j
        <3>1. i \in Int /\ j \in Int /\ Rank(S, i) \in Int /\ Rank(S, j) \in Int
            BY <1>2, <1>4, RankTyped
        <3>2. ~(i < j) /\ ~(j < i)
            BY <2>1, <3>1, RankGrows
        <3> QED BY <3>1, <3>2
    <2> QED BY <1>1, <2>1
<1>7. f \in Injection(S, T)
    BY <1>1, <1>5, <1>6 DEF Injection, IsInjective
<1>8. f \in Surjection(S, T)
    BY <1>3, <1>7, FS_Injection
<1> QED BY <1>1, <1>8 DEF Surjection

LEMMA NthIs ==
    ASSUME NEW n, NEW S, Places(S, n), NEW k \in 1 .. Cardinality(S)
    PROVE  /\ Nth(S, k) \in S /\ Rank(S, Nth(S, k)) = k
           /\ \A i \in S : Rank(S, i) = k => i = Nth(S, k)
<1>1. \E i \in S : Cardinality({j \in S : j <= i}) = k
    BY RankTaken DEF Rank, UpTo
<1>2. Nth(S, k) \in S /\ Cardinality({j \in S : j <= Nth(S, k)}) = k
    BY <1>1 DEF Nth
<1>3. Nth(S, k) \in S /\ Rank(S, Nth(S, k)) = k
    BY <1>2 DEF Rank, UpTo
<1>4. ASSUME NEW i \in S, Rank(S, i) = k
      PROVE  i = Nth(S, k)
    <2>1. \A j \in S : j \in Int
        BY RankTyped
    <2>3. i \in Int /\ Nth(S, k) \in Int
        BY <1>3, <2>1
    <2>4. k \in Int
        BY RankTyped
    <2>2. ~(i < Nth(S, k)) /\ ~(Nth(S, k) < i)
        BY <1>3, <1>4, <2>4, RankGrows
    <2> QED BY <2>2, <2>3
<1> QED BY <1>3, <1>4

LEMMA PickTyped ==
    ASSUME NEW A, NEW t \in Seq(A), NEW S, S \subseteq 1 .. Len(t)
    PROVE  Pick(t, S) \in Seq(A) /\ Len(Pick(t, S)) = Cardinality(S)
<1>1. Places(S, Len(t)) /\ Cardinality(S) \in Nat
    <2>1. Places(S, Len(t))
        BY LenProperties DEF Places
    <2> QED BY <2>1, RankTyped
<1>2. ASSUME NEW k \in 1 .. Cardinality(S)
      PROVE  t[Nth(S, k)] \in A
    <2>1. Nth(S, k) \in S
        BY <1>1, NthIs
    <2> QED BY <2>1, ElementOfSeq
<1> QED BY <1>1, <1>2 DEF Pick

\* All of a text is picked in its order.
LEMMA PickAll ==
    ASSUME NEW A, NEW t \in Seq(A)
    PROVE  Pick(t, DOMAIN t) = t
<1>1. PICK n, D : n = Len(t) /\ D = DOMAIN t
    OBVIOUS
<1>2. n \in Nat /\ D = 1 .. n /\ Cardinality(D) = n
    <2>1. n \in Nat /\ D = 1 .. n
        BY <1>1, LenProperties
    <2>2. Cardinality(1 .. n) = n
        BY <2>1, FS_Interval
    <2> QED BY <2>1, <2>2
<1>3. ASSUME NEW k \in 1 .. n
      PROVE  Nth(D, k) = k
    <2>1. UpTo(D, k) = 1 .. k
        BY <1>2 DEF UpTo
    <2>2. Rank(D, k) = k
        BY <2>1, FS_Interval DEF Rank
    <2>3. Places(D, n) /\ k \in D /\ k \in 1 .. Cardinality(D)
        BY <1>2 DEF Places
    <2> QED BY <2>2, <2>3, NthIs
<1>4. Pick(t, D) = [k \in 1 .. n |-> t[k]]
    BY <1>2, <1>3 DEF Pick
<1> QED BY <1>1, <1>2, <1>4


LEMMA ShiftCounts ==
    ASSUME NEW U, IsFiniteSet(U), \A x \in U : x \in Int, NEW m \in Int
    PROVE  LET V == {m + x : x \in U}
           IN IsFiniteSet(V) /\ Cardinality(V) = Cardinality(U)
<1>1. PICK V, f : V = {m + x : x \in U} /\ f = [x \in U |-> m + x]
    OBVIOUS
<1>2. f \in Injection(U, V)
    <2>1. f \in [U -> V]
        BY <1>1
    <2>2. ASSUME NEW x \in U, NEW y \in U, f[x] = f[y] PROVE x = y
        <3>1. f[x] = m + x /\ f[y] = m + y
            BY <1>1
        <3>2. x \in Int /\ y \in Int
            OBVIOUS
        <3>3. m + x = m + y
            BY <2>2, <3>1
        <3> QED BY <3>2, <3>3
    <2> QED BY <2>1, <2>2 DEF Injection, IsInjective
<1>3. f \in Surjection(U, V)
    <2>1. f \in [U -> V]
        BY <1>1
    <2>2. \A v \in V : \E x \in U : f[x] = v
        BY <1>1
    <2> QED BY <2>1, <2>2 DEF Surjection
<1>4. ExistsBijection(U, V)
    BY <1>2, <1>3 DEF ExistsBijection, Bijection
<1> QED BY <1>1, <1>4, FS_Bijection

\* W picks from two texts together what S and U pick from each.
Both(W, S, U, m, n) ==
    /\ Places(S, m) /\ Places(U, n) /\ Places(W, m + n)
    /\ \A i \in 1 .. m : i \in W <=> i \in S
    /\ \A j \in 1 .. n : m + j \in W <=> j \in U

LEMMA BothRanks ==
    ASSUME NEW m, NEW n, NEW S, NEW U, NEW W, Both(W, S, U, m, n)
    PROVE  /\ \A i \in 1 .. m : Rank(W, i) = Rank(S, i)
           /\ \A j \in 0 .. n : Rank(W, m + j) = Cardinality(S) + Rank(U, j)
           /\ Cardinality(W) = Cardinality(S) + Cardinality(U)
<1>1. /\ Places(S, m) /\ Places(U, n) /\ Places(W, m + n) /\ m \in Nat /\ n \in Nat
      /\ \A i \in S : i \in Int /\ 1 <= i /\ i <= m
      /\ \A i \in U : i \in Int /\ 1 <= i /\ i <= n
      /\ \A i \in W : i \in Int /\ 1 <= i /\ i <= m + n
    BY DEF Both, Places
<1>2. ASSUME NEW i \in 1 .. m
      PROVE  Rank(W, i) = Rank(S, i)
    <2>1. UpTo(W, i) = UpTo(S, i)
        BY <1>1 DEF UpTo, Both
    <2> QED BY <2>1 DEF Rank
<1>3. ASSUME NEW j \in 0 .. n
      PROVE  Rank(W, m + j) = Cardinality(S) + Rank(U, j)
    <2>1. PICK V : V = {m + x : x \in UpTo(U, j)}
        OBVIOUS
    <2>2. UpTo(W, m + j) = S \cup V
        <3>1. ASSUME NEW x, x \in UpTo(W, m + j) PROVE x \in S \cup V
            <4>1. x \in W /\ x \in Int /\ 1 <= x /\ x <= m + j
                BY <1>1, <3>1 DEF UpTo
            <4>2. CASE x <= m
                BY <1>1, <4>1, <4>2 DEF Both
            <4>3. CASE x > m
                <5>1. PICK y : y = x - m
                    OBVIOUS
                <5>2. y \in 1 .. n /\ x = m + y /\ y <= j
                    BY <1>1, <4>1, <4>3, <5>1
                <5>3. y \in UpTo(U, j)
                    BY <4>1, <5>2 DEF UpTo, Both
                <5> QED BY <2>1, <5>2, <5>3
            <4> QED BY <1>1, <4>1, <4>2, <4>3
        <3>2. ASSUME NEW x \in S PROVE x \in UpTo(W, m + j)
            BY <1>1 DEF UpTo, Both
        <3>3. ASSUME NEW x \in V PROVE x \in UpTo(W, m + j)
            <4>1. PICK y \in UpTo(U, j) : x = m + y
                BY <2>1
            <4>2. y \in U /\ y <= j /\ y \in 1 .. n
                BY <1>1 DEF UpTo
            <4> QED BY <1>1, <4>1, <4>2 DEF UpTo, Both
        <3> QED BY <3>1, <3>2, <3>3
    <2>3. S \cap V = {}
        <3>1. \A y \in UpTo(U, j) : y \in Int /\ 1 <= y
            BY <1>1 DEF UpTo
        <3>2. \A x \in V : x > m
            BY <1>1, <2>1, <3>1
        <3> QED BY <1>1, <3>2
    <2>4. IsFiniteSet(S) /\ Cardinality(S) \in Nat
        BY <1>1, RankTyped
    <2>5. /\ IsFiniteSet(UpTo(U, j)) /\ Rank(U, j) \in Int
          /\ \A x \in UpTo(U, j) : x \in Int
        <3>1. j \in Int /\ Cardinality(U) \in Nat
            BY <1>1, RankTyped
        <3> QED BY <1>1, <3>1, RankTyped DEF UpTo
    <2>6. IsFiniteSet(V) /\ Cardinality(V) = Rank(U, j)
        BY <1>1, <2>1, <2>5, ShiftCounts DEF Rank
    <2>7. Cardinality(S \cup V) = Cardinality(S) + Cardinality(V)
        BY <2>3, <2>4, <2>5, <2>6, FS_Union, FS_EmptySet
    <2> QED BY <2>2, <2>6, <2>7 DEF Rank
<1>4. Cardinality(W) = Cardinality(S) + Cardinality(U)
    <2>1. UpTo(W, m + n) = W /\ UpTo(U, n) = U
        BY <1>1 DEF UpTo
    <2>2. Rank(W, m + n) = Cardinality(S) + Rank(U, n)
        BY <1>1, <1>3
    <2> QED BY <2>1, <2>2 DEF Rank
<1> QED BY <1>2, <1>3, <1>4

LEMMA PickBoth ==
    ASSUME NEW A, NEW a \in Seq(A), NEW b \in Seq(A), NEW S, NEW U, NEW W,
           Both(W, S, U, Len(a), Len(b))
    PROVE  Pick(a \o b, W) = Pick(a, S) \o Pick(b, U)
<1>1. PICK m, n, x, y, t : /\ m = Len(a) /\ n = Len(b) /\ t = a \o b
                          /\ x = Pick(a, S) /\ y = Pick(b, U)
    OBVIOUS
<1>0. /\ Both(W, S, U, m, n)
      /\ \A i \in 1 .. m : Rank(W, i) = Rank(S, i)
      /\ \A j \in 0 .. n : Rank(W, m + j) = Cardinality(S) + Rank(U, j)
      /\ Cardinality(W) = Cardinality(S) + Cardinality(U)
    <2>1. Both(W, S, U, m, n)
        BY <1>1
    <2> QED BY <2>1, BothRanks
<1>2. /\ m \in Nat /\ n \in Nat /\ Places(S, m) /\ Places(U, n) /\ Places(W, m + n)
      /\ S \subseteq 1 .. m /\ U \subseteq 1 .. n /\ W \subseteq 1 .. m + n
    BY <1>1 DEF Both, Places
<1>3. /\ Cardinality(S) \in Nat /\ Cardinality(U) \in Nat
      /\ Cardinality(W) = Cardinality(S) + Cardinality(U)
    BY <1>0, <1>2, RankTyped
<1>4. /\ t \in Seq(A) /\ Len(t) = m + n
      /\ \A i \in 1 .. m : t[i] = a[i]
      /\ \A j \in 1 .. n : t[m + j] = b[j]
    BY <1>1, <1>2, ConcatProperties
<1>5. x \in Seq(A) /\ Len(x) = Cardinality(S) /\ y \in Seq(A) /\ Len(y) = Cardinality(U)
    BY <1>1, <1>2, PickTyped
<1>6. Pick(t, W) \in Seq(A) /\ Len(Pick(t, W)) = Cardinality(W)
    BY <1>2, <1>4, PickTyped
<1>7. ASSUME NEW k \in 1 .. Cardinality(S)
      PROVE  Pick(t, W)[k] = x[k]
    <2>1. PICK i : i = Nth(S, k)
        OBVIOUS
    <2>2. i \in S /\ Rank(S, i) = k /\ i \in 1 .. m
        BY <1>2, <2>1, NthIs
    <2>3. i \in W /\ Rank(W, i) = k
        BY <1>0, <2>2 DEF Both
    <2>4. k \in 1 .. Cardinality(W)
        BY <1>3
    <2>5. Nth(W, k) = i
        BY <1>2, <2>3, <2>4, NthIs
    <2>6. Pick(t, W)[k] = t[i] /\ x[k] = a[i]
        BY <1>1, <2>1, <2>4, <2>5 DEF Pick
    <2> QED BY <1>4, <2>2, <2>6
<1>8. ASSUME NEW k \in 1 .. Cardinality(U)
      PROVE  Pick(t, W)[Cardinality(S) + k] = y[k]
    <2>1. PICK j, l : j = Nth(U, k) /\ l = Cardinality(S) + k
        OBVIOUS
    <2>2. j \in U /\ Rank(U, j) = k /\ j \in 1 .. n
        BY <1>2, <2>1, NthIs
    <2>3. m + j \in W /\ Rank(W, m + j) = l
        <3>1. j \in 0 .. n
            BY <2>2
        <3> QED BY <1>0, <2>1, <2>2, <3>1 DEF Both
    <2>4. l \in 1 .. Cardinality(W)
        BY <1>3, <2>1
    <2>5. Nth(W, l) = m + j
        BY <1>2, <2>3, <2>4, NthIs
    <2>6. Pick(t, W)[l] = t[m + j] /\ y[k] = b[j]
        BY <1>1, <2>1, <2>4, <2>5 DEF Pick
    <2> QED BY <1>4, <2>1, <2>2, <2>6
<1>9. PICK p, z : p = Pick(t, W) /\ z = x \o y
    OBVIOUS
<1>10. /\ z \in Seq(A) /\ Len(z) = Cardinality(S) + Cardinality(U)
       /\ \A i \in 1 .. Cardinality(S) + Cardinality(U) :
             z[i] = IF i <= Cardinality(S) THEN x[i] ELSE y[i - Cardinality(S)]
    <2>1. /\ z \in Seq(A) /\ Len(z) = Len(x) + Len(y)
          /\ \A i \in 1 .. Len(x) + Len(y) : z[i] = IF i <= Len(x) THEN x[i] ELSE y[i - Len(x)]
        BY <1>5, <1>9, ConcatProperties
    <2> QED BY <1>5, <2>1
<1>11. ASSUME NEW i \in 1 .. Len(z)
       PROVE  p[i] = z[i]
    <2>1. CASE i <= Cardinality(S)
        BY <1>3, <1>7, <1>9, <1>10, <2>1
    <2>2. CASE i > Cardinality(S)
        <3>1. PICK k : k = i - Cardinality(S)
            OBVIOUS
        <3>2. k \in 1 .. Cardinality(U) /\ i = Cardinality(S) + k
            BY <1>3, <1>10, <2>2, <3>1
        <3>3. p[i] = y[k]
            BY <1>8, <1>9, <3>2
        <3> QED BY <1>3, <1>10, <2>2, <3>1, <3>3
    <2> QED BY <1>3, <1>10, <2>1, <2>2
<1>12. p = z
    BY <1>3, <1>6, <1>9, <1>10, <1>11, SeqEqual
<1> QED BY <1>1, <1>9, <1>12

-----------------------------------------------------------------------------
(* Texts: removing the marker and renaming a word, in one piece or in two.  *)

Texts == Seq(Shows)

\* The text does not end in what may be the beginning of a marker.
Closed(t) == t = <<>> \/ t[Len(t)] # "<"

\* The places that survive are places of the text.
LEMMA KeptPlaces ==
    ASSUME NEW t \in Texts
    PROVE  Places(Kept(t), Len(t)) /\ DOMAIN t = 1 .. Len(t) /\ Len(t) \in Nat
BY LenProperties DEF Texts, Kept, Places

LEMMA StripTyped ==
    ASSUME NEW t \in Texts
    PROVE  Strip(t) \in Texts
<1>1. Kept(t) \subseteq 1 .. Len(t)
    BY KeptPlaces DEF Places
<1> QED BY <1>1, PickTyped DEF Texts, Strip

\* A text without the marker is left as it is.
LEMMA StripPlain ==
    ASSUME NEW t \in Texts, ~Has(t)
    PROVE  Strip(t) = t
<1>1. DOMAIN t = 1 .. Len(t) /\ Len(t) \in Nat
    BY KeptPlaces
<1>2. \A i \in Int : ~MarkerAt(t, i)
    <2>1. ASSUME NEW i \in Int, MarkerAt(t, i) PROVE FALSE
        <3>1. i \in 1 .. Len(t)
            BY <1>1, <2>1 DEF MarkerAt
        <3> QED BY <1>1, <2>1, <3>1 DEF Has
    <2> QED BY <2>1
<1>3. Kept(t) = DOMAIN t
    BY <1>1, <1>2 DEF Kept
<1> QED BY <1>3, PickAll DEF Strip, Texts

LEMMA NoMarkerInNothing == <<>> \in Texts /\ ~Has(<<>>) /\ Strip(<<>>) = <<>>
<1>1. <<>> \in Texts /\ DOMAIN <<>> = {}
    BY EmptySeq DEF Texts
<1>2. ~Has(<<>>)
    BY <1>1 DEF Has
<1> QED BY <1>1, <1>2, StripPlain

\* A text cut after anything but "<" has the markers of its halves and no other.
LEMMA MarkerOfBoth ==
    ASSUME NEW a \in Texts, NEW b \in Texts, Closed(a)
    PROVE  /\ \A i \in 1 .. Len(a) : MarkerAt(a \o b, i) <=> MarkerAt(a, i)
           /\ \A i \in 1 .. Len(b) : MarkerAt(a \o b, Len(a) + i) <=> MarkerAt(b, i)
           /\ ~MarkerAt(a, 0) /\ ~MarkerAt(b, 0) /\ ~MarkerAt(a \o b, 0)
           /\ ~MarkerAt(a, Len(a)) /\ ~MarkerAt(a \o b, Len(a))
<1>1. PICK m, n, t : m = Len(a) /\ n = Len(b) /\ t = a \o b
    OBVIOUS
<1>2. /\ m \in Nat /\ n \in Nat /\ t \in Texts /\ Len(t) = m + n
      /\ \A i \in 1 .. m : t[i] = a[i]
      /\ \A i \in 1 .. n : t[m + i] = b[i]
    BY <1>1, KeptPlaces, ConcatProperties DEF Texts
<1>3. ~MarkerAt(a, 0) /\ ~MarkerAt(b, 0) /\ ~MarkerAt(t, 0) /\ ~MarkerAt(a, m)
    BY <1>1, <1>2 DEF MarkerAt
<1>4. ~MarkerAt(t, m)
    <2>1. CASE m = 0
        BY <1>3, <2>1
    <2>2. CASE m # 0
        <3>1. a # <<>>
            BY <1>1, <2>2, EmptySeq
        <3>2. a[m] # "<" /\ t[m] = a[m]
            BY <1>1, <1>2, <2>2, <3>1 DEF Closed
        <3> QED BY <3>2 DEF MarkerAt, Marker
    <2> QED BY <2>1, <2>2
<1>5. ASSUME NEW i \in 1 .. m
      PROVE  MarkerAt(t, i) <=> MarkerAt(a, i)
    <2>1. CASE i = m
        BY <1>3, <1>4, <2>1
    <2>2. CASE i # m
        <3>1. i \in 1 .. m - 1 /\ i \in 1 .. (m + n) - 1 /\ t[i] = a[i] /\ t[i + 1] = a[i + 1]
            BY <1>2, <2>2
        <3> QED BY <1>1, <1>2, <3>1 DEF MarkerAt
    <2> QED BY <2>1, <2>2
<1>6. ASSUME NEW i \in 1 .. n
      PROVE  MarkerAt(t, m + i) <=> MarkerAt(b, i)
    <2>1. m + i \in 1 .. (m + n) - 1 <=> i \in 1 .. n - 1
        BY <1>2
    <2>2. CASE i \in 1 .. n - 1
        <3>1. t[m + i] = b[i] /\ t[(m + i) + 1] = b[i + 1]
            <4>1. i + 1 \in 1 .. n /\ (m + i) + 1 = m + (i + 1)
                BY <1>2, <2>2
            <4> QED BY <1>2, <4>1
        <3> QED BY <1>1, <1>2, <2>1, <2>2, <3>1 DEF MarkerAt
    <2>3. CASE i \notin 1 .. n - 1
        BY <1>1, <1>2, <2>1, <2>3 DEF MarkerAt
    <2> QED BY <2>2, <2>3
<1> QED BY <1>1, <1>3, <1>4, <1>5, <1>6

\* Where a text is cut makes no difference, unless the cut may be inside a marker.
LEMMA CutTexts ==
    ASSUME NEW a \in Texts, NEW b \in Texts, Closed(a)
    PROVE  /\ Strip(a \o b) = Strip(a) \o Strip(b)
           /\ Has(a \o b) <=> Has(a) \/ Has(b)
<1>1. PICK m, n, t : m = Len(a) /\ n = Len(b) /\ t = a \o b
    OBVIOUS
<1>2. /\ m \in Nat /\ n \in Nat /\ t \in Texts /\ Len(t) = m + n
      /\ DOMAIN a = 1 .. m /\ DOMAIN b = 1 .. n /\ DOMAIN t = 1 .. m + n
      /\ Places(Kept(a), m) /\ Places(Kept(b), n) /\ Places(Kept(t), m + n)
    <2>1. t \in Texts /\ Len(t) = m + n
        BY <1>1, ConcatProperties DEF Texts
    <2> QED BY <1>1, <2>1, KeptPlaces
<1>3. /\ \A i \in 1 .. m : MarkerAt(t, i) <=> MarkerAt(a, i)
      /\ \A i \in 1 .. n : MarkerAt(t, m + i) <=> MarkerAt(b, i)
      /\ ~MarkerAt(a, 0) /\ ~MarkerAt(b, 0) /\ ~MarkerAt(t, 0)
      /\ ~MarkerAt(a, m) /\ ~MarkerAt(t, m)
    BY <1>1, MarkerOfBoth
<1>4. ASSUME NEW i \in 1 .. m
      PROVE  i \in Kept(t) <=> i \in Kept(a)
    <2>1. MarkerAt(t, i - 1) <=> MarkerAt(a, i - 1)
        <3>1. i - 1 = 0 \/ i - 1 \in 1 .. m
            BY <1>2
        <3> QED BY <1>3, <3>1
    <2>2. i \in 1 .. m + n
        BY <1>2
    <2> QED BY <1>2, <1>3, <2>1, <2>2 DEF Kept
<1>5. ASSUME NEW j \in 1 .. n
      PROVE  m + j \in Kept(t) <=> j \in Kept(b)
    <2>1. MarkerAt(t, (m + j) - 1) <=> MarkerAt(b, j - 1)
        <3>1. CASE j = 1
            <4>1. (m + j) - 1 = m /\ j - 1 = 0
                BY <1>2, <3>1
            <4> QED BY <1>3, <4>1
        <3>2. CASE j # 1
            <4>1. (m + j) - 1 = m + (j - 1) /\ j - 1 \in 1 .. n
                BY <1>2, <3>2
            <4> QED BY <1>3, <4>1
        <3> QED BY <3>1, <3>2
    <2>2. m + j \in 1 .. m + n
        BY <1>2
    <2> QED BY <1>2, <1>3, <2>1, <2>2 DEF Kept
<1>6. Both(Kept(t), Kept(a), Kept(b), m, n)
    BY <1>2, <1>4, <1>5 DEF Both
<1>7. Strip(t) = Strip(a) \o Strip(b)
    BY <1>1, <1>6, PickBoth DEF Strip, Texts
<1>8. Has(t) <=> Has(a) \/ Has(b)
    <2>1. ASSUME Has(t) PROVE Has(a) \/ Has(b)
        <3>1. PICK i \in 1 .. m + n : MarkerAt(t, i)
            BY <1>2, <2>1 DEF Has
        <3>2. CASE i \in 1 .. m
            BY <1>2, <1>3, <3>1, <3>2 DEF Has
        <3>3. CASE i \notin 1 .. m
            <4>1. PICK j : j = i - m
                OBVIOUS
            <4>2. j \in 1 .. n /\ i = m + j
                BY <1>2, <3>3, <4>1
            <4> QED BY <1>2, <1>3, <3>1, <4>2 DEF Has
        <3> QED BY <3>2, <3>3
    <2>2. ASSUME Has(a) PROVE Has(t)
        <3>1. PICK i \in 1 .. m : MarkerAt(a, i)
            BY <1>2, <2>2 DEF Has
        <3>2. i \in 1 .. m + n
            BY <1>2
        <3> QED BY <1>2, <1>3, <3>1, <3>2 DEF Has
    <2>3. ASSUME Has(b) PROVE Has(t)
        <3>1. PICK i \in 1 .. n : MarkerAt(b, i)
            BY <1>2, <2>3 DEF Has
        <3>2. m + i \in 1 .. m + n
            BY <1>2
        <3> QED BY <1>2, <1>3, <3>1, <3>2 DEF Has
    <2> QED BY <2>1, <2>2, <2>3
<1> QED BY <1>1, <1>7, <1>8

\* A marker in one of two texts is in both together.
LEMMA MarkerInside ==
    ASSUME NEW a \in Texts, NEW b \in Texts, Has(a) \/ Has(b)
    PROVE  Has(a \o b)
<1>1. PICK m, n, t : m = Len(a) /\ n = Len(b) /\ t = a \o b
    OBVIOUS
<1>2. /\ m \in Nat /\ n \in Nat /\ t \in Texts /\ Len(t) = m + n
      /\ DOMAIN a = 1 .. m /\ DOMAIN b = 1 .. n /\ DOMAIN t = 1 .. m + n
      /\ \A i \in 1 .. m : t[i] = a[i]
      /\ \A i \in 1 .. n : t[m + i] = b[i]
    <2>1. t \in Texts /\ Len(t) = m + n
        BY <1>1, ConcatProperties DEF Texts
    <2>2. /\ m \in Nat /\ n \in Nat
          /\ DOMAIN a = 1 .. m /\ DOMAIN b = 1 .. n /\ DOMAIN t = 1 .. m + n
        BY <1>1, <2>1, KeptPlaces
    <2> QED BY <1>1, <2>1, <2>2, ConcatProperties DEF Texts
<1>3. CASE Has(a)
    <2>1. PICK i \in 1 .. m : MarkerAt(a, i)
        BY <1>2, <1>3 DEF Has
    <2>2. i \in 1 .. m - 1 /\ i + 1 \in 1 .. m
        BY <1>1, <1>2, <2>1 DEF MarkerAt
    <2>3. /\ i \in 1 .. (m + n) - 1 /\ i \in 1 .. m + n
          /\ t[i] = a[i] /\ t[i + 1] = a[i + 1]
        BY <1>2, <2>2
    <2>4. MarkerAt(t, i)
        BY <1>2, <2>1, <2>3 DEF MarkerAt
    <2> QED BY <1>1, <1>2, <2>3, <2>4 DEF Has
<1>4. CASE Has(b)
    <2>1. PICK i \in 1 .. n : MarkerAt(b, i)
        BY <1>2, <1>4 DEF Has
    <2>2. i \in 1 .. n - 1 /\ i + 1 \in 1 .. n
        BY <1>1, <1>2, <2>1 DEF MarkerAt
    <2>3. m + i \in 1 .. (m + n) - 1 /\ m + i \in 1 .. m + n /\ (m + i) + 1 = m + (i + 1)
        BY <1>2, <2>2
    <2>4. t[m + i] = b[i] /\ t[(m + i) + 1] = b[i + 1]
        BY <1>2, <2>2, <2>3
    <2>5. MarkerAt(t, m + i)
        BY <1>2, <2>1, <2>3, <2>4 DEF MarkerAt
    <2> QED BY <1>1, <1>2, <2>3, <2>5 DEF Has
<1> QED BY <1>3, <1>4

\* Renaming goes token by token and twice is once.
LEMMA Renames ==
    ASSUME NEW a \in Texts, NEW b \in Texts
    PROVE  /\ Rename(a) \in Texts /\ Rename(Rename(a)) = Rename(a)
           /\ Rename(a \o b) = Rename(a) \o Rename(b)
           /\ "word" \notin ToSet(a) => Rename(a) = a
<1>1. PICK m, n, t, x, y : /\ m = Len(a) /\ n = Len(b) /\ t = a \o b
                          /\ x = Rename(a) /\ y = Rename(b)
    OBVIOUS
<1>2. /\ m \in Nat /\ n \in Nat /\ t \in Texts /\ Len(t) = m + n
      /\ DOMAIN a = 1 .. m /\ DOMAIN b = 1 .. n /\ DOMAIN t = 1 .. m + n
      /\ \A i \in 1 .. m + n : t[i] = IF i <= m THEN a[i] ELSE b[i - m]
    <2>1. t \in Texts /\ Len(t) = m + n
        BY <1>1, ConcatProperties DEF Texts
    <2>2. m \in Nat /\ n \in Nat /\ DOMAIN a = 1 .. m /\ DOMAIN b = 1 .. n /\ DOMAIN t = 1 .. m + n
        BY <1>1, <2>1, KeptPlaces
    <2> QED BY <1>1, <2>1, <2>2, ConcatProperties DEF Texts
<1>3. ASSUME NEW s \in Texts
      PROVE  Rename(s) \in Texts /\ Len(Rename(s)) = Len(s)
    <2>1. DOMAIN s = 1 .. Len(s) /\ Len(s) \in Nat
        BY KeptPlaces
    <2>2. \A i \in 1 .. Len(s) : s[i] \in Shows
        BY ElementOfSeq DEF Texts
    <2> QED BY <2>1, <2>2 DEF Rename, Texts, Shows
<1>4. x \in Texts /\ y \in Texts /\ Len(x) = m /\ Len(y) = n /\ Rename(t) \in Texts /\ Len(Rename(t)) = m + n
    BY <1>1, <1>2, <1>3
<1>5. /\ x \o y \in Texts /\ Len(x \o y) = m + n
      /\ \A i \in 1 .. m + n : (x \o y)[i] = IF i <= m THEN x[i] ELSE y[i - m]
    <2>1. /\ x \o y \in Texts /\ Len(x \o y) = Len(x) + Len(y)
          /\ \A i \in 1 .. Len(x) + Len(y) : (x \o y)[i] = IF i <= Len(x) THEN x[i] ELSE y[i - Len(x)]
        BY <1>4, ConcatProperties DEF Texts
    <2> QED BY <1>4, <2>1
<1>6. Rename(t) = x \o y
    <2>1. ASSUME NEW i \in 1 .. m + n PROVE Rename(t)[i] = (x \o y)[i]
        <3>1. Rename(t)[i] = IF t[i] = "word" THEN "other" ELSE t[i]
            BY <1>2 DEF Rename
        <3>2. CASE i <= m
            <4>1. i \in 1 .. m
                BY <1>2, <3>2
            <4>2. x[i] = IF a[i] = "word" THEN "other" ELSE a[i]
                BY <1>1, <1>2, <4>1 DEF Rename
            <4> QED BY <1>2, <1>5, <3>1, <3>2, <4>2
        <3>3. CASE ~(i <= m)
            <4>1. i - m \in 1 .. n
                BY <1>2, <3>3
            <4>2. y[i - m] = IF b[i - m] = "word" THEN "other" ELSE b[i - m]
                BY <1>1, <1>2, <4>1 DEF Rename
            <4> QED BY <1>2, <1>5, <3>1, <3>3, <4>2
        <3> QED BY <3>2, <3>3
    <2>2. PICK p, z : p = Rename(t) /\ z = x \o y
        OBVIOUS
    <2> QED BY <1>4, <1>5, <2>1, <2>2, SeqEqual DEF Texts
<1>7. Rename(x) = x
    BY <1>1, <1>2 DEF Rename
<1>8. "word" \notin ToSet(a) => x = a
    <2>1. a = [i \in 1 .. m |-> a[i]]
        BY <1>1, LenProperties DEF Texts
    <2> QED BY <1>1, <1>2, <2>1 DEF Rename, ToSet
<1> QED BY <1>1, <1>4, <1>6, <1>7, <1>8

-----------------------------------------------------------------------------
(* Contents: texts that were perhaps never received.                       *)

Part    == {NoText} \cup Texts
Content == [Parts -> Part]

LEMMA PartTyped ==
    /\ NoText \in Part /\ Text(NoText) = <<>> /\ <<>> \in Part /\ <<>> # NoText
    /\ \A a \in Part : Text(a) \in Texts
    /\ \A a \in Texts : a \in Part /\ a # NoText /\ Text(a) = a
BY NoTextIsNoText, NoMarkerInNothing DEF Part, Texts, Text

LEMMA JoinTyped ==
    ASSUME NEW a \in Part, NEW b \in Part
    PROVE  /\ Join(a, b) \in Part /\ Text(Join(a, b)) = Text(a) \o Text(b)
           /\ Join(a, NoText) = a /\ Join(NoText, b) = b
           /\ Join(a, b) = NoText <=> a = NoText /\ b = NoText
           /\ Join(<<>>, b) = IF b = NoText THEN <<>> ELSE b
           /\ Join(a, <<>>) = IF a = NoText THEN <<>> ELSE a
<1>1. Text(a) \in Texts /\ Text(b) \in Texts
    BY PartTyped
<1>2. Text(a) \o <<>> = Text(a) /\ <<>> \o Text(b) = Text(b)
    BY <1>1, ConcatEmptySeq DEF Texts
<1>3. Text(a) \o Text(b) \in Texts
    BY <1>1, ConcatProperties DEF Texts
<1>4. Join(a, NoText) = a /\ Join(NoText, b) = b
    BY DEF Join
<1>0. NoText \in Part /\ Text(NoText) = <<>> /\ <<>> \in Part /\ <<>> # NoText
    BY PartTyped
<1>7. CASE a = NoText
    <2>1. Join(a, b) = b /\ Text(a) = <<>> /\ Join(a, <<>>) = <<>>
        BY <1>0, <1>4, <1>7 DEF Join
    <2>2. Join(<<>>, b) = IF b = NoText THEN <<>> ELSE b
        BY <1>0, <1>2 DEF Join, Text
    <2> QED BY <1>2, <1>4, <1>7, <2>1, <2>2
<1>5. CASE b = NoText /\ a # NoText
    <2>1. Join(a, b) = a /\ Text(b) = <<>> /\ Join(<<>>, b) = <<>>
        BY <1>0, <1>5 DEF Join, Text
    <2>2. Join(a, <<>>) = a
        BY <1>0, <1>2, <1>5 DEF Join, Text
    <2> QED BY <1>2, <1>4, <1>5, <2>1, <2>2
<1>6. CASE a # NoText /\ b # NoText
    <2>1. a = Text(a) /\ b = Text(b) /\ Join(a, b) = Text(a) \o Text(b)
        BY <1>6 DEF Text, Join
    <2>2. Join(a, b) \in Texts
        BY <1>3, <2>1
    <2>3. Join(<<>>, b) = b /\ Join(a, <<>>) = a
        BY <1>2, <1>6, <2>1, PartTyped DEF Join
    <2> QED BY <1>4, <1>6, <2>1, <2>2, <2>3, PartTyped
<1> QED BY <1>5, <1>6, <1>7

LEMMA JoinTexts ==
    ASSUME NEW a \in Part, NEW b \in Part
    PROVE  /\ Join(a, b) \in Part /\ Text(Join(a, b)) = Text(a) \o Text(b)
           /\ a # NoText \/ b # NoText => Join(a, b) # NoText
BY JoinTyped

LEMMA JoinJoin ==
    ASSUME NEW a \in Part, NEW b \in Part, NEW d \in Part
    PROVE  Join(Join(a, b), d) = Join(a, Join(b, d))
<1>0. NoText \in Part /\ Join(a, b) \in Part /\ Join(b, d) \in Part
    BY JoinTyped, PartTyped
<1>3. CASE a = NoText
    BY <1>0, <1>3, JoinTyped
<1>4. CASE b = NoText
    BY <1>0, <1>4, JoinTyped
<1>5. CASE d = NoText
    BY <1>0, <1>5, JoinTyped
<1>2. CASE a # NoText /\ b # NoText /\ d # NoText
    <2>1. a \in Texts /\ b \in Texts /\ d \in Texts
        BY <1>2 DEF Part
    <2>2. a \o b \in Texts /\ b \o d \in Texts /\ (a \o b) \o d = a \o (b \o d)
        BY <2>1, ConcatProperties, ConcatAssociative DEF Texts
    <2>3. a \o b # NoText /\ b \o d # NoText
        BY <2>2, PartTyped
    <2>4. Join(a, b) = a \o b /\ Join(b, d) = b \o d
        BY <1>2 DEF Join
    <2> QED BY <1>2, <2>2, <2>3, <2>4 DEF Join
<1> QED BY <1>2, <1>3, <1>4, <1>5

LEMMA MergeTyped ==
    ASSUME NEW x \in Content, NEW y \in Content
    PROVE  /\ Nothing \in Content
           /\ Merge(x, y) \in Content /\ \A p \in Parts : Merge(x, y)[p] = Join(x[p], y[p])
           /\ Merge(x, Nothing) = x /\ Merge(Nothing, y) = y
           /\ Merge(x, y) = Nothing => x = Nothing /\ y = Nothing
<1>1. \A p \in Parts : x[p] \in Part /\ y[p] \in Part
    BY DEF Content
<1>2. Nothing \in Content /\ \A p \in Parts : Nothing[p] = NoText
    BY DEF Nothing, Content, Part
<1>3. \A p \in Parts : Merge(x, y)[p] = Join(x[p], y[p])
    BY DEF Merge
<1>4. Merge(x, y) \in Content
    <2>1. \A p \in Parts : Join(x[p], y[p]) \in Part
        BY <1>1, JoinTyped
    <2> QED BY <2>1 DEF Merge, Content
<1>5. Merge(x, Nothing) = x
    <2>1. \A p \in Parts : Join(x[p], Nothing[p]) = x[p]
        BY <1>2 DEF Join
    <2> QED BY <2>1 DEF Merge, Content
<1>6. Merge(Nothing, y) = y
    <2>1. \A p \in Parts : Join(Nothing[p], y[p]) = y[p]
        BY <1>2 DEF Join
    <2> QED BY <2>1 DEF Merge, Content
<1>7. ASSUME Merge(x, y) = Nothing PROVE x = Nothing /\ y = Nothing
    <2>1. \A p \in Parts : Join(x[p], y[p]) = NoText
        BY <1>2, <1>3, <1>7
    <2>2. \A p \in Parts : x[p] = NoText /\ y[p] = NoText
        BY <1>1, <2>1, JoinTyped
    <2> QED BY <2>2 DEF Nothing, Content
<1> QED BY <1>2, <1>3, <1>4, <1>5, <1>6, <1>7

LEMMA MergeMerge ==
    ASSUME NEW x \in Content, NEW y \in Content, NEW z \in Content
    PROVE  Merge(Merge(x, y), z) = Merge(x, Merge(y, z))
<1>1. \A p \in Parts : x[p] \in Part /\ y[p] \in Part /\ z[p] \in Part
    BY DEF Content
<1>2. \A p \in Parts : Join(Join(x[p], y[p]), z[p]) = Join(x[p], Join(y[p], z[p]))
    BY <1>1, JoinJoin
<1>3. /\ Merge(Merge(x, y), z) = [p \in Parts |-> Join(Join(x[p], y[p]), z[p])]
      /\ Merge(x, Merge(y, z)) = [p \in Parts |-> Join(x[p], Join(y[p], z[p]))]
    BY DEF Merge
<1> QED BY <1>2, <1>3

\* Cleaning the halves cleans the whole.
LEMMA CleanTexts ==
    ASSUME NEW a \in Texts, NEW b \in Texts
    PROVE  /\ Clean(a) \in Texts /\ Rename(Clean(a)) = Clean(a) /\ Clean(<<>>) = <<>>
           /\ (sub => Closed(a)) => Clean(a \o b) = Clean(a) \o Clean(b)
<1>1. Strip(a) \in Texts /\ Strip(b) \in Texts
    BY StripTyped
<1>2. Clean(a) \in Texts /\ Rename(Clean(a)) = Clean(a)
    BY <1>1, Renames DEF Clean
<1>3. Clean(<<>>) = <<>>
    <2>1. Rename(<<>>) = <<>>
        BY DEF Rename
    <2> QED BY <2>1, NoMarkerInNothing DEF Clean
<1>4. ASSUME sub => Closed(a) PROVE Clean(a \o b) = Clean(a) \o Clean(b)
    <2>1. CASE sub
        <3>1. Strip(a \o b) = Strip(a) \o Strip(b)
            BY <1>4, <2>1, CutTexts
        <3>2. Rename(Strip(a) \o Strip(b)) = Rename(Strip(a)) \o Rename(Strip(b))
            BY <1>1, Renames
        <3> QED BY <2>1, <3>1, <3>2 DEF Clean
    <2>2. CASE ~sub
        BY <2>2, Renames DEF Clean
    <2> QED BY <2>1, <2>2
<1> QED BY <1>2, <1>3, <1>4

-----------------------------------------------------------------------------
(* One choice: what the listeners have of it, m, once they have heard every *)
(* event under way, its context k, and what the model said of it, s.        *)

MessageSet == [raw : Content, display : Content, context : Content, tag : BOOLEAN]
ContextSet == [held : Content, shown : Content, kept : Content]

\* A snapshot does not know of a text that was held back before any was shown.
Behind(a, b) == a = b \/ (a = NoText /\ b = <<>>)

\* The snapshots are what the listeners have.
Follows(m, k) ==
    \A p \in Parts : Behind(k.shown[p], m.display[p]) /\ Behind(k.kept[p], m.context[p])

\* All that the model said is told or held, and what is shown is what is told,
\* cleaned; a marker that was told has left its mark.
Sound(m, k, s) ==
    /\ m \in MessageSet /\ k \in ContextSet /\ s \in Content
    /\ m.raw = s /\ Merge(m.context, k.held) = s
    /\ Text(m.display["content"]) = Clean(Text(m.context["content"]))
    /\ ~Has(Text(s["reasoning"])) => m.tag = (sub /\ Has(Text(m.context["content"])))

\* Nothing was told that ends in the beginning of a marker.
CutClean(m) == sub => Closed(Text(m.context["content"]))

LEMMA PartsAre == "content" \in Parts /\ "reasoning" \in Parts
BY DEF Parts

LEMMA BehindTexts ==
    ASSUME NEW a \in Part, NEW b \in Part, Behind(a, b), NEW x \in Part
    PROVE  /\ Text(a) = Text(b) /\ Behind(Join(a, x), Join(b, x))
           /\ (IF a = NoText THEN b ELSE a) = b
<1>1. Text(a) = Text(b)
    BY PartTyped DEF Behind
<1>2. Behind(Join(a, x), Join(b, x))
    <2>1. CASE a = b
        BY <2>1 DEF Behind
    <2>2. CASE a = NoText /\ b = <<>>
        <3>1. Join(a, x) = x /\ Join(b, x) = IF x = NoText THEN <<>> ELSE x
            BY <2>2, JoinTyped
        <3> QED BY <3>1 DEF Behind
    <2> QED BY <2>1, <2>2 DEF Behind
<1>3. (IF a = NoText THEN b ELSE a) = b
    BY DEF Behind
<1> QED BY <1>1, <1>2, <1>3

LEMMA HeldTyped ==
    ASSUME NEW c \in Indexes, contexts[c] \in ContextSet, NEW delta \in Content
    PROVE  /\ Held(c, delta) \in Content /\ Shown(Held(c, delta)) \in Content
           /\ \A p \in Parts : delta[p] # NoText =>
                 Held(c, delta)[p] # NoText /\ Shown(Held(c, delta))[p] # NoText
<1>1. PICK h, o : h = Held(c, delta) /\ o = contexts[c].held
    OBVIOUS
<1>2. o \in Content
    BY <1>1 DEF ContextSet
<1>3. h \in Content /\ \A p \in Parts : h[p] = Join(o[p], delta[p])
    BY <1>1, <1>2, MergeTyped DEF Held
<1>4. ASSUME NEW p \in Parts, delta[p] # NoText
      PROVE  h[p] # NoText
    <2>1. o[p] \in Part /\ delta[p] \in Part
        BY <1>2 DEF Content
    <2> QED BY <1>3, <1>4, <2>1, JoinTexts
<1>5. CASE Tagged(h)
    <2>1. Shown(h) = [p \in Parts |-> Strip(Text(h[p]))]
        BY <1>5 DEF Shown
    <2>2. \A p \in Parts : Strip(Text(h[p])) \in Texts
        <3>1. \A p \in Parts : Text(h[p]) \in Texts
            BY <1>3, PartTyped DEF Content
        <3> QED BY <3>1, StripTyped
    <2>3. Shown(h) \in Content /\ \A p \in Parts : Shown(h)[p] # NoText
        BY <2>1, <2>2, PartTyped DEF Content
    <2> QED BY <1>1, <1>3, <1>4, <2>3
<1>6. CASE ~Tagged(h)
    BY <1>1, <1>3, <1>4, <1>6 DEF Shown
<1> QED BY <1>5, <1>6

\* What a listener appends of a part: the text the event has for it, or the raw one.
Own(delta, parts) == [p \in Parts |-> IF parts[p] = NoText THEN delta[p] ELSE parts[p]]

LEMMA OwnUnlike ==
    ASSUME NEW delta \in Content, NEW x \in Content,
           \A p \in Parts : delta[p] # NoText => x[p] # NoText
    PROVE  Own(delta, Unlike(delta, x)) = x
<1>1. \A p \in Parts : Own(delta, Unlike(delta, x))[p] = x[p]
    BY DEF Own, Unlike
<1>2. Own(delta, Unlike(delta, x)) = [p \in Parts |-> Own(delta, Unlike(delta, x))[p]]
    BY DEF Own
<1>3. x = [p \in Parts |-> x[p]]
    BY DEF Content
<1> QED BY <1>1, <1>2, <1>3

LEMMA OwnCleared ==
    ASSUME NEW delta \in Content
    PROVE  /\ Own(delta, Cleared(delta)) = Cleared(delta) /\ Cleared(delta) \in Content
           /\ \A p \in Parts : Cleared(delta)[p] \in {NoText, <<>>}
           /\ \A p \in Parts : delta[p] = NoText <=> Cleared(delta)[p] = NoText
BY PartTyped DEF Own, Cleared, Content

LEMMA OwnNothing ==
    ASSUME NEW delta \in Content
    PROVE  Own(delta, Nothing) = delta
<1>1. \A p \in Parts : Own(delta, Nothing)[p] = delta[p]
    BY DEF Own, Nothing
<1> QED BY <1>1 DEF Own, Content

LEMMA ExtendIs ==
    ASSUME NEW m, NEW raw, NEW display, NEW context, NEW tag
    PROVE  Extend(m, Carries(raw, display, context, tag)) =
              [raw |-> Merge(m.raw, raw), display |-> Merge(m.display, Own(raw, display)),
               context |-> Merge(m.context, Own(raw, context)), tag |-> m.tag \/ tag]
BY DEF Extend, Carries, Own

\* A choice without any text goes on as it is.
LEMMA Passes ==
    ASSUME NEW c \in Indexes, NEW delta \in Content, NEW final, NEW m, NEW s,
           Sound(m, contexts[c], s), Follows(m, contexts[c]), CutClean(m),
           Turn(c, delta, final) = "pass"
    PROVE  LET n == Extend(m, Carried(c, delta, final))
               k == Saved(c, delta, final)
           IN /\ Sound(n, k, Merge(s, delta)) /\ Follows(n, k) /\ CutClean(n)
              /\ k.held = Nothing
<1>1. PICK o, k, n : /\ o = contexts[c] /\ k = Saved(c, delta, final)
                     /\ n = Extend(m, Carried(c, delta, final))
    OBVIOUS
<1>2. /\ o \in ContextSet /\ m \in MessageSet /\ s \in Content
      /\ o.held \in Content /\ m.raw \in Content /\ m.display \in Content /\ m.context \in Content
    BY <1>1 DEF Sound, ContextSet, MessageSet
<1>3. Merge(o.held, delta) = Nothing
    BY <1>1 DEF Turn, Held
<1>4. o.held = Nothing /\ delta = Nothing
    BY <1>2, <1>3, MergeTyped
<1>5. k = o
    BY <1>1 DEF Saved
<1>6. Own(delta, Nothing) = Nothing
    BY <1>4, OwnNothing
<1>7. n = [raw |-> Merge(m.raw, delta), display |-> Merge(m.display, Own(delta, Nothing)),
           context |-> Merge(m.context, Own(delta, Nothing)), tag |-> m.tag \/ FALSE]
    BY <1>1, ExtendIs DEF Carried
<1>8. n = [raw |-> m.raw, display |-> m.display, context |-> m.context, tag |-> m.tag \/ FALSE]
    BY <1>2, <1>4, <1>6, <1>7, MergeTyped
<1>9. n = m
    BY <1>2, <1>8 DEF MessageSet
<1>10. Merge(s, delta) = s
    BY <1>2, <1>4, MergeTyped
<1> QED BY <1>1, <1>4, <1>5, <1>9, <1>10

\* A choice that holds its text back shows nothing new.
LEMMA HoldsBack ==
    ASSUME NEW c \in Indexes, NEW delta \in Content, NEW final, NEW m, NEW s,
           Sound(m, contexts[c], s), Follows(m, contexts[c]), CutClean(m),
           Turn(c, delta, final) = "hold"
    PROVE  LET n == Extend(m, Carried(c, delta, final))
               k == Saved(c, delta, final)
           IN /\ Sound(n, k, Merge(s, delta)) /\ Follows(n, k) /\ CutClean(n)
<1>1. PICK o, k, n, h, e, t : /\ o = contexts[c] /\ k = Saved(c, delta, final)
                     /\ n = Extend(m, Carried(c, delta, final)) /\ h = Held(c, delta)
                     /\ e = Cleared(delta) /\ t = Merge(s, delta)
    OBVIOUS
<1>2. /\ o \in ContextSet /\ m \in MessageSet /\ s \in Content
      /\ o.held \in Content /\ o.shown \in Content /\ o.kept \in Content
      /\ m.raw \in Content /\ m.display \in Content /\ m.context \in Content /\ m.tag \in BOOLEAN
    BY <1>1 DEF Sound, ContextSet, MessageSet
<1>3. h = Merge(o.held, delta) /\ h \in Content
    BY <1>1, <1>2, MergeTyped DEF Held
<1>4. k = [o EXCEPT !.held = h]
    BY <1>1 DEF Saved
<1>5. k \in ContextSet /\ k.held = h /\ k.shown = o.shown /\ k.kept = o.kept
    BY <1>2, <1>3, <1>4 DEF ContextSet
<1>6. /\ Own(delta, e) = e /\ e \in Content
      /\ \A p \in Parts : e[p] \in {NoText, <<>>}
      /\ \A p \in Parts : delta[p] = NoText <=> e[p] = NoText
    BY <1>1, OwnCleared
<1>7. n = [raw |-> Merge(m.raw, delta), display |-> Merge(m.display, Own(delta, e)),
           context |-> Merge(m.context, Own(delta, e)), tag |-> m.tag \/ FALSE]
    BY <1>1, ExtendIs DEF Carried
<1>8. /\ n.raw = Merge(m.raw, delta) /\ n.display = Merge(m.display, e)
      /\ n.context = Merge(m.context, e) /\ n.tag = m.tag /\ n \in MessageSet /\ t \in Content
    <2>1. Merge(m.raw, delta) \in Content /\ Merge(m.display, e) \in Content /\ Merge(m.context, e) \in Content
        BY <1>2, <1>6, MergeTyped
    <2>2. Merge(s, delta) \in Content
        BY <1>2, MergeTyped
    <2> QED BY <1>1, <1>2, <1>6, <1>7, <2>1, <2>2 DEF MessageSet
<1>9. ASSUME NEW p \in Parts
      PROVE  /\ Text(n.display[p]) = Text(m.display[p]) /\ Text(n.context[p]) = Text(m.context[p])
             /\ Behind(k.shown[p], n.display[p]) /\ Behind(k.kept[p], n.context[p])
             /\ Join(n.context[p], h[p]) = t[p]
    <2>1. /\ m.display[p] \in Part /\ m.context[p] \in Part /\ o.held[p] \in Part
          /\ delta[p] \in Part /\ e[p] \in {NoText, <<>>} /\ e[p] \in Part /\ s[p] \in Part
        BY <1>2, <1>6, PartTyped DEF Content
    <2>2. /\ n.display[p] = Join(m.display[p], e[p]) /\ n.context[p] = Join(m.context[p], e[p])
          /\ h[p] = Join(o.held[p], delta[p]) /\ t[p] = Join(s[p], delta[p])
          /\ s[p] = Join(m.context[p], o.held[p])
        <3>1. /\ Merge(m.display, e)[p] = Join(m.display[p], e[p])
              /\ Merge(m.context, e)[p] = Join(m.context[p], e[p])
              /\ Merge(o.held, delta)[p] = Join(o.held[p], delta[p])
              /\ Merge(s, delta)[p] = Join(s[p], delta[p])
              /\ Merge(m.context, o.held)[p] = Join(m.context[p], o.held[p])
            BY DEF Merge
        <3>2. s = Merge(m.context, o.held)
            BY <1>1 DEF Sound
        <3> QED BY <1>1, <1>3, <1>8, <3>1, <3>2
    <2>3. ASSUME NEW a \in Part
          PROVE  Text(Join(a, e[p])) = Text(a) /\ (Join(a, e[p]) = a \/ (a = NoText /\ Join(a, e[p]) = <<>>))
        BY <2>1, JoinTyped, PartTyped
    <2>4. Behind(k.shown[p], n.display[p]) /\ Behind(k.kept[p], n.context[p])
        <3>1. Behind(o.shown[p], m.display[p]) /\ Behind(o.kept[p], m.context[p])
            BY <1>1 DEF Follows
        <3> QED BY <1>5, <2>1, <2>2, <2>3, <3>1 DEF Behind
    <2>5. Join(n.context[p], h[p]) = t[p]
        <3>1. t[p] = Join(m.context[p], Join(o.held[p], delta[p]))
            BY <2>1, <2>2, JoinJoin
        <3>2. CASE n.context[p] = m.context[p]
            BY <2>2, <3>1, <3>2
        <3>3. CASE n.context[p] # m.context[p]
            <4>1. m.context[p] = NoText /\ n.context[p] = <<>>
                BY <2>1, <2>2, <2>3, <3>3
            <4>2. delta[p] # NoText
                BY <1>6, <2>1, <2>2, <3>3, JoinTyped
            <4>3. h[p] \in Part /\ h[p] # NoText
                BY <2>1, <2>2, <4>2, JoinTexts
            <4> QED BY <2>2, <3>1, <4>1, <4>3, JoinTyped
        <3> QED BY <3>2, <3>3
    <2> QED BY <2>1, <2>2, <2>3, <2>4, <2>5
<1>10. Merge(n.context, k.held) = t
    BY <1>5, <1>8, <1>9 DEF Merge, Content
<1>11. n.raw = t
    BY <1>1, <1>8 DEF Sound
<1>12. ~Has(Text(t["reasoning"])) => ~Has(Text(s["reasoning"]))
    <2>1. s["reasoning"] \in Part /\ delta["reasoning"] \in Part
        BY <1>2, PartsAre DEF Content
    <2>2. t["reasoning"] = Join(s["reasoning"], delta["reasoning"])
        BY <1>1, <1>2, MergeTyped, PartsAre
    <2>3. Text(t["reasoning"]) = Text(s["reasoning"]) \o Text(delta["reasoning"])
        BY <2>1, <2>2, JoinTexts
    <2> QED BY <2>1, <2>3, PartTyped, MarkerInside
<1>13. Sound(n, k, t)
    BY <1>5, <1>8, <1>9, <1>10, <1>11, <1>12, PartsAre DEF Sound
<1>14. Follows(n, k) /\ CutClean(n)
    BY <1>9, PartsAre DEF Follows, CutClean
<1> QED BY <1>1, <1>13, <1>14

\* What Holds lets go does not end in the beginning of a marker.
LEMMA EndsClosed ==
    ASSUME NEW h \in Content, sub, ~Holds(h)
    PROVE  Closed(Text(h["content"]))
<1>1. PICK t, n : t = Text(h["content"]) /\ n = Len(t)
    OBVIOUS
<1>2. t \in Texts /\ DOMAIN t = 1 .. n /\ n \in Nat
    <2>1. h["content"] \in Part
        BY PartsAre DEF Content
    <2>2. t \in Texts
        BY <1>1, <2>1, PartTyped
    <2> QED BY <1>1, <2>2, KeptPlaces
<1>3. ASSUME t # <<>>, t[n] = "<" PROVE FALSE
    <2>1. n \in 1 .. n /\ \A j \in 1 .. n : j <= n
        BY <1>1, <1>2, <1>3, EmptySeq DEF Texts
    <2>2. PICK u, v, w : u = SubSeq(t, n, n) /\ v = SubSeq(u, 1, 1) /\ w = SubSeq(Marker, 1, 1)
        OBVIOUS
    <2>3. u \in Seq({"<"}) /\ Len(u) = 1 /\ u[1] = "<"
        BY <1>2, <1>3, <2>1, <2>2, SubSeqProperties
    <2>4. v \in Seq({"<"}) /\ Len(v) = 1 /\ v[1] = "<"
        BY <2>2, <2>3, SubSeqProperties
    <2>5. w \in Seq({"<"}) /\ Len(w) = 1 /\ w[1] = "<" /\ Len(Marker) = 2
        <3>1. Marker[1] = "<" /\ Len(Marker) = 2
            BY DEF Marker
        <3> QED BY <2>2, <3>1, SubSeqProperties
    <2>6. v = w
        BY <2>4, <2>5, SeqEqual
    <2>7. IsPrefix(u, Marker)
        BY <2>2, <2>3, <2>5, <2>6 DEF IsPrefix
    <2>8. Holds(h)
        BY <1>1, <1>2, <1>3, <2>1, <2>2, <2>7 DEF Holds
    <2> QED BY <2>8
<1> QED BY <1>1, <1>3 DEF Closed

LEMMA ClosedTexts ==
    ASSUME NEW a \in Texts, NEW b \in Texts, Closed(a), Closed(b)
    PROVE  Closed(a \o b)
<1>1. PICK m, n, t : m = Len(a) /\ n = Len(b) /\ t = a \o b
    OBVIOUS
<1>2. /\ m \in Nat /\ n \in Nat /\ Len(t) = m + n
      /\ \A i \in 1 .. m + n : t[i] = IF i <= m THEN a[i] ELSE b[i - m]
    BY <1>1, ConcatProperties, LenProperties DEF Texts
<1>3. CASE n = 0
    <2>1. b = <<>>
        BY <1>1, <1>3, EmptySeq DEF Texts
    <2> QED BY <2>1, ConcatEmptySeq DEF Texts
<1>4. CASE n # 0
    <2>1. b # <<>> /\ t[m + n] = b[n]
        <3>1. m + n \in 1 .. m + n /\ ~(m + n <= m) /\ (m + n) - m = n
            BY <1>2, <1>4
        <3> QED BY <1>1, <1>2, <1>4, <3>1, EmptySeq
    <2> QED BY <1>1, <1>2, <2>1 DEF Closed
<1> QED BY <1>3, <1>4

\* What is shown of a text that is released, renamed, is that text cleaned; the tag
\* is set when a marker was removed.
LEMMA ReleasedTexts ==
    ASSUME NEW h \in Content
    PROVE  /\ Rename(Text(Shown(h)["content"])) = Clean(Text(h["content"]))
           /\ ~Has(Text(h["reasoning"])) => Tagged(h) = (sub /\ Has(Text(h["content"])))
<1>1. PICK t : t = Text(h["content"])
    OBVIOUS
<1>2. t \in Texts
    BY <1>1, PartsAre, PartTyped DEF Content
<1>3. CASE Tagged(h)
    <2>1. sub /\ Shown(h)["content"] = Strip(t)
        BY <1>1, <1>3, PartsAre DEF Tagged, Shown
    <2>2. Text(Shown(h)["content"]) = Strip(t)
        BY <1>2, <2>1, StripTyped, PartTyped
    <2>3. ~Has(Text(h["reasoning"])) => Has(t)
        BY <1>1, <1>3 DEF Tagged, Parts
    <2>4. Tagged(h) = TRUE
        BY <1>3 DEF Tagged
    <2> QED BY <1>1, <1>3, <2>1, <2>2, <2>3, <2>4 DEF Clean
<1>4. CASE ~Tagged(h)
    <2>1. Shown(h)["content"] = h["content"]
        BY <1>4 DEF Shown
    <2>2. sub => ~Has(t)
        BY <1>1, <1>4, PartsAre DEF Tagged
    <2>3. sub => Strip(t) = t
        BY <1>2, <2>2, StripPlain
    <2>4. Tagged(h) = FALSE
        BY <1>4 DEF Tagged
    <2> QED BY <1>1, <2>1, <2>2, <2>3, <2>4 DEF Clean
<1> QED BY <1>3, <1>4

LEMMA ReplayedTyped ==
    ASSUME NEW shown \in Content, "word" \in ToSet(Text(shown["content"]))
    PROVE  LET x == Replayed(shown)
           IN /\ x \in Content /\ x["content"] # NoText
              /\ Text(x["content"]) = Rename(Text(shown["content"]))
              /\ \A p \in Parts : p # "content" => x[p] = shown[p]
<1>1. PICK x : x = Replayed(shown)
    OBVIOUS
<1>2. \A p \in Parts : shown[p] \in Part
    BY DEF Content
<1>3. shown["content"] \in Texts /\ Text(shown["content"]) = shown["content"]
    <2>1. ToSet(<<>>) = {}
        BY DEF ToSet
    <2>2. shown["content"] # NoText
        BY <2>1, PartTyped
    <2> QED BY <1>2, <2>2, PartsAre, PartTyped DEF Part
<1>4. /\ x["content"] = Rename(shown["content"])
      /\ \A p \in Parts : p # "content" => x[p] = shown[p]
      /\ x = [p \in Parts |-> IF p = "content" THEN Rename(shown["content"]) ELSE shown[p]]
    BY <1>1, PartsAre DEF Replayed, Content
<1>5. x["content"] \in Texts /\ x["content"] # NoText /\ Text(x["content"]) = x["content"]
    BY <1>3, <1>4, Renames, PartTyped
<1>6. x \in Content
    BY <1>2, <1>4, <1>5, PartTyped DEF Content
<1> QED BY <1>1, <1>3, <1>4, <1>5, <1>6

\* The covering event gives the listeners nothing new of the context, and shows
\* the renamed text.
LEMMA Covers ==
    ASSUME NEW m \in MessageSet, NEW shown \in Content, NEW kept \in Content,
           \A p \in Parts : Behind(shown[p], m.display[p]) /\ Behind(kept[p], m.context[p]),
           "word" \in ToSet(Text(shown["content"]))
    PROVE  LET n == Cover(m, Carries(Nothing, Replayed(shown), kept, FALSE))
           IN /\ n \in MessageSet /\ n.raw = m.raw /\ n.context = m.context /\ n.tag = m.tag
              /\ Replayed(shown) \in Content
              /\ Text(n.display["content"]) = Rename(Text(shown["content"]))
              /\ \A p \in Parts : Behind(Replayed(shown)[p], n.display[p])
<1>1. PICK n, x, d, e : /\ x = Replayed(shown)
                        /\ n = Cover(m, Carries(Nothing, Replayed(shown), kept, FALSE))
                        /\ d = [p \in Parts |-> IF x[p] = NoText THEN m.display[p] ELSE x[p]]
                        /\ e = [p \in Parts |-> IF kept[p] = NoText THEN m.context[p] ELSE kept[p]]
    OBVIOUS
<1>2. n = [m EXCEPT !.display = d, !.context = e, !.tag = @ \/ FALSE]
    BY <1>1 DEF Cover, Carries
<1>3. /\ m.raw \in Content /\ m.display \in Content /\ m.context \in Content /\ m.tag \in BOOLEAN
      /\ \A p \in Parts : /\ m.display[p] \in Part /\ m.context[p] \in Part
                          /\ shown[p] \in Part /\ kept[p] \in Part
    BY DEF MessageSet, Content
<1>4. e = m.context
    <2>1. \A p \in Parts : e[p] = m.context[p]
        BY <1>1 DEF Behind
    <2> QED BY <1>1, <1>3, <2>1 DEF Content
<1>8. /\ x \in Content /\ x["content"] # NoText
      /\ Text(x["content"]) = Rename(Text(shown["content"]))
      /\ \A p \in Parts : p # "content" => x[p] = shown[p]
    BY <1>1, ReplayedTyped
<1>9. d \in Content /\ \A p \in Parts : Behind(x[p], d[p])
    <2>1. \A p \in Parts : d[p] = IF x[p] = NoText THEN m.display[p] ELSE x[p]
        BY <1>1
    <2>2. \A p \in Parts : d[p] \in Part
        BY <1>3, <1>8, <2>1 DEF Content
    <2>3. ASSUME NEW p \in Parts PROVE Behind(x[p], d[p])
        <3>1. CASE p = "content"
            BY <1>8, <2>1, <3>1 DEF Behind
        <3>2. CASE p # "content"
            BY <1>8, <2>1, <3>2 DEF Behind
        <3> QED BY <3>1, <3>2
    <2> QED BY <1>1, <2>2, <2>3 DEF Content
<1>10. Text(d["content"]) = Rename(Text(shown["content"]))
    BY <1>1, <1>8, PartsAre
<1>11. /\ n \in MessageSet /\ n.raw = m.raw /\ n.context = m.context /\ n.tag = m.tag
       /\ n.display = d
    BY <1>2, <1>3, <1>4, <1>9 DEF MessageSet
<1> QED BY <1>1, <1>8, <1>9, <1>10, <1>11

\* What the event of a choice makes of what the listeners have, and the one after it
\* that covers it.
Appended(m, c, delta, final) == Extend(m, Carried(c, delta, final))
Told(m, c, delta, final) ==
    IF ReplaysAfter(c, delta, final)
    THEN Cover(Appended(m, c, delta, final), Replay(c, delta))
    ELSE Appended(m, c, delta, final)

\* The event of a released text.
LEMMA ReleaseCarries ==
    ASSUME NEW c \in Indexes, NEW delta \in Content, NEW final, NEW m, NEW s,
           Sound(m, contexts[c], s), Follows(m, contexts[c]),
           Turn(c, delta, final) = "release"
    PROVE  LET n == Appended(m, c, delta, final)
               h == Held(c, delta)
               k == Released(c, delta)
           IN /\ n \in MessageSet /\ k \in ContextSet
              /\ n.raw = Merge(s, delta) /\ n.context = Merge(s, delta)
              /\ Text(n.display["content"]) =
                    Text(m.display["content"]) \o Text(Shown(h)["content"])
              /\ Text(n.context["content"]) =
                    Text(m.context["content"]) \o Text(h["content"])
              /\ n.tag = (m.tag \/ Tagged(h))
              /\ Follows(n, k)
<1>1. PICK o, k, n, h, x, t : /\ o = contexts[c] /\ k = Released(c, delta)
                     /\ n = Appended(m, c, delta, final) /\ h = Held(c, delta)
                     /\ x = Shown(h) /\ t = Merge(s, delta)
    OBVIOUS
<1>2. /\ o \in ContextSet /\ m \in MessageSet /\ s \in Content
      /\ o.held \in Content /\ o.shown \in Content /\ o.kept \in Content
      /\ m.raw \in Content /\ m.display \in Content /\ m.context \in Content /\ m.tag \in BOOLEAN
      /\ m.raw = s /\ Merge(m.context, o.held) = s
    BY <1>1 DEF Sound, ContextSet, MessageSet
<1>3. h = Merge(o.held, delta) /\ h \in Content /\ x \in Content
    BY <1>1, <1>2, HeldTyped DEF Held
<1>4. Own(delta, Unlike(delta, x)) = x /\ Own(delta, Unlike(delta, h)) = h
    <2>1. \A p \in Parts : delta[p] # NoText => h[p] # NoText /\ x[p] # NoText
        BY <1>1, <1>2, HeldTyped
    <2> QED BY <1>3, <2>1, OwnUnlike
<1>5. n = [raw |-> Merge(m.raw, delta), display |-> Merge(m.display, x),
           context |-> Merge(m.context, h), tag |-> m.tag \/ Tagged(h)]
    <2>1. n = [raw |-> Merge(m.raw, delta), display |-> Merge(m.display, Own(delta, Unlike(delta, x))),
               context |-> Merge(m.context, Own(delta, Unlike(delta, h))), tag |-> m.tag \/ Tagged(h)]
        BY <1>1, ExtendIs DEF Appended, Carried
    <2> QED BY <1>4, <2>1
<1>6. Merge(m.context, h) = t
    BY <1>1, <1>2, <1>3, MergeMerge
<1>7. /\ n.raw = t /\ n.context = t /\ n.display = Merge(m.display, x) /\ n.tag = (m.tag \/ Tagged(h))
      /\ n \in MessageSet
    <2>1. t \in Content /\ Merge(m.display, x) \in Content
        BY <1>1, <1>2, <1>3, MergeTyped
    <2>2. Tagged(h) \in BOOLEAN
        BY DEF Tagged
    <2> QED BY <1>1, <1>2, <1>5, <1>6, <2>1, <2>2 DEF MessageSet
<1>8. k = [held |-> Nothing, shown |-> Merge(o.shown, x), kept |-> Merge(o.kept, h)]
    BY <1>1 DEF Released
<1>9. k \in ContextSet
    <2>1. Nothing \in Content /\ Merge(o.shown, x) \in Content /\ Merge(o.kept, h) \in Content
        BY <1>2, <1>3, MergeTyped
    <2> QED BY <1>8, <2>1 DEF ContextSet
<1>10. ASSUME NEW p \in Parts
       PROVE  /\ n.display[p] = Join(m.display[p], x[p]) /\ n.context[p] = Join(m.context[p], h[p])
              /\ k.shown[p] = Join(o.shown[p], x[p]) /\ k.kept[p] = Join(o.kept[p], h[p])
              /\ m.display[p] \in Part /\ m.context[p] \in Part /\ o.shown[p] \in Part /\ o.kept[p] \in Part
              /\ x[p] \in Part /\ h[p] \in Part
    <2>1. n.context = Merge(m.context, h) /\ n.display = Merge(m.display, x)
        BY <1>6, <1>7
    <2>2. k.shown = Merge(o.shown, x) /\ k.kept = Merge(o.kept, h)
        BY <1>8
    <2>3. /\ n.display[p] = Join(m.display[p], x[p]) /\ n.context[p] = Join(m.context[p], h[p])
          /\ k.shown[p] = Join(o.shown[p], x[p]) /\ k.kept[p] = Join(o.kept[p], h[p])
        BY <2>1, <2>2 DEF Merge
    <2> QED BY <1>2, <1>3, <2>3 DEF Content
<1>11. Follows(n, k)
    <2>1. ASSUME NEW p \in Parts
          PROVE  Behind(k.shown[p], n.display[p]) /\ Behind(k.kept[p], n.context[p])
        <3>1. Behind(o.shown[p], m.display[p]) /\ Behind(o.kept[p], m.context[p])
            BY <1>1 DEF Follows
        <3>2. Behind(Join(o.shown[p], x[p]), Join(m.display[p], x[p]))
            BY <1>10, <3>1, BehindTexts
        <3>3. Behind(Join(o.kept[p], h[p]), Join(m.context[p], h[p]))
            BY <1>10, <3>1, BehindTexts
        <3> QED BY <1>10, <3>2, <3>3
    <2> QED BY <2>1 DEF Follows
<1>12. /\ Text(n.display["content"]) = Text(m.display["content"]) \o Text(x["content"])
       /\ Text(n.context["content"]) = Text(m.context["content"]) \o Text(h["content"])
    <2>1. /\ n.display["content"] = Join(m.display["content"], x["content"])
          /\ n.context["content"] = Join(m.context["content"], h["content"])
          /\ m.display["content"] \in Part /\ m.context["content"] \in Part
          /\ x["content"] \in Part /\ h["content"] \in Part
        BY <1>10, PartsAre
    <2> QED BY <2>1, JoinTexts
<1> QED BY <1>1, <1>7, <1>9, <1>11, <1>12

\* A choice that releases its text shows all that was held, cleaned.
LEMMA Releases ==
    ASSUME NEW c \in Indexes, NEW delta \in Content, NEW final, NEW m, NEW s,
           Sound(m, contexts[c], s), Follows(m, contexts[c]), CutClean(m),
           Turn(c, delta, final) = "release"
    PROVE  LET n == Told(m, c, delta, final)
               k == Saved(c, delta, final)
           IN /\ Sound(n, k, Merge(s, delta)) /\ Follows(n, k) /\ (~final => CutClean(n))
              /\ k.held = Nothing
<1>1. PICK e, k, n, h, t, r : /\ r = Released(c, delta) /\ k = Saved(c, delta, final)
                     /\ n = Told(m, c, delta, final) /\ h = Held(c, delta)
                     /\ e = Appended(m, c, delta, final) /\ t = Merge(s, delta)
    OBVIOUS
<1>2. PICK C, D, H, X : /\ C = Text(m.context["content"]) /\ D = Text(m.display["content"])
                        /\ H = Text(h["content"]) /\ X = Text(Shown(h)["content"])
    OBVIOUS
<1>3. /\ m \in MessageSet /\ s \in Content /\ contexts[c] \in ContextSet
      /\ m.context \in Content /\ m.display \in Content /\ m.tag \in BOOLEAN
      /\ contexts[c].held \in Content
      /\ s = Merge(m.context, contexts[c].held) /\ D = Clean(C)
      /\ ~Has(Text(s["reasoning"])) => m.tag = (sub /\ Has(C))
      /\ sub => Closed(C)
    BY <1>2 DEF Sound, MessageSet, ContextSet, CutClean
<1>4. h \in Content /\ Shown(h) \in Content /\ h = Merge(contexts[c].held, delta) /\ t \in Content
    BY <1>1, <1>3, HeldTyped, MergeTyped DEF Held
<1>5. C \in Texts /\ D \in Texts /\ H \in Texts /\ X \in Texts
    BY <1>2, <1>3, <1>4, PartsAre, PartTyped DEF Content
<1>6. /\ e \in MessageSet /\ r \in ContextSet /\ e.raw = t /\ e.context = t
      /\ Text(e.display["content"]) = D \o X /\ Text(e.context["content"]) = C \o H
      /\ e.tag = (m.tag \/ Tagged(h)) /\ Follows(e, r)
    <2>1. LET z == Appended(m, c, delta, final)
              y == Held(c, delta)
              w == Released(c, delta)
          IN /\ z \in MessageSet /\ w \in ContextSet
             /\ z.raw = Merge(s, delta) /\ z.context = Merge(s, delta)
             /\ Text(z.display["content"]) =
                    Text(m.display["content"]) \o Text(Shown(y)["content"])
             /\ Text(z.context["content"]) =
                    Text(m.context["content"]) \o Text(y["content"])
             /\ z.tag = (m.tag \/ Tagged(y))
             /\ Follows(z, w)
        BY ReleaseCarries
    <2> QED BY <1>1, <1>2, <2>1
<1>7. Rename(D \o X) = Clean(C \o H)
    <2>1. Rename(D \o X) = Rename(D) \o Rename(X)
        BY <1>5, Renames
    <2>2. Rename(D) = D
        BY <1>3, <1>5, CleanTexts
    <2>3. Rename(X) = Clean(H)
        BY <1>2, <1>4, ReleasedTexts
    <2>4. Clean(C \o H) = Clean(C) \o Clean(H)
        BY <1>3, <1>5, CleanTexts
    <2> QED BY <1>3, <2>1, <2>2, <2>3, <2>4
<1>8. r.held = Nothing /\ r.shown \in Content /\ r.kept \in Content
    BY <1>1, <1>6 DEF Released, ContextSet
<1>9. Text(r.shown["content"]) = D \o X
    <2>1. Behind(r.shown["content"], e.display["content"])
        BY <1>6, PartsAre DEF Follows
    <2>2. r.shown["content"] \in Part /\ e.display["content"] \in Part
        BY <1>6, <1>8, PartsAre DEF MessageSet, Content
    <2> QED BY <1>6, <2>1, <2>2, BehindTexts
<1>10. ~Has(Text(t["reasoning"])) => e.tag = (sub /\ Has(C \o H))
    <2>1. ASSUME ~Has(Text(t["reasoning"]))
          PROVE  ~Has(Text(s["reasoning"])) /\ ~Has(Text(h["reasoning"]))
        <3>1. PICK a, b, d : /\ a = m.context["reasoning"] /\ b = contexts[c].held["reasoning"]
                            /\ d = delta["reasoning"]
            OBVIOUS
        <3>2. a \in Part /\ b \in Part /\ d \in Part
            BY <1>3, <3>1, PartsAre DEF Content
        <3>3. /\ s["reasoning"] = Join(a, b) /\ h["reasoning"] = Join(b, d)
              /\ t["reasoning"] = Join(Join(a, b), d)
            BY <1>1, <1>3, <1>4, <3>1, PartsAre DEF Merge
        <3>4. t["reasoning"] = Join(a, Join(b, d))
            BY <3>2, <3>3, JoinJoin
        <3>5. Join(a, b) \in Part /\ Join(b, d) \in Part
            BY <3>2, JoinTexts
        <3>6. /\ Text(t["reasoning"]) = Text(s["reasoning"]) \o Text(d)
              /\ Text(t["reasoning"]) = Text(a) \o Text(h["reasoning"])
            <4>1. /\ Text(Join(Join(a, b), d)) = Text(Join(a, b)) \o Text(d)
                  /\ Text(Join(a, Join(b, d))) = Text(a) \o Text(Join(b, d))
                BY <3>2, <3>5, JoinTexts
            <4> QED BY <3>3, <3>4, <4>1
        <3>7. /\ Text(s["reasoning"]) \in Texts /\ Text(d) \in Texts
              /\ Text(a) \in Texts /\ Text(h["reasoning"]) \in Texts
            BY <3>2, <3>3, <3>5, PartTyped
        <3> QED BY <2>1, <3>6, <3>7, MarkerInside
    <2>2. ASSUME ~Has(Text(t["reasoning"]))
          PROVE  e.tag = (sub /\ Has(C \o H))
        <3>1. m.tag = (sub /\ Has(C)) /\ Tagged(h) = (sub /\ Has(H))
            BY <1>2, <1>3, <1>4, <2>1, <2>2, ReleasedTexts
        <3>2. sub => (Has(C \o H) <=> Has(C) \/ Has(H))
            BY <1>3, <1>5, CutTexts
        <3>3. CASE sub
            BY <1>6, <3>1, <3>2, <3>3
        <3>4. CASE ~sub
            BY <1>6, <3>1, <3>4
        <3> QED BY <3>3, <3>4
    <2> QED BY <2>2
<1>11. Merge(t, Nothing) = t
    BY <1>4, MergeTyped
<1>12. ~final => (sub => Closed(C \o H))
    <2>1. ASSUME ~final, sub PROVE Closed(C \o H)
        <3>1. ~Holds(h)
            BY <1>1, <2>1 DEF Turn
        <3>2. Closed(H)
            BY <1>2, <1>4, <2>1, <3>1, EndsClosed
        <3> QED BY <1>3, <1>5, <2>1, <3>2, ClosedTexts
    <2> QED BY <2>1
<1>13. CASE ~ReplaysAfter(c, delta, final)
    <2>1. n = e /\ k = r
        BY <1>1, <1>13 DEF Told, Saved
    <2>2. "word" \notin ToSet(D \o X)
        BY <1>1, <1>9, <1>13 DEF ReplaysAfter, Replays
    <2>3. D \o X = Rename(D \o X)
        <3>1. D \o X \in Texts
            BY <1>5, ConcatProperties DEF Texts
        <3> QED BY <2>2, <3>1, Renames
    <2>4. Sound(n, k, t)
        BY <1>4, <1>6, <1>7, <1>8, <1>10, <1>11, <2>1, <2>3 DEF Sound
    <2> QED BY <1>1, <1>6, <1>8, <1>12, <2>1, <2>4 DEF CutClean
<1>14. CASE ReplaysAfter(c, delta, final)
    <2>1. n = Cover(e, Carries(Nothing, Replayed(r.shown), r.kept, FALSE))
        BY <1>1, <1>14 DEF Told, Replay
    <2>2. "word" \in ToSet(Text(r.shown["content"]))
        BY <1>1, <1>14 DEF ReplaysAfter, Replays
    <2>3. \A p \in Parts : Behind(r.shown[p], e.display[p]) /\ Behind(r.kept[p], e.context[p])
        BY <1>6 DEF Follows
    <2>4. /\ n \in MessageSet /\ n.raw = e.raw /\ n.context = e.context /\ n.tag = e.tag
          /\ Replayed(r.shown) \in Content
          /\ Text(n.display["content"]) = Rename(Text(r.shown["content"]))
          /\ \A p \in Parts : Behind(Replayed(r.shown)[p], n.display[p])
        <3>1. PICK g, f : g = r.shown /\ f = r.kept
            OBVIOUS
        <3>2. /\ e \in MessageSet /\ g \in Content /\ f \in Content
              /\ \A p \in Parts : Behind(g[p], e.display[p]) /\ Behind(f[p], e.context[p])
              /\ "word" \in ToSet(Text(g["content"]))
            BY <1>6, <1>8, <2>2, <2>3, <3>1
        <3>3. LET v == Cover(e, Carries(Nothing, Replayed(g), f, FALSE))
              IN /\ v \in MessageSet /\ v.raw = e.raw /\ v.context = e.context /\ v.tag = e.tag
                 /\ Replayed(g) \in Content
                 /\ Text(v.display["content"]) = Rename(Text(g["content"]))
                 /\ \A p \in Parts : Behind(Replayed(g)[p], v.display[p])
            BY <3>2, Covers
        <3> QED BY <2>1, <3>1, <3>3
    <2>5. k = [r EXCEPT !.shown = Replayed(@)]
        BY <1>1, <1>14 DEF Saved, ReplaysAfter
    <2>6. k \in ContextSet /\ k.held = Nothing /\ k.shown = Replayed(r.shown) /\ k.kept = r.kept
        BY <1>6, <1>8, <2>4, <2>5 DEF ContextSet
    <2>7. Sound(n, k, t)
        BY <1>4, <1>6, <1>7, <1>9, <1>10, <1>11, <2>4, <2>6 DEF Sound
    <2>8. Follows(n, k)
        BY <2>3, <2>4, <2>6 DEF Follows
    <2> QED BY <1>1, <1>6, <1>12, <2>4, <2>6, <2>7, <2>8 DEF CutClean
<1> QED BY <1>13, <1>14

\* Whatever the turn, the choice stays sound.
LEMMA ChoiceStep ==
    ASSUME NEW c \in Indexes, NEW delta \in Content, NEW final \in BOOLEAN, NEW m, NEW s,
           Sound(m, contexts[c], s), Follows(m, contexts[c]), CutClean(m)
    PROVE  LET n == Told(m, c, delta, final)
               k == Saved(c, delta, final)
           IN /\ Sound(n, k, Merge(s, delta)) /\ Follows(n, k)
              /\ ~final => CutClean(n)
              /\ final => k.held = Nothing
<1>1. Turn(c, delta, final) \in {"pass", "hold", "release"}
    BY DEF Turn
<1>2. CASE Turn(c, delta, final) = "pass"
    <2>1. Told(m, c, delta, final) = Extend(m, Carried(c, delta, final))
        BY <1>2 DEF Told, Appended, ReplaysAfter
    <2> QED BY <1>2, <2>1, Passes
<1>3. CASE Turn(c, delta, final) = "hold"
    <2>1. Told(m, c, delta, final) = Extend(m, Carried(c, delta, final)) /\ ~final
        BY <1>3 DEF Told, Appended, ReplaysAfter, Turn
    <2> QED BY <1>3, <2>1, HoldsBack
<1>4. CASE Turn(c, delta, final) = "release"
    BY <1>4, Releases
<1> QED BY <1>1, <1>2, <1>3, <1>4

-----------------------------------------------------------------------------
(* The events under way.                                                   *)

\* What is carried for some of the choices.
Sayings  == UNION {[some -> MessageSet] : some \in SUBSET Indexes}
EventSet == [kind : {"IN_PROGRESS", "PARTIAL", "END"}, of : Sayings]

\* What a listener has of a choice after the first events of a publish, and after
\* all of them: there are three at most.
HearsNext(m, box, i, c) == IF i \in DOMAIN box THEN Hears(m, box[i], c) ELSE m
HearsAll(m, box, c) == HearsNext(HearsNext(HearsNext(m, box, 1, c), box, 2, c), box, 3, c)

Rest(c) == HearsAll(message[c], outbox, c)

LEMMA HearsTail ==
    ASSUME NEW box \in Seq(EventSet), box # <<>>, Len(box) <= 3, NEW m, NEW c
    PROVE  HearsAll(Hears(m, Head(box), c), Tail(box), c) = HearsAll(m, box, c)
<1>1. PICK t, n, k, e : t = Tail(box) /\ n = Len(box) /\ k = Hears(m, box[1], c) /\ e = Head(box)
    OBVIOUS
<1>2. /\ n \in 1 .. 3 /\ e = box[1] /\ DOMAIN box = 1 .. n
      /\ t \in Seq(EventSet) /\ Len(t) = n - 1 /\ DOMAIN t = 1 .. n - 1
      /\ \A i \in 1 .. n - 1 : t[i] = box[i + 1]
    <2>1. n \in Nat /\ n # 0 /\ DOMAIN box = 1 .. n
        BY <1>1, EmptySeq, LenProperties
    <2>2. /\ t \in Seq(EventSet) /\ Len(t) = n - 1
          /\ \A i \in 1 .. Len(t) : t[i] = box[i + 1]
        BY <1>1, HeadTailProperties
    <2>3. DOMAIN t = 1 .. n - 1
        BY <2>2, LenProperties
    <2>4. e = box[1]
        BY <1>1
    <2> QED BY <1>1, <2>1, <2>2, <2>3, <2>4
<1>3. HearsNext(m, box, 1, c) = k
    BY <1>1, <1>2 DEF HearsNext
<1>4. ASSUME NEW x, NEW i \in 1 .. 2
      PROVE  HearsNext(x, t, i, c) = HearsNext(x, box, i + 1, c)
    <2>1. i \in 1 .. n - 1 <=> i + 1 \in 1 .. n
        BY <1>2
    <2> QED BY <1>2, <2>1 DEF HearsNext
<1>5. \A x : HearsNext(x, t, 3, c) = x
    <2>1. 3 \notin DOMAIN t
        BY <1>2
    <2> QED BY <2>1 DEF HearsNext
<1>6. HearsAll(k, t, c) = HearsNext(HearsNext(k, t, 1, c), t, 2, c)
    BY <1>5 DEF HearsAll
<1>7. HearsNext(k, t, 1, c) = HearsNext(k, box, 2, c)
    BY <1>4
<1>8. \A x : HearsNext(x, t, 2, c) = HearsNext(x, box, 3, c)
    BY <1>4
<1> QED BY <1>1, <1>2, <1>3, <1>6, <1>7, <1>8 DEF HearsAll

EndEvent == [kind |-> "END", of |-> <<>>]

LEMMA HearsAppended ==
    ASSUME NEW box \in Seq(EventSet), Len(box) <= 2, NEW e \in EventSet
    PROVE  LET more == Append(box, e)
           IN /\ more \in Seq(EventSet) /\ Len(more) = Len(box) + 1 /\ more # <<>>
              /\ \A i \in DOMAIN more : more[i] = IF i \in DOMAIN box THEN box[i] ELSE e
              /\ \A m, c : HearsAll(m, more, c) = Hears(HearsAll(m, box, c), e, c)
<1>1. PICK t, n : t = Append(box, e) /\ n = Len(box)
    OBVIOUS
<1>2. n \in 0 .. 2 /\ DOMAIN box = 1 .. n
    BY <1>1, LenProperties
<1>3. /\ t \in Seq(EventSet) /\ Len(t) = n + 1
      /\ \A i \in 1 .. n : t[i] = box[i]
      /\ t[n + 1] = e
    BY <1>1, AppendProperties
<1>4. DOMAIN t = 1 .. n + 1 /\ t # <<>>
    BY <1>2, <1>3, LenProperties, EmptySeq
<1>5. \A i \in 1 .. n + 1 : t[i] = IF i \in 1 .. n THEN box[i] ELSE e
    <2>1. \A i \in 1 .. n + 1 : i \in 1 .. n \/ i = n + 1
        BY <1>2
    <2>2. n + 1 \notin 1 .. n
        BY <1>2
    <2> QED BY <1>3, <2>1, <2>2
<1>6. ASSUME NEW m, NEW c
      PROVE  HearsAll(m, t, c) = Hears(HearsAll(m, box, c), e, c)
    <2>1. \A x : HearsNext(x, t, n + 1, c) = Hears(x, e, c)
        <3>1. n + 1 \in DOMAIN t
            BY <1>2, <1>4
        <3> QED BY <1>3, <3>1 DEF HearsNext
    <2>2. ASSUME NEW i \in 1 .. 3, i <= n
          PROVE  \A x : HearsNext(x, t, i, c) = HearsNext(x, box, i, c)
        <3>1. i \in DOMAIN t /\ i \in DOMAIN box /\ t[i] = box[i]
            BY <1>2, <1>3, <1>4, <2>2
        <3> QED BY <3>1 DEF HearsNext
    <2>3. ASSUME NEW i \in 1 .. 3, i > n
          PROVE  \A x : HearsNext(x, box, i, c) = x
        <3>1. i \notin DOMAIN box
            BY <1>2, <2>3
        <3> QED BY <3>1 DEF HearsNext
    <2>4. ASSUME NEW i \in 1 .. 3, i > n + 1
          PROVE  \A x : HearsNext(x, t, i, c) = x
        <3>1. i \notin DOMAIN t
            BY <1>2, <1>4, <2>4
        <3> QED BY <3>1 DEF HearsNext
    <2>5. CASE n = 0
        BY <2>1, <2>3, <2>4, <2>5 DEF HearsAll
    <2>6. CASE n = 1
        BY <2>1, <2>2, <2>3, <2>4, <2>6 DEF HearsAll
    <2>7. CASE n = 2
        BY <2>1, <2>2, <2>3, <2>7 DEF HearsAll
    <2> QED BY <1>2, <2>5, <2>6, <2>7
<1> QED BY <1>1, <1>2, <1>3, <1>4, <1>5, <1>6

\* One more event, where there is something to say.
LEMMA HearsEvent ==
    ASSUME NEW box \in Seq(EventSet), Len(box) <= 2, NEW f \in Sayings,
           NEW kind \in {"IN_PROGRESS", "PARTIAL"},
           \A i \in DOMAIN box : box[i].kind # "END"
    PROVE  LET more == box \o Event(kind, f)
           IN /\ more \in Seq(EventSet) /\ Len(more) <= Len(box) + 1
              /\ \A i \in DOMAIN more : more[i].kind # "END"
              /\ \A m, c : HearsAll(m, more, c) =
                              Hears(HearsAll(m, box, c), [kind |-> kind, of |-> f], c)
<1>1. PICK e : e = [kind |-> kind, of |-> f]
    OBVIOUS
<1>2. e \in EventSet /\ e.kind # "END"
    BY <1>1 DEF EventSet, Sayings
<1>3. CASE f = <<>>
    <2>1. box \o Event(kind, f) = box
        BY <1>3, ConcatEmptySeq DEF Event
    <2>2. \A m, c : Hears(m, e, c) = m
        BY <1>1, <1>3 DEF Hears
    <2>3. Len(box) <= Len(box) + 1
        BY LenProperties
    <2> QED BY <1>1, <2>1, <2>2, <2>3
<1>4. CASE f # <<>>
    <2>1. box \o Event(kind, f) = Append(box, e)
        BY <1>1, <1>2, <1>4, AppendIsConcat DEF Event
    <2>2. PICK more : more = Append(box, e)
        OBVIOUS
    <2>3. /\ more \in Seq(EventSet) /\ Len(more) = Len(box) + 1
          /\ \A i \in DOMAIN more : more[i] = IF i \in DOMAIN box THEN box[i] ELSE e
          /\ \A m, c : HearsAll(m, more, c) = Hears(HearsAll(m, box, c), e, c)
        BY <1>2, <2>2, HearsAppended
    <2>4. \A i \in DOMAIN more : more[i].kind # "END"
        BY <1>2, <2>3
    <2>5. Len(more) <= Len(box) + 1
        BY <2>3, LenProperties
    <2> QED BY <1>1, <2>1, <2>2, <2>3, <2>4, <2>5
<1> QED BY <1>3, <1>4

\* What a publish sends: an event, and one that covers it.
LEMMA HearsPublished ==
    ASSUME NEW f \in Sayings, NEW g \in Sayings
    PROVE  LET box == Event("IN_PROGRESS", f) \o Event("PARTIAL", g)
           IN /\ box \in Seq(EventSet) /\ Len(box) <= 2
              /\ \A i \in DOMAIN box : box[i].kind # "END"
              /\ \A m, c : HearsAll(m, box, c) =
                    LET n == IF c \in DOMAIN f THEN Extend(m, f[c]) ELSE m
                    IN IF c \in DOMAIN g THEN Cover(n, g[c]) ELSE n
<1>1. PICK d, e, a, box :
        /\ d = [kind |-> "IN_PROGRESS", of |-> f] /\ e = [kind |-> "PARTIAL", of |-> g]
        /\ a = Event("IN_PROGRESS", f)
        /\ box = a \o Event("PARTIAL", g)
    OBVIOUS
<1>2. /\ <<>> \in Seq(EventSet) /\ Len(<<>>) = 0 /\ DOMAIN <<>> = {}
      /\ \A m, c : HearsAll(m, <<>>, c) = m
    BY EmptySeq DEF HearsAll, HearsNext
<1>3. <<>> \o a = a
    <2>1. d \in EventSet
        BY <1>1 DEF EventSet, Sayings
    <2>2. a = IF f = <<>> THEN <<>> ELSE <<d>>
        BY <1>1 DEF Event
    <2>3. <<d>> \in Seq(EventSet)
        BY <2>1
    <2>4. a \in Seq(EventSet)
        BY <1>2, <2>2, <2>3
    <2> QED BY <2>4, ConcatEmptySeq
<1>4. /\ a \in Seq(EventSet) /\ Len(a) <= 1
      /\ \A i \in DOMAIN a : a[i].kind # "END"
      /\ \A m, c : HearsAll(m, a, c) = Hears(m, d, c)
    <2>1. PICK o, k : o = <<>> /\ k = "IN_PROGRESS"
        OBVIOUS
    <2>2. /\ o \in Seq(EventSet) /\ Len(o) <= 2 /\ k \in {"IN_PROGRESS", "PARTIAL"}
          /\ \A i \in DOMAIN o : o[i].kind # "END"
        BY <1>2, <2>1
    <2>3. LET more == o \o Event(k, f)
          IN /\ more \in Seq(EventSet) /\ Len(more) <= Len(o) + 1
             /\ \A i \in DOMAIN more : more[i].kind # "END"
             /\ \A m, c : HearsAll(m, more, c) =
                             Hears(HearsAll(m, o, c), [kind |-> k, of |-> f], c)
        BY <2>2, HearsEvent
    <2> QED BY <1>1, <1>2, <1>3, <2>1, <2>3
<1>5. Len(a) \in Nat
    BY <1>4, LenProperties
<1>6. /\ box \in Seq(EventSet) /\ Len(box) <= Len(a) + 1
      /\ \A i \in DOMAIN box : box[i].kind # "END"
      /\ \A m, c : HearsAll(m, box, c) = Hears(HearsAll(m, a, c), e, c)
    <2>1. PICK k : k = "PARTIAL"
        OBVIOUS
    <2>2. Len(a) <= 2 /\ k \in {"IN_PROGRESS", "PARTIAL"}
        BY <1>4, <1>5, <2>1
    <2>3. LET more == a \o Event(k, g)
          IN /\ more \in Seq(EventSet) /\ Len(more) <= Len(a) + 1
             /\ \A i \in DOMAIN more : more[i].kind # "END"
             /\ \A m, c : HearsAll(m, more, c) =
                             Hears(HearsAll(m, a, c), [kind |-> k, of |-> g], c)
        BY <1>4, <2>2, HearsEvent
    <2> QED BY <1>1, <2>1, <2>3
<1>7. \A m, c : /\ Hears(m, d, c) = IF c \in DOMAIN f THEN Extend(m, f[c]) ELSE m
                /\ Hears(m, e, c) = IF c \in DOMAIN g THEN Cover(m, g[c]) ELSE m
    BY <1>1 DEF Hears
<1>8. Len(box) <= 2
    <2>1. Len(box) \in Nat
        BY <1>6, LenProperties
    <2> QED BY <1>4, <1>5, <1>6, <2>1
<1> QED BY <1>1, <1>4, <1>6, <1>7, <1>8

-----------------------------------------------------------------------------
(* The invariant.                                                          *)

\* A sequence of events under way: at most three, END the last of them.
OutboxInv ==
    /\ outbox \in Seq(EventSet) /\ Len(outbox) <= 3
    /\ \A i \in DOMAIN outbox :
          outbox[i].kind = "END" <=> phase = "ending" /\ i = Len(outbox)
    /\ phase = "ending" => outbox # <<>>
    /\ phase = "ended" => outbox = <<>>

\* What holds of a choice once the listeners have heard the events under way.
ChoiceInv(c) ==
    /\ Sound(Rest(c), contexts[c], said[c])
    /\ phase # "ended" => Follows(Rest(c), contexts[c])
    /\ phase = "open" \/ contexts[c].held # Nothing => CutClean(Rest(c))
    /\ phase \in {"ending", "ended"} => contexts[c].held = Nothing

StreamInv ==
    /\ phase \in {"open", "usage", "ending", "ended"}
    /\ DOMAIN contexts = Indexes /\ DOMAIN said = Indexes
    /\ OutboxInv
    /\ \A c \in Indexes : ChoiceInv(c)

LEMMA ContentsTyped == Contents \subseteq Content /\ Nothing \in Content
<1>1. BoundedSeq(Tokens, MaxPiece) \subseteq Texts
    <2>1. ASSUME NEW t \in BoundedSeq(Tokens, MaxPiece) PROVE t \in Texts
        <3>1. PICK n \in 0 .. MaxPiece : t \in [1 .. n -> Tokens]
            BY <2>1 DEF BoundedSeq, SeqOf
        <3>2. n \in Nat /\ t \in [1 .. n -> Shows]
            BY <3>1 DEF Shows
        <3> QED BY <3>2 DEF Texts
    <2> QED BY <2>1
<1>2. Contents \subseteq Content
    BY <1>1 DEF Contents, Content, Part
<1> QED BY <1>2 DEF Nothing, Content, Part

LEMMA CarriedTyped ==
    ASSUME NEW c \in Indexes, contexts[c] \in ContextSet, NEW delta \in Content,
           NEW final \in BOOLEAN
    PROVE  /\ Carried(c, delta, final) \in MessageSet
           /\ ReplaysAfter(c, delta, final) => Replay(c, delta) \in MessageSet
<1>1. Turn(c, delta, final) \in {"pass", "hold", "release"}
    BY DEF Turn
<1>2. ASSUME NEW x \in Content
      PROVE  Unlike(delta, x) \in Content
    BY <1>2 DEF Unlike, Content, Part
<1>3. /\ Held(c, delta) \in Content /\ Shown(Held(c, delta)) \in Content
      /\ Nothing \in Content /\ Cleared(delta) \in Content
    BY HeldTyped, ContentsTyped, OwnCleared
<1>4. Carried(c, delta, final) \in MessageSet
    <2>1. CASE Turn(c, delta, final) = "pass"
        BY <1>3, <2>1 DEF Carried, Carries, MessageSet
    <2>2. CASE Turn(c, delta, final) = "hold"
        BY <1>3, <2>2 DEF Carried, Carries, MessageSet
    <2>3. CASE Turn(c, delta, final) = "release"
        <3>1. PICK x, y, tag : /\ x = Unlike(delta, Shown(Held(c, delta)))
                               /\ y = Unlike(delta, Held(c, delta))
                               /\ tag = Tagged(Held(c, delta))
            OBVIOUS
        <3>2. x \in Content /\ y \in Content /\ tag \in BOOLEAN
            BY <1>2, <1>3, <3>1 DEF Tagged
        <3>3. Carried(c, delta, final) = [raw |-> delta, display |-> x, context |-> y, tag |-> tag]
            BY <2>3, <3>1 DEF Carried, Carries
        <3> QED BY <3>2, <3>3 DEF MessageSet
    <2> QED BY <1>1, <2>1, <2>2, <2>3
<1>5. ASSUME ReplaysAfter(c, delta, final)
      PROVE  Replay(c, delta) \in MessageSet
    <2>1. PICK r : r = Released(c, delta)
        OBVIOUS
    <2>2. r.shown \in Content /\ r.kept \in Content
        <3>1. contexts[c].shown \in Content /\ contexts[c].kept \in Content
            BY DEF ContextSet
        <3>2. r.shown = Merge(contexts[c].shown, Shown(Held(c, delta)))
              /\ r.kept = Merge(contexts[c].kept, Held(c, delta))
            BY <2>1 DEF Released
        <3> QED BY <1>3, <3>1, <3>2, MergeTyped
    <2>3. "word" \in ToSet(Text(r.shown["content"]))
        BY <1>5, <2>1 DEF ReplaysAfter, Replays
    <2>4. Replayed(r.shown) \in Content
        BY <2>2, <2>3, ReplayedTyped
    <2> QED BY <1>3, <2>1, <2>2, <2>4 DEF Replay, Carries, MessageSet
<1> QED BY <1>4, <1>5

\* What the publisher was given for some of the choices is under way.
Deltas(deltas) == DOMAIN deltas \subseteq Indexes /\ \A c \in DOMAIN deltas : deltas[c] \in Content

\* The events of a publish, heard in their order, do to each choice what its turn
\* says, and nothing to the others.
LEMMA HearsPublish ==
    ASSUME StreamInv, NEW deltas, Deltas(deltas), NEW final \in BOOLEAN
    PROVE  LET box == Carrying(deltas, final) \o Replaying(deltas, final)
           IN /\ box \in Seq(EventSet) /\ Len(box) <= 2
              /\ \A i \in DOMAIN box : box[i].kind # "END"
              /\ \A m, c : HearsAll(m, box, c) =
                    IF c \in DOMAIN deltas THEN Told(m, c, deltas[c], final) ELSE m
<1>1. PICK f, g, D, R : /\ D = DOMAIN deltas /\ R = {d \in D : ReplaysAfter(d, deltas[d], final)}
                        /\ f = [c \in D |-> Carried(c, deltas[c], final)]
                        /\ g = [c \in R |-> Replay(c, deltas[c])]
    OBVIOUS
<1>2. ASSUME NEW c \in D
      PROVE  /\ Carried(c, deltas[c], final) \in MessageSet
             /\ c \in R => Replay(c, deltas[c]) \in MessageSet
    <2>1. c \in Indexes /\ deltas[c] \in Content
        BY <1>1 DEF Deltas
    <2>2. contexts[c] \in ContextSet
        BY <2>1 DEF StreamInv, ChoiceInv, Sound
    <2> QED BY <1>1, <2>1, <2>2, CarriedTyped
<1>3. f \in [D -> MessageSet] /\ g \in [R -> MessageSet] /\ D \in SUBSET Indexes /\ R \in SUBSET Indexes
    BY <1>1, <1>2 DEF Deltas
<1>4. f \in Sayings /\ g \in Sayings
    BY <1>3 DEF Sayings
<1>5. PICK box : box = Event("IN_PROGRESS", f) \o Event("PARTIAL", g)
    OBVIOUS
<1>6. box = Carrying(deltas, final) \o Replaying(deltas, final)
    BY <1>1, <1>5 DEF Carrying, Replaying
<1>7. /\ box \in Seq(EventSet) /\ Len(box) <= 2
      /\ \A i \in DOMAIN box : box[i].kind # "END"
      /\ \A m, c : HearsAll(m, box, c) =
                    LET n == IF c \in DOMAIN f THEN Extend(m, f[c]) ELSE m
                    IN IF c \in DOMAIN g THEN Cover(n, g[c]) ELSE n
    BY <1>4, <1>5, HearsPublished
<1>8. ASSUME NEW m, NEW c
      PROVE  HearsAll(m, box, c) = IF c \in DOMAIN deltas THEN Told(m, c, deltas[c], final) ELSE m
    <2>1. CASE c \notin D
        <3>1. c \notin DOMAIN f /\ c \notin DOMAIN g
            BY <1>1, <2>1
        <3> QED BY <1>1, <1>7, <2>1, <3>1
    <2>2. CASE c \in R
        <3>1. /\ c \in DOMAIN f /\ c \in DOMAIN g /\ ReplaysAfter(c, deltas[c], final)
              /\ f[c] = Carried(c, deltas[c], final) /\ g[c] = Replay(c, deltas[c])
            BY <1>1, <2>2
        <3> QED BY <1>1, <1>7, <2>2, <3>1 DEF Told, Appended
    <2>3. CASE c \in D /\ c \notin R
        <3>1. /\ c \in DOMAIN f /\ c \notin DOMAIN g /\ ~ReplaysAfter(c, deltas[c], final)
              /\ f[c] = Carried(c, deltas[c], final)
            BY <1>1, <2>3
        <3> QED BY <1>1, <1>7, <2>3, <3>1 DEF Told, Appended
    <2> QED BY <1>1, <2>1, <2>2, <2>3
<1> QED BY <1>6, <1>7, <1>8

\* Between two publishes nothing is under way.
LEMMA RestBetween ==
    ASSUME outbox = <<>>, NEW c
    PROVE  Rest(c) = message[c]
BY DEF Rest, HearsAll, HearsNext

\* A publish keeps what holds of each choice: t is what the model has said of it,
\* with this publish.
LEMMA ChoicePublish ==
    ASSUME StreamInv, NEW deltas, Deltas(deltas), NEW final \in BOOLEAN,
           outbox = <<>>, phase \in {"open", "usage"}, NEW c \in Indexes,
           c \in DOMAIN deltas => CutClean(message[c])
    PROVE  LET m == IF c \in DOMAIN deltas THEN Told(message[c], c, deltas[c], final) ELSE message[c]
               k == IF c \in DOMAIN deltas THEN Saved(c, deltas[c], final) ELSE contexts[c]
               t == IF c \in DOMAIN deltas THEN Merge(said[c], deltas[c]) ELSE said[c]
           IN /\ Sound(m, k, t) /\ Follows(m, k)
              /\ c \in DOMAIN deltas /\ final => k.held = Nothing
              /\ (phase = "open" \/ c \in DOMAIN deltas) /\ ~final => CutClean(m)
              /\ k.held # Nothing => CutClean(m)
<1>1. /\ Sound(message[c], contexts[c], said[c]) /\ Follows(message[c], contexts[c])
      /\ phase = "open" \/ contexts[c].held # Nothing => CutClean(message[c])
    BY RestBetween DEF StreamInv, ChoiceInv
<1>2. CASE c \notin DOMAIN deltas
    BY <1>1, <1>2
<1>3. CASE c \in DOMAIN deltas
    <2>1. deltas[c] \in Content
        BY <1>3 DEF Deltas
    <2>2. LET n == Told(message[c], c, deltas[c], final)
              k == Saved(c, deltas[c], final)
          IN /\ Sound(n, k, Merge(said[c], deltas[c])) /\ Follows(n, k)
             /\ ~final => CutClean(n)
             /\ final => k.held = Nothing
        BY <1>1, <1>3, <2>1, ChoiceStep
    <2> QED BY <1>3, <2>2
<1> QED BY <1>2, <1>3

\* A chunk keeps the invariant.
LEMMA ChunkKeeps ==
    ASSUME StreamInv, NEW deltas, Deltas(deltas), NEW usage \in BOOLEAN, Chunk(deltas, usage)
    PROVE  StreamInv'
<1>1. PICK box : box = Carrying(deltas, usage) \o Replaying(deltas, usage)
    OBVIOUS
<1>2. /\ phase = "open" /\ outbox = <<>> /\ outbox' = box
      /\ phase' = (IF usage THEN "usage" ELSE "open")
      /\ contexts' = [c \in Indexes |->
            IF c \in DOMAIN deltas THEN Saved(c, deltas[c], usage) ELSE contexts[c]]
      /\ said' = [c \in Indexes |->
            IF c \in DOMAIN deltas THEN Merge(said[c], deltas[c]) ELSE said[c]]
      /\ sub' = sub /\ message' = message
    BY <1>1 DEF Chunk
<1>3. /\ box \in Seq(EventSet) /\ Len(box) <= 2
      /\ \A i \in DOMAIN box : box[i].kind # "END"
      /\ \A m, c : HearsAll(m, box, c) =
            IF c \in DOMAIN deltas THEN Told(m, c, deltas[c], usage) ELSE m
    BY <1>1, HearsPublish
<1>4. OutboxInv'
    <2>1. Len(box) <= 3 /\ phase' # "ending" /\ phase' # "ended"
        BY <1>2, <1>3, LenProperties
    <2> QED BY <1>2, <1>3, <2>1 DEF OutboxInv
<1>5. ASSUME NEW c \in Indexes
      PROVE  ChoiceInv(c)'
    <2>1. PICK m, k, t :
            /\ m = IF c \in DOMAIN deltas THEN Told(message[c], c, deltas[c], usage) ELSE message[c]
            /\ k = IF c \in DOMAIN deltas THEN Saved(c, deltas[c], usage) ELSE contexts[c]
            /\ t = IF c \in DOMAIN deltas THEN Merge(said[c], deltas[c]) ELSE said[c]
        OBVIOUS
    <2>2. CutClean(message[c])
        BY <1>2, RestBetween DEF StreamInv, ChoiceInv
    <2>3. /\ Sound(m, k, t) /\ Follows(m, k)
          /\ ~usage => CutClean(m)
          /\ k.held # Nothing => CutClean(m)
        BY <1>2, <2>1, <2>2, ChoicePublish
    <2>4. Rest(c)' = m /\ contexts'[c] = k /\ said'[c] = t
        BY <1>2, <1>3, <2>1 DEF Rest
    <2>5. Sound(m, k, t)' /\ Follows(m, k)' /\ (phase' = "open" \/ k.held # Nothing => CutClean(m)')
        BY <1>2, <2>3 DEF Sound, Follows, CutClean, Clean
    <2> QED BY <1>2, <2>4, <2>5 DEF ChoiceInv
<1> QED BY <1>2, <1>4, <1>5 DEF StreamInv

\* So does the end of the stream,
LEMMA EndKeeps ==
    ASSUME StreamInv, End
    PROVE  StreamInv'
<1>1. PICK deltas, box, all :
        /\ deltas = Left /\ box = Carrying(Left, TRUE) \o Replaying(Left, TRUE)
        /\ all = Append(box, EndEvent)
    OBVIOUS
<1>2. Deltas(deltas) /\ DOMAIN deltas = {c \in Indexes : contexts[c].held # Nothing}
      /\ \A c \in DOMAIN deltas : deltas[c] = Nothing
    BY <1>1, ContentsTyped DEF Left, Deltas
<1>3. /\ box \in Seq(EventSet) /\ Len(box) <= 2
      /\ \A i \in DOMAIN box : box[i].kind # "END"
      /\ \A m, c : HearsAll(m, box, c) =
            IF c \in DOMAIN deltas THEN Told(m, c, deltas[c], TRUE) ELSE m
    BY <1>1, <1>2, HearsPublish
<1>4. EndEvent \in EventSet /\ \A m, c : Hears(m, EndEvent, c) = m
    <2>1. <<>> \in [{} -> MessageSet] /\ {} \in SUBSET Indexes /\ DOMAIN <<>> = {}
        OBVIOUS
    <2>2. <<>> \in Sayings
        BY <2>1 DEF Sayings
    <2> QED BY <2>1, <2>2 DEF EndEvent, EventSet, Hears
<1>5. /\ all \in Seq(EventSet) /\ Len(all) = Len(box) + 1 /\ all # <<>>
      /\ \A i \in DOMAIN all : all[i] = IF i \in DOMAIN box THEN box[i] ELSE EndEvent
      /\ \A m, c : HearsAll(m, all, c) = Hears(HearsAll(m, box, c), EndEvent, c)
    <2>1. PICK e : e = EndEvent
        OBVIOUS
    <2>2. LET more == Append(box, e)
          IN /\ more \in Seq(EventSet) /\ Len(more) = Len(box) + 1 /\ more # <<>>
             /\ \A i \in DOMAIN more : more[i] = IF i \in DOMAIN box THEN box[i] ELSE e
             /\ \A m, c : HearsAll(m, more, c) = Hears(HearsAll(m, box, c), e, c)
        BY <1>3, <1>4, <2>1, HearsAppended
    <2> QED BY <1>1, <2>1, <2>2
<1>6. all = box \o <<EndEvent>>
    BY <1>1, <1>3, <1>4, AppendIsConcat
<1>7. /\ phase \in {"open", "usage"} /\ outbox = <<>> /\ phase' = "ending" /\ outbox' = all
      /\ contexts' = [c \in Indexes |->
            IF c \in DOMAIN deltas THEN Saved(c, Nothing, TRUE) ELSE contexts[c]]
      /\ sub' = sub /\ message' = message /\ said' = said
    BY <1>1, <1>6 DEF End, EndEvent
<1>8. OutboxInv'
    <2>1. Len(all) <= 3 /\ Len(box) \in Nat /\ DOMAIN box = 1 .. Len(box) /\ DOMAIN all = 1 .. Len(box) + 1
        BY <1>3, <1>5, LenProperties
    <2>2. ASSUME NEW i \in DOMAIN all PROVE all[i].kind = "END" <=> i = Len(all)
        BY <1>3, <1>5, <2>1 DEF EndEvent
    <2> QED BY <1>5, <1>7, <2>1, <2>2 DEF OutboxInv
<1>9. ASSUME NEW c \in Indexes
      PROVE  ChoiceInv(c)'
    <2>1. PICK m, k, t :
            /\ m = IF c \in DOMAIN deltas THEN Told(message[c], c, deltas[c], TRUE) ELSE message[c]
            /\ k = IF c \in DOMAIN deltas THEN Saved(c, deltas[c], TRUE) ELSE contexts[c]
            /\ t = IF c \in DOMAIN deltas THEN Merge(said[c], deltas[c]) ELSE said[c]
        OBVIOUS
    <2>2. c \in DOMAIN deltas => CutClean(message[c])
        BY <1>2, <1>7, RestBetween DEF StreamInv, ChoiceInv
    <2>3. Sound(m, k, t) /\ Follows(m, k) /\ (c \in DOMAIN deltas => k.held = Nothing)
        BY <1>2, <1>7, <2>1, <2>2, ChoicePublish
    <2>4. k.held = Nothing
        BY <1>2, <2>1, <2>3
    <2>5. t = said[c]
        <3>1. said[c] \in Content
            BY DEF StreamInv, ChoiceInv, Sound
        <3> QED BY <1>2, <2>1, <3>1, MergeTyped
    <2>6. Rest(c)' = m /\ contexts'[c] = k /\ said'[c] = t
        <3>1. Rest(c)' = m
            <4>1. Rest(c)' = HearsAll(message[c], all, c)
                BY <1>7 DEF Rest
            <4>2. HearsAll(message[c], all, c) = HearsAll(message[c], box, c)
                BY <1>4, <1>5
            <4>3. HearsAll(message[c], box, c) = m
                BY <1>3, <2>1
            <4> QED BY <4>1, <4>2, <4>3
        <3>2. contexts'[c] = k
            BY <1>2, <1>7, <2>1
        <3> QED BY <1>7, <2>5, <3>1, <3>2
    <2>7. Sound(m, k, t)' /\ Follows(m, k)'
        BY <1>7, <2>3 DEF Sound, Follows, CutClean, Clean
    <2> QED BY <1>7, <2>4, <2>6, <2>7 DEF ChoiceInv
<1> QED BY <1>7, <1>8, <1>9 DEF StreamInv

\* and the delivery of an event.
LEMMA DeliverKeeps ==
    ASSUME StreamInv, Deliver
    PROVE  StreamInv'
<1>1. PICK e, n : e = Head(outbox) /\ n = Len(outbox)
    OBVIOUS
<1>2. /\ outbox # <<>> /\ outbox' = Tail(outbox)
      /\ message' = [c \in Indexes |-> Hears(message[c], e, c)]
      /\ sub' = sub /\ said' = said
      /\ \/ e.kind = "END" /\ phase' = "ended" /\ contexts' = [c \in Indexes |-> Unsaid]
         \/ e.kind # "END" /\ phase' = phase /\ contexts' = contexts
    BY <1>1 DEF Deliver
<1>3. /\ n \in 1 .. 3 /\ DOMAIN outbox = 1 .. n /\ e = outbox[1]
      /\ outbox' \in Seq(EventSet) /\ Len(outbox') = n - 1 /\ DOMAIN outbox' = 1 .. n - 1
      /\ \A i \in 1 .. n - 1 : outbox'[i] = outbox[i + 1]
    <2>1. outbox \in Seq(EventSet) /\ n <= 3
        BY <1>1 DEF StreamInv, OutboxInv
    <2>2. n \in Nat /\ n # 0 /\ DOMAIN outbox = 1 .. n
        BY <1>1, <1>2, <2>1, EmptySeq, LenProperties
    <2>3. /\ outbox' \in Seq(EventSet) /\ Len(outbox') = n - 1
          /\ \A i \in 1 .. Len(outbox') : outbox'[i] = outbox[i + 1]
        BY <1>1, <1>2, <2>1, HeadTailProperties
    <2>4. DOMAIN outbox' = 1 .. n - 1
        BY <2>3, LenProperties
    <2> QED BY <1>1, <2>1, <2>2, <2>3, <2>4
<1>4. e.kind = "END" <=> phase = "ending" /\ n = 1
    BY <1>1, <1>3 DEF StreamInv, OutboxInv
<1>5. OutboxInv'
    <2>1. ASSUME NEW i \in DOMAIN outbox'
          PROVE  outbox'[i].kind = "END" <=> phase' = "ending" /\ i = Len(outbox')
        <3>1. i + 1 \in DOMAIN outbox /\ i \in 1 .. n - 1 /\ n # 1
            BY <1>3
        <3>2. outbox[i + 1].kind = "END" <=> phase = "ending" /\ i + 1 = n
            BY <1>1, <3>1 DEF StreamInv, OutboxInv
        <3>3. phase' = phase
            BY <1>2, <1>4, <3>1
        <3>4. outbox'[i] = outbox[i + 1] /\ (i + 1 = n <=> i = Len(outbox'))
            BY <1>3, <3>1
        <3> QED BY <3>2, <3>3, <3>4
    <2>2. phase' = "ending" => outbox' # <<>>
        BY <1>2, <1>3, <1>4, EmptySeq
    <2>3. phase' = "ended" => outbox' = <<>>
        <3>1. phase # "ended"
            BY <1>2 DEF StreamInv, OutboxInv
        <3> QED BY <1>2, <1>3, <1>4, <3>1, EmptySeq
    <2>4. Len(outbox') <= 3
        BY <1>3
    <2> QED BY <1>3, <2>1, <2>2, <2>3, <2>4 DEF OutboxInv
<1>6. ASSUME NEW c \in Indexes
      PROVE  ChoiceInv(c)'
    <2>1. Rest(c)' = Rest(c)
        <3>1. outbox \in Seq(EventSet) /\ Len(outbox) <= 3
            BY DEF StreamInv, OutboxInv
        <3>2. HearsAll(Hears(message[c], Head(outbox), c), Tail(outbox), c) = HearsAll(message[c], outbox, c)
            BY <1>2, <3>1, HearsTail
        <3> QED BY <1>1, <1>2, <3>2 DEF Rest
    <2>2. PICK m, k, t : m = Rest(c) /\ k = contexts[c] /\ t = said[c]
        OBVIOUS
    <2>3. /\ Sound(m, k, t)
          /\ phase # "ended" => Follows(m, k)
          /\ phase = "open" \/ k.held # Nothing => CutClean(m)
          /\ phase \in {"ending", "ended"} => k.held = Nothing
        BY <2>2 DEF StreamInv, ChoiceInv
    <2>4. CASE e.kind # "END"
        <3>1. Sound(m, k, t)' /\ (Follows(m, k)' <=> Follows(m, k)) /\ (CutClean(m)' <=> CutClean(m))
            BY <1>2, <2>3 DEF Sound, Follows, CutClean, Clean
        <3> QED BY <1>2, <2>1, <2>2, <2>3, <2>4, <3>1 DEF ChoiceInv
    <2>5. CASE e.kind = "END"
        <3>1. phase = "ending" /\ k.held = Nothing /\ phase' = "ended" /\ contexts'[c] = Unsaid
            BY <1>2, <1>4, <2>3, <2>5
        <3>2. Unsaid \in ContextSet /\ Unsaid.held = Nothing
            BY ContentsTyped DEF Unsaid, ContextSet
        <3>3. Sound(m, Unsaid, t)'
            BY <1>2, <2>3, <3>1, <3>2 DEF Sound, Clean
        <3> QED BY <1>2, <2>1, <2>2, <3>1, <3>2, <3>3 DEF ChoiceInv
    <2> QED BY <2>4, <2>5
<1> QED BY <1>2, <1>5, <1>6 DEF StreamInv

\* It holds before the first chunk.
LEMMA InitKeeps ==
    ASSUME StreamInit
    PROVE  StreamInv
<1>1. OutboxInv
    BY EmptySeq DEF StreamInit, OutboxInv
<1>2. ASSUME NEW c \in Indexes
      PROVE  ChoiceInv(c)
    <2>1. PICK m : m = message[c]
        OBVIOUS
    <2>2. /\ m = [raw |-> Nothing, display |-> Nothing, context |-> Nothing, tag |-> FALSE]
          /\ contexts[c] = Unsaid /\ said[c] = Nothing /\ Rest(c) = m
        BY <2>1, RestBetween DEF StreamInit, Carries
    <2>3. Nothing \in Content /\ Text(Nothing["content"]) = <<>>
        BY ContentsTyped, PartTyped, PartsAre DEF Nothing
    <2>4. Merge(Nothing, Nothing) = Nothing
        BY <2>3, MergeTyped
    <2>5. Clean(<<>>) = <<>> /\ ~Has(<<>>) /\ Closed(<<>>)
        BY NoMarkerInNothing, CleanTexts DEF Closed
    <2>6. m \in MessageSet /\ Unsaid \in ContextSet
        BY <2>2, <2>3 DEF MessageSet, Unsaid, ContextSet
    <2>7. Sound(m, Unsaid, Nothing)
        <3>1. m.tag = (sub /\ Has(Text(m.context["content"])))
            <4>1. m.context = Nothing /\ m.tag = FALSE /\ sub \in BOOLEAN
                BY <2>2 DEF StreamInit
            <4>2. ~Has(Text(m.context["content"]))
                BY <2>3, <2>5, <4>1
            <4> QED BY <4>1, <4>2
        <3>2. /\ m.raw = Nothing /\ m.context = Nothing /\ m.display = Nothing
              /\ Unsaid.held = Nothing
            BY <2>2 DEF Unsaid
        <3> QED BY <2>3, <2>4, <2>5, <2>6, <3>1, <3>2 DEF Sound
    <2>8. Follows(m, Unsaid) /\ CutClean(m)
        BY <2>2, <2>3, <2>5 DEF Follows, Unsaid, Behind, CutClean
    <2> QED BY <2>2, <2>7, <2>8 DEF ChoiceInv, Unsaid, StreamInit
<1> QED BY <1>1, <1>2 DEF StreamInv, StreamInit

\* Every step keeps it.
LEMMA StreamStep ==
    ASSUME StreamInv, [StreamNext]_streamVars
    PROVE  StreamInv'
<1>1. CASE Chunks
    <2>1. PICK usage \in BOOLEAN, some \in {{c} : c \in Indexes} \cup {Indexes} :
            LET says == [c \in some |-> Says(c, usage)]
            IN \E deltas \in {f \in [some -> UNION {says[c] : c \in some}] :
                                \A c \in some : f[c] \in says[c]} :
                 Chunk(deltas, usage)
        BY <1>1 DEF Chunks
    <2>2. PICK deltas : /\ DOMAIN deltas = some /\ \A c \in some : deltas[c] \in Says(c, usage)
                        /\ Chunk(deltas, usage)
        BY <2>1
    <2>3. Deltas(deltas)
        BY <2>1, <2>2, ContentsTyped DEF Deltas, Says
    <2> QED BY <2>2, <2>3, ChunkKeeps
<1>2. CASE End
    BY <1>2, EndKeeps
<1>3. CASE Deliver
    BY <1>3, DeliverKeeps
<1>4. CASE UNCHANGED streamVars
    BY <1>4 DEF streamVars, StreamInv, OutboxInv, ChoiceInv, Rest, Sound, Follows, CutClean, Clean
<1> QED BY <1>1, <1>2, <1>3, <1>4 DEF StreamNext

\* At every moment of every stream each choice is sound, counting the events under
\* way: nothing that the model said is lost between the publisher, the event bus and
\* a listener, and no marker is told in two halves.
THEOREM StreamInvariant == StreamSpec => []StreamInv
<1>1. StreamInit => StreamInv
    BY InitKeeps
<1>2. StreamInv /\ [StreamNext]_streamVars => StreamInv'
    BY StreamStep
<1> QED BY <1>1, <1>2, PTL DEF StreamSpec

-----------------------------------------------------------------------------
(* What the listeners have between two publishes.                          *)

LEMMA BetweenChoices ==
    ASSUME StreamInv, Between, NEW c \in Indexes
    PROVE  /\ Sound(message[c], contexts[c], said[c])
           /\ phase # "ended" => Follows(message[c], contexts[c])
           /\ contexts[c].held # Nothing => CutClean(message[c])
           /\ phase = "ended" => contexts[c].held = Nothing
BY RestBetween DEF StreamInv, ChoiceInv, Between

LEMMA CleanHolds ==
    ASSUME StreamInv
    PROVE  ShownIsClean
<1>1. ASSUME Between, NEW c \in Indexes
      PROVE  Text(message[c].display["content"]) \o Clean(Text(contexts[c].held["content"]))
               = Clean(Text(said[c]["content"]))
    <2>1. PICK m, k, s : m = message[c] /\ k = contexts[c] /\ s = said[c]
        OBVIOUS
    <2>2. Sound(m, k, s) /\ (k.held # Nothing => CutClean(m))
        BY <1>1, <2>1, BetweenChoices
    <2>3. PICK C, H : C = Text(m.context["content"]) /\ H = Text(k.held["content"])
        OBVIOUS
    <2>4. m.context["content"] \in Part /\ k.held["content"] \in Part
        BY <2>2, PartsAre DEF Sound, MessageSet, ContextSet, Content
    <2>5. s["content"] = Join(m.context["content"], k.held["content"])
        <3>1. s = Merge(m.context, k.held)
            BY <2>2 DEF Sound
        <3> QED BY <3>1, PartsAre DEF Merge
    <2>6. Text(s["content"]) = C \o H /\ C \in Texts /\ H \in Texts
        <3>1. PICK a, b : a = m.context["content"] /\ b = k.held["content"]
            OBVIOUS
        <3>2. Text(Join(a, b)) = Text(a) \o Text(b) /\ Text(a) \in Texts /\ Text(b) \in Texts
            BY <2>4, <3>1, JoinTexts, PartTyped
        <3> QED BY <2>3, <2>5, <3>1, <3>2
    <2>7. Text(m.display["content"]) = Clean(C)
        BY <2>2, <2>3 DEF Sound
    <2>8. Clean(C) \o Clean(H) = Clean(C \o H)
        <3>1. CASE k.held = Nothing
            <4>1. H = <<>>
                BY <2>3, <3>1, PartsAre, PartTyped DEF Nothing
            <4>2. Clean(C) \in Texts /\ Clean(<<>>) = <<>>
                BY <2>6, CleanTexts
            <4> QED BY <2>6, <4>1, <4>2, ConcatEmptySeq DEF Texts
        <3>2. CASE k.held # Nothing
            <4>1. sub => Closed(C)
                BY <2>2, <2>3, <3>2 DEF CutClean
            <4> QED BY <2>6, <4>1, CleanTexts
        <3> QED BY <3>1, <3>2
    <2> QED BY <2>1, <2>3, <2>6, <2>7, <2>8
<1> QED BY <1>1 DEF ShownIsClean

\* However the model's text is cut into chunks, what the user has seen of the body,
\* followed by what is held back, is the body without the marker, in every stream.
THEOREM ShownClean == StreamSpec => []ShownIsClean
BY StreamInvariant, CleanHolds, PTL

\* Nothing of the text is lost, doubled or moved on its way to the next model call.
THEOREM ContextWhole == StreamSpec => []ContextIsWhole
<1>1. StreamInv => ContextIsWhole
    BY BetweenChoices DEF ContextIsWhole, Sound
<1> QED BY <1>1, StreamInvariant, PTL

LEMMA SnapshotsHold ==
    ASSUME StreamInv
    PROVE  SnapshotsAgree
<1>1. ASSUME Between, phase # "ended", NEW c \in Indexes, NEW p \in Parts
      PROVE  /\ Text(contexts[c].shown[p]) = Text(message[c].display[p])
             /\ Text(contexts[c].kept[p]) = Text(message[c].context[p])
    <2>1. PICK m, k, s : m = message[c] /\ k = contexts[c] /\ s = said[c]
        OBVIOUS
    <2>2. Sound(m, k, s) /\ Follows(m, k)
        BY <1>1, <2>1, BetweenChoices
    <2>3. /\ m.display[p] \in Part /\ m.context[p] \in Part
          /\ k.shown[p] \in Part /\ k.kept[p] \in Part
        BY <2>2 DEF Sound, MessageSet, ContextSet, Content
    <2>4. Behind(k.shown[p], m.display[p]) /\ Behind(k.kept[p], m.context[p])
        BY <2>2 DEF Follows
    <2> QED BY <2>1, <2>3, <2>4, BehindTexts
<1> QED BY <1>1 DEF SnapshotsAgree

\* The snapshots the interceptors are asked about are the listeners' texts.
THEOREM SnapshotsFollow == StreamSpec => []SnapshotsAgree
BY StreamInvariant, SnapshotsHold, PTL

LEMMA TagHolds ==
    ASSUME StreamInv
    PROVE  TagMeansMarker
<1>1. ASSUME Between, phase = "ended", NEW c \in Indexes, ~Has(Text(said[c]["reasoning"]))
      PROVE  message[c].tag = (sub /\ Has(Text(said[c]["content"])))
    <2>1. PICK m, k, s : m = message[c] /\ k = contexts[c] /\ s = said[c]
        OBVIOUS
    <2>2. Sound(m, k, s) /\ k.held = Nothing
        BY <1>1, <2>1, BetweenChoices
    <2>3. s = m.context
        BY <2>2, MergeTyped DEF Sound, MessageSet
    <2>4. m.tag = (sub /\ Has(Text(m.context["content"])))
        BY <1>1, <2>1, <2>2 DEF Sound
    <2> QED BY <2>1, <2>3, <2>4
<1> QED BY <1>1 DEF TagMeansMarker

\* A subagent keeps control exactly when its body had the marker in it, whether it
\* came in one chunk or in several.
THEOREM TagIsMarker == StreamSpec => []TagMeansMarker
BY StreamInvariant, TagHolds, PTL
=============================================================================
