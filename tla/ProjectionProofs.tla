--------------------------- MODULE ProjectionProofs ---------------------------
(***************************************************************************)
(* What a model is told of a session, for every set of agents and tools and *)
(* for sessions of every length: every call is answered in its place, what  *)
(* happened is told once and in order, and no conclusion is told without    *)
(* the note on the expired results it rests on.                             *)
(*                                                                         *)
(* The argument goes from the parts to the whole.  A history that finished  *)
(* and paused tasks left is cut into rounds; what is told of a round is     *)
(* paired, in order and aware of what is out of date; groups, the messages  *)
(* of the history and those of the running task are joined of such parts,   *)
(* and joining keeps each of the three.  Which artifacts are told is        *)
(* followed the same way: a round tells its own places, a group those of    *)
(* its rounds, and the group inputs of a context partition the groups of    *)
(* the other agents.  The last part is the session: every action keeps a    *)
(* history that can be cut this way, since a task exchanges calls and       *)
(* results in order and leaves nothing unfinished.                          *)
(***************************************************************************)
EXTENDS HistoryProjection, SelectionProofs, FiniteSetTheorems

-----------------------------------------------------------------------------
(* Places of a list, and a list cut at places.                              *)

\* The list o has the numbers of S in their order.
Lists(o, S) ==
    /\ o \in Seq(S)
    /\ \A p, q \in 1 .. Len(o) : p < q => o[p] < o[q]
    /\ \A i \in S : \E p \in 1 .. Len(o) : o[p] = i

LEMMA PlacesAre ==
    ASSUME NEW N \in Nat, NEW seq, DOMAIN seq = 1 .. N, NEW S, S \subseteq 1 .. N
    PROVE  Lists(PlacesIn(seq, S), S)
<1>1. PICK I : I = [i \in 1 .. N |-> i]
    OBVIOUS
<1>2. I \in [1 .. N -> Nat] /\ \A i \in 1 .. N : I[i] = i
    BY <1>1
<1>3. I \in Seq(Nat) /\ Len(I) = N
    BY <1>2, ListOfLength
<1>4. PICK o : o = Keep(I, S)
    OBVIOUS
<1>5. o = PlacesIn(seq, S)
    BY <1>1, <1>4 DEF PlacesIn
<1>6. PICK f : Picks(f, I, S, o)
    BY <1>3, <1>4, KeepPlaces
<1>7. o \in Seq(Nat) /\ Len(o) \in Nat
    BY <1>3, <1>4, KeepTyped, LenProperties
<1>8. \A p \in 1 .. Len(o) : f[p] \in 1 .. N /\ o[p] = f[p] /\ o[p] \in S
    BY <1>2, <1>3, <1>6 DEF Picks
<1>9. o \in [1 .. Len(o) -> S]
    <2>1. o = [p \in 1 .. Len(o) |-> o[p]]
        BY <1>7, LenProperties
    <2> QED BY <1>8, <2>1
<1>10. o \in Seq(S)
    BY <1>7, <1>9, ListOfLength
<1>11. ASSUME NEW p \in 1 .. Len(o), NEW q \in 1 .. Len(o), p < q PROVE o[p] < o[q]
    <2>1. f[p] < f[q]
        BY <1>6, <1>11 DEF Picks
    <2> QED BY <1>8, <2>1
<1>12. ASSUME NEW i \in S PROVE \E p \in 1 .. Len(o) : o[p] = i
    <2>1. i \in 1 .. Len(I) /\ I[i] \in S
        BY <1>2, <1>3
    <2>2. PICK p \in 1 .. Len(o) : f[p] = i
        BY <1>6, <2>1 DEF Picks
    <2> QED BY <1>8, <2>2
<1> QED BY <1>5, <1>10, <1>11, <1>12 DEF Lists

\* The lists ss are what stands in seq at the places b[k] .. e[k].
Cuts(ss, seq, S, b, e) ==
    /\ \A k \in 1 .. Len(ss) :
          /\ b[k] \in S /\ b[k] \in 1 .. Len(seq) /\ e[k] \in b[k] .. Len(seq)
          /\ ss[k] = SubSeq(seq, b[k], e[k])
          /\ \A i \in b[k] + 1 .. e[k] : i \notin S
          /\ e[k] = Len(seq) \/ e[k] + 1 \in S
    /\ \A k, l \in 1 .. Len(ss) : k < l => e[k] < b[l]
    /\ \A i \in S : \E k \in 1 .. Len(ss) : b[k] = i

LEMMA CutPlaces ==
    ASSUME NEW A, NEW seq \in Seq(A), NEW S, S \subseteq 1 .. Len(seq)
    PROVE  /\ CutAt(seq, S) \in Seq(Seq(A))
           /\ \E b, e : Cuts(CutAt(seq, S), seq, S, b, e)
<1>1. PICK N, o, n : N = Len(seq) /\ o = PlacesIn(seq, S) /\ n = Len(o)
    OBVIOUS
<1>2. N \in Nat /\ DOMAIN seq = 1 .. N /\ S \subseteq 1 .. N
    BY <1>1, LenProperties
<1>3. /\ o \in Seq(S) /\ n \in Nat /\ DOMAIN o = 1 .. n
      /\ \A p, q \in 1 .. n : p < q => o[p] < o[q]
      /\ \A i \in S : \E p \in 1 .. n : o[p] = i
    <2>1. Lists(o, S)
        BY <1>1, <1>2, PlacesAre
    <2> QED BY <1>1, <2>1, LenProperties DEF Lists
<1>4. \A k \in 1 .. n : o[k] \in S /\ o[k] \in 1 .. N
    BY <1>1, <1>2, <1>3, ElementOfSeq
<1>5. PICK e : e = [k \in 1 .. n |-> IF k = n THEN N ELSE o[k + 1] - 1]
    OBVIOUS
<1>6. PICK ss : ss = CutAt(seq, S)
    OBVIOUS
<1>7. ss = [k \in 1 .. n |-> SubSeq(seq, o[k], e[k])]
    BY <1>1, <1>3, <1>5, <1>6 DEF CutAt
<1>8. ASSUME NEW k \in 1 .. n
      PROVE  /\ e[k] \in o[k] .. N
             /\ e[k] = N \/ e[k] + 1 \in S
             /\ \A i \in o[k] + 1 .. e[k] : i \notin S
    <2>1. CASE k = n
        <3>1. e[k] = N
            BY <1>5, <2>1
        <3>2. ASSUME NEW i \in o[k] + 1 .. e[k], i \in S PROVE FALSE
            <4>1. PICK p \in 1 .. n : o[p] = i
                BY <1>3, <3>2
            <4>2. o[k] < o[p]
                BY <1>2, <1>4, <3>1, <3>2, <4>1
            <4>3. p = k \/ p < k
                BY <1>3, <2>1, <4>1
            <4>4. CASE p < k
                <5>1. o[p] < o[k]
                    BY <1>3, <4>4
                <5> QED BY <1>2, <1>4, <4>2, <5>1
            <4> QED BY <1>2, <1>4, <4>2, <4>3, <4>4
        <3> QED BY <1>2, <1>4, <3>1, <3>2
    <2>2. CASE k # n
        <3>1. k + 1 \in 1 .. n /\ k < k + 1
            BY <1>3, <2>2
        <3>2. e[k] = o[k + 1] - 1 /\ o[k] < o[k + 1] /\ o[k + 1] \in S /\ o[k + 1] \in 1 .. N
            BY <1>3, <1>4, <1>5, <2>2, <3>1
        <3>3. ASSUME NEW i \in o[k] + 1 .. e[k], i \in S PROVE FALSE
            <4>1. PICK p \in 1 .. n : o[p] = i
                BY <1>3, <3>3
            <4>2. o[k] < o[p] /\ o[p] < o[k + 1]
                BY <1>2, <1>4, <3>2, <3>3, <4>1
            <4>3. p = k \/ p < k \/ p = k + 1 \/ k + 1 < p
                BY <1>3, <4>1
            <4>4. CASE p < k
                <5>1. o[p] < o[k]
                    BY <1>3, <4>4
                <5> QED BY <1>2, <1>4, <4>2, <5>1
            <4>5. CASE k + 1 < p
                <5>1. o[k + 1] < o[p]
                    BY <1>3, <3>1, <4>5
                <5> QED BY <1>2, <1>4, <3>2, <4>2, <5>1
            <4> QED BY <1>2, <1>4, <4>2, <4>3, <4>4, <4>5
        <3> QED BY <1>2, <1>4, <3>2, <3>3
    <2> QED BY <2>1, <2>2
<1>9. \A k \in 1 .. n : SubSeq(seq, o[k], e[k]) \in Seq(A)
    <2>1. ASSUME NEW k \in 1 .. n PROVE SubSeq(seq, o[k], e[k]) \in Seq(A)
        <3>1. o[k] \in 1 .. N /\ e[k] \in 1 .. N
            BY <1>2, <1>4, <1>8
        <3> QED BY <1>1, <1>2, <3>1, SubSeqProperties
    <2> QED BY <2>1
<1>10. ss \in [1 .. n -> Seq(A)]
    BY <1>7, <1>9
<1>11. ss \in Seq(Seq(A)) /\ Len(ss) = n
    BY <1>3, <1>10, ListOfLength
<1>12. ASSUME NEW k \in 1 .. n, NEW l \in 1 .. n, k < l PROVE e[k] < o[l]
    <2>1. k # n /\ k + 1 \in 1 .. n
        BY <1>3, <1>12
    <2>2. e[k] = o[k + 1] - 1 /\ o[k + 1] \in 1 .. N /\ o[l] \in 1 .. N
        BY <1>4, <1>5, <2>1
    <2>3. CASE l = k + 1
        BY <2>2, <2>3
    <2>4. CASE l # k + 1
        <3>1. k + 1 < l
            BY <1>3, <1>12, <2>4
        <3>2. o[k + 1] < o[l]
            BY <1>3, <2>1, <3>1
        <3> QED BY <2>2, <3>2
    <2> QED BY <2>3, <2>4
<1>13. \A k \in 1 .. n : ss[k] = SubSeq(seq, o[k], e[k])
    BY <1>7
<1>14. Cuts(ss, seq, S, o, e)
    BY <1>1, <1>3, <1>4, <1>8, <1>11, <1>12, <1>13 DEF Cuts
<1> QED BY <1>6, <1>11, <1>14

\* r is what stands in seq at the places b .. e.
IsCut(r, seq, b, e) ==
    /\ b \in Nat /\ e \in Nat
    /\ Len(r) = e - b + 1 /\ Len(r) \in Nat /\ 1 \in 1 .. Len(r) /\ r # <<>>
    /\ \A j \in 1 .. Len(r) : r[j] = seq[b + j - 1] /\ b + j - 1 \in b .. e
    /\ \A i \in b .. e : i - b + 1 \in 1 .. Len(r) /\ r[i - b + 1] = seq[i]

LEMMA CutOf ==
    ASSUME NEW A, NEW seq \in Seq(A), NEW b \in 1 .. Len(seq), NEW e \in b .. Len(seq),
           NEW s, s = SubSeq(seq, b, e)
    PROVE  s \in Seq(A) /\ IsCut(s, seq, b, e)
<1>1. PICK N : N = Len(seq)
    OBVIOUS
<1>2. N \in Nat /\ b \in Nat /\ e \in Nat /\ 1 <= b /\ b <= e /\ e <= N
    BY <1>1, LenProperties
<1>3. s \in Seq(A) /\ Len(s) = e - b + 1 /\ \A j \in 1 .. (e - b + 1) : s[j] = seq[b + j - 1]
    BY <1>1, <1>2, SubSeqProperties
<1>4. \A j \in 1 .. Len(s) : b + j - 1 \in b .. e
    BY <1>2, <1>3
<1>5. ASSUME NEW i \in b .. e
      PROVE  i - b + 1 \in 1 .. Len(s) /\ s[i - b + 1] = seq[i]
    <2>1. i - b + 1 \in 1 .. (e - b + 1) /\ b + (i - b + 1) - 1 = i
        BY <1>2
    <2> QED BY <1>3, <2>1
<1>6. Len(s) \in Nat /\ 1 \in 1 .. Len(s)
    BY <1>2, <1>3
<1>7. s # <<>>
    BY <1>3, <1>6, EmptySeq
<1> QED BY <1>2, <1>3, <1>4, <1>5, <1>6, <1>7 DEF IsCut

\* If the first place is a cut, every place is in one of the lists.
LEMMA CutCovers ==
    ASSUME NEW A, NEW seq \in Seq(A), NEW S, S \subseteq 1 .. Len(seq), 1 \in S,
           NEW ss, NEW b, NEW e, Cuts(ss, seq, S, b, e), NEW i \in 1 .. Len(seq)
    PROVE  \E k \in 1 .. Len(ss) : i \in b[k] .. e[k]
<1>1. PICK N : N = Len(seq)
    OBVIOUS
<1>2. N \in Nat /\ i \in 1 .. N /\ S \subseteq 1 .. N
    BY <1>1, LenProperties
<1>3. PICK T : T = {x \in S : x <= i}
    OBVIOUS
<1>4. T \subseteq 1 .. N /\ T # {}
    <2>1. 1 \in T
        BY <1>2, <1>3
    <2> QED BY <1>2, <1>3, <2>1
<1>5. PICK x \in T : \A y \in T : y <= x
    BY <1>2, <1>4, Greatest
<1>6. PICK k \in 1 .. Len(ss) : b[k] = x
    BY <1>3, <1>5 DEF Cuts
<1>7. b[k] \in 1 .. N /\ e[k] \in b[k] .. N /\ (e[k] = N \/ e[k] + 1 \in S)
    BY <1>1, <1>6 DEF Cuts
<1>8. ~(e[k] < i)
    <2>1. SUFFICES ASSUME e[k] < i PROVE FALSE
        OBVIOUS
    <2>2. e[k] # N
        BY <1>2, <1>7, <2>1
    <2>3. e[k] + 1 \in T
        BY <1>2, <1>3, <1>7, <2>1, <2>2
    <2>4. e[k] + 1 <= x
        BY <1>5, <2>3
    <2> QED BY <1>6, <1>7, <2>4
<1>9. i \in b[k] .. e[k]
    BY <1>2, <1>3, <1>5, <1>6, <1>7, <1>8
<1> QED BY <1>9

-----------------------------------------------------------------------------
(* Artifacts, and the rounds of a history that carries its places.          *)

Names == Plain \cup {"handoff", "return", "resume"}
Tools == [name : Names, to : Agents]
Calls == [id : Nat, tool : Tools]
Kinds == {"input", "request", "tool_call", "result", "response", "assistant", "change"}
Artifacts ==
    [kind : Kinds, owner : Agents, src : Nat, input : Nat, wake : BOOLEAN,
     calls : Seq(Calls), call : Nat, why : {"none", "report", "handoff", "return"}]

\* Only messages of the model make calls, only results answer one.
Shaped(a) ==
    /\ a.calls # <<>> => a.kind \in {"tool_call", "response"}
    /\ a.kind = "result" <=> a.call # 0

Stamp(s) == s \in Seq(Artifacts) /\ \A i \in 1 .. Len(s) : s[i].src = i /\ Shaped(s[i])

\* r is the round of s at the places b .. e.
RoundAt(s, r, b, e) ==
    /\ b \in 1 .. Len(s) /\ e \in b .. Len(s) /\ r = SubSeq(s, b, e)
    /\ s[b].kind = "input" /\ \A i \in b + 1 .. e : s[i].kind # "input"
    /\ e = Len(s) \/ s[e + 1].kind = "input"

Rounds(s) == {r \in Seq(Artifacts) : \E b, e \in 1 .. Len(s) : RoundAt(s, r, b, e)}

From(r) == r[1].src
To(r)   == r[Len(r)].src

LEMMA RoundIs ==
    ASSUME NEW s, Stamp(s), NEW r \in Rounds(s)
    PROVE  /\ RoundAt(s, r, From(r), To(r))
           /\ r \in Seq(Artifacts) /\ Len(r) \in Nat /\ r # <<>> /\ 1 \in 1 .. Len(r)
           /\ Len(r) = To(r) - From(r) + 1
           /\ \A j \in 1 .. Len(r) : /\ r[j] = s[From(r) + j - 1]
                                     /\ r[j].src = From(r) + j - 1
                                     /\ From(r) + j - 1 \in From(r) .. To(r)
           /\ \A i \in From(r) .. To(r) : i - From(r) + 1 \in 1 .. Len(r)
                                          /\ r[i - From(r) + 1] = s[i]
<1>1. s \in Seq(Artifacts) /\ Len(s) \in Nat /\ \A i \in 1 .. Len(s) : s[i].src = i
    BY LenProperties DEF Stamp
<1>2. PICK b \in 1 .. Len(s), e \in 1 .. Len(s) : RoundAt(s, r, b, e)
    BY DEF Rounds
<1>3. b \in 1 .. Len(s) /\ e \in b .. Len(s) /\ r = SubSeq(s, b, e)
    BY <1>2 DEF RoundAt
<1>4. /\ r \in Seq(Artifacts) /\ Len(r) = e - b + 1 /\ Len(r) \in Nat /\ 1 \in 1 .. Len(r)
      /\ r # <<>>
      /\ \A j \in 1 .. Len(r) : r[j] = s[b + j - 1] /\ b + j - 1 \in b .. e
      /\ \A i \in b .. e : i - b + 1 \in 1 .. Len(r) /\ r[i - b + 1] = s[i]
    <2>1. r \in Seq(Artifacts) /\ IsCut(r, s, b, e)
        BY <1>1, <1>3, CutOf
    <2> QED BY <2>1 DEF IsCut
<1>5. b \in Nat /\ e \in Nat
    BY <1>3
<1>6. \A j \in 1 .. Len(r) : b + j - 1 \in 1 .. Len(s)
    BY <1>1, <1>3, <1>4
<1>7. \A j \in 1 .. Len(r) : r[j].src = b + j - 1
    BY <1>1, <1>4, <1>6
<1>8. From(r) = b
    BY <1>4, <1>5, <1>7 DEF From
<1>9. To(r) = e
    BY <1>4, <1>5, <1>7 DEF To
<1> QED BY <1>2, <1>4, <1>7, <1>8, <1>9

LEMMA RoundPlaces ==
    ASSUME NEW s, Stamp(s), NEW r \in Rounds(s)
    PROVE  /\ From(r) \in 1 .. Len(s) /\ To(r) \in From(r) .. Len(s) /\ Len(s) \in Nat
           /\ s[From(r)].kind = "input" /\ \A i \in From(r) + 1 .. To(r) : s[i].kind # "input"
           /\ To(r) = Len(s) \/ s[To(r) + 1].kind = "input"
<1>1. RoundAt(s, r, From(r), To(r))
    BY RoundIs
<1>2. Len(s) \in Nat
    BY LenProperties DEF Stamp
<1> QED BY <1>1, <1>2 DEF RoundAt

LEMMA RoundsApart ==
    ASSUME NEW s, Stamp(s), NEW r \in Rounds(s), NEW q \in Rounds(s)
    PROVE  /\ From(r) < From(q) => To(r) < From(q)
           /\ From(r) = From(q) => r = q
<1>1. /\ From(r) \in 1 .. Len(s) /\ To(r) \in From(r) .. Len(s) /\ Len(s) \in Nat
      /\ s[From(r)].kind = "input" /\ \A i \in From(r) + 1 .. To(r) : s[i].kind # "input"
      /\ To(r) = Len(s) \/ s[To(r) + 1].kind = "input"
    BY RoundPlaces
<1>2. /\ From(q) \in 1 .. Len(s) /\ To(q) \in From(q) .. Len(s)
      /\ s[From(q)].kind = "input" /\ \A i \in From(q) + 1 .. To(q) : s[i].kind # "input"
      /\ To(q) = Len(s) \/ s[To(q) + 1].kind = "input"
    BY RoundPlaces
<1>3. ASSUME From(r) < From(q) PROVE To(r) < From(q)
    BY <1>1, <1>2, <1>3
<1>4. ASSUME From(r) = From(q) PROVE r = q
    <2>1. To(r) = To(q)
        <3>1. CASE To(r) < To(q)
            <4>1. To(r) + 1 \in From(q) + 1 .. To(q) /\ To(r) # Len(s)
                BY <1>1, <1>2, <1>4, <3>1
            <4> QED BY <1>1, <1>2, <4>1
        <3>2. CASE To(q) < To(r)
            <4>1. To(q) + 1 \in From(r) + 1 .. To(r) /\ To(q) # Len(s)
                BY <1>1, <1>2, <1>4, <3>2
            <4> QED BY <1>1, <1>2, <4>1
        <3> QED BY <1>1, <1>2, <3>1, <3>2
    <2>2. r = SubSeq(s, From(r), To(r)) /\ q = SubSeq(s, From(q), To(q))
        BY RoundIs DEF RoundAt
    <2> QED BY <1>4, <2>1, <2>2
<1> QED BY <1>3, <1>4

Rising(rs) == \A k, l \in 1 .. Len(rs) : k < l => From(rs[k]) < From(rs[l])

LEMMA SplitIs ==
    ASSUME NEW s, Stamp(s)
    PROVE  /\ SplitHistoryRounds(s) \in Seq(Rounds(s)) /\ Rising(SplitHistoryRounds(s))
           /\ \A i \in 1 .. Len(s) : s[i].kind = "input" =>
                  \E k \in 1 .. Len(SplitHistoryRounds(s)) : From(SplitHistoryRounds(s)[k]) = i
<1>1. s \in Seq(Artifacts) /\ Len(s) \in Nat /\ DOMAIN s = 1 .. Len(s)
    BY LenProperties DEF Stamp
<1>2. PICK S : S = {i \in DOMAIN s : s[i].kind = "input"}
    OBVIOUS
<1>3. S \subseteq 1 .. Len(s)
    BY <1>1, <1>2
<1>4. PICK ss : ss = SplitHistoryRounds(s)
    OBVIOUS
<1>5. ss = CutAt(s, S)
    BY <1>2, <1>4 DEF SplitHistoryRounds
<1>6. ss \in Seq(Seq(Artifacts)) /\ \E b, e : Cuts(ss, s, S, b, e)
    BY <1>1, <1>3, <1>5, CutPlaces
<1>7. PICK b, e : Cuts(ss, s, S, b, e)
    BY <1>6
<1>8. Len(ss) \in Nat
    BY <1>6, LenProperties
<1>9. ASSUME NEW k \in 1 .. Len(ss)
      PROVE  ss[k] \in Rounds(s) /\ From(ss[k]) = b[k] /\ b[k] \in 1 .. Len(s) /\ e[k] \in b[k] .. Len(s)
    <2>1. /\ b[k] \in S /\ b[k] \in 1 .. Len(s) /\ e[k] \in b[k] .. Len(s)
          /\ ss[k] = SubSeq(s, b[k], e[k])
          /\ \A i \in b[k] + 1 .. e[k] : i \notin S
          /\ e[k] = Len(s) \/ e[k] + 1 \in S
        BY <1>7 DEF Cuts
    <2>2. RoundAt(s, ss[k], b[k], e[k])
        <3>1. \A i \in b[k] + 1 .. e[k] : i \in DOMAIN s
            BY <1>1, <2>1
        <3> QED BY <1>2, <2>1, <3>1 DEF RoundAt
    <2>3. ss[k] \in Seq(Artifacts)
        BY <1>6, ElementOfSeq
    <2>4. e[k] \in 1 .. Len(s)
        BY <1>1, <2>1
    <2>5. ss[k] \in Rounds(s)
        BY <2>1, <2>2, <2>3, <2>4 DEF Rounds
    <2>6. Len(ss[k]) \in Nat /\ 1 \in 1 .. Len(ss[k]) /\ ss[k][1] = s[b[k]]
        <3>1. IsCut(ss[k], s, b[k], e[k])
            BY <1>1, <2>1, CutOf
        <3>2. b[k] + 1 - 1 = b[k]
            BY <2>1
        <3> QED BY <3>1, <3>2 DEF IsCut
    <2>7. From(ss[k]) = b[k]
        BY <2>1, <2>6 DEF From, Stamp
    <2> QED BY <2>1, <2>5, <2>7
<1>10. ss \in Seq(Rounds(s))
    <2>1. ss \in [1 .. Len(ss) -> Rounds(s)]
        <3>1. ss = [k \in 1 .. Len(ss) |-> ss[k]]
            BY <1>6, LenProperties
        <3> QED BY <1>9, <3>1
    <2> QED BY <1>8, <2>1, ListOfLength
<1>11. Rising(ss)
    <2>1. ASSUME NEW k \in 1 .. Len(ss), NEW l \in 1 .. Len(ss), k < l
          PROVE  From(ss[k]) < From(ss[l])
        <3>1. e[k] < b[l]
            BY <1>7, <2>1 DEF Cuts
        <3>2. /\ From(ss[k]) = b[k] /\ b[k] \in 1 .. Len(s) /\ e[k] \in b[k] .. Len(s)
              /\ From(ss[l]) = b[l] /\ b[l] \in 1 .. Len(s)
            BY <1>9
        <3> QED BY <1>1, <3>1, <3>2
    <2> QED BY <2>1 DEF Rising
<1>12. ASSUME NEW i \in 1 .. Len(s), s[i].kind = "input"
       PROVE  \E k \in 1 .. Len(ss) : From(ss[k]) = i
    <2>1. i \in S
        BY <1>1, <1>2, <1>12
    <2>2. PICK k \in 1 .. Len(ss) : b[k] = i
        BY <1>7, <2>1 DEF Cuts
    <2> QED BY <1>9, <2>2
<1> QED BY <1>4, <1>10, <1>11, <1>12

\* The round at place i is the latest one of an input other than c.
Latest(s, i, c) ==
    /\ s[i].input # c
    /\ \A j \in i + 1 .. Len(s) : s[j].kind = "input" => s[j].input # s[i].input

LEMMA LatestIs ==
    ASSUME NEW s, Stamp(s), NEW c,
           NEW rs \in Seq(Rounds(s)), Rising(rs),
           \A i \in 1 .. Len(s) : s[i].kind = "input" => \E k \in 1 .. Len(rs) : From(rs[k]) = i
    PROVE  LET F == FilterLatestHistoryRounds(rs, c)
           IN  /\ F \in Seq(Rounds(s)) /\ Rising(F)
               /\ \A k \in 1 .. Len(F) : Latest(s, From(F[k]), c)
               /\ \A i \in 1 .. Len(s) : s[i].kind = "input" /\ Latest(s, i, c) =>
                      \E k \in 1 .. Len(F) : From(F[k]) = i
<1>1. PICK n : n = Len(rs)
    OBVIOUS
<1>2. n \in Nat /\ DOMAIN rs = 1 .. n /\ \A k \in 1 .. n : rs[k] \in Rounds(s)
    BY <1>1, LenProperties, ElementOfSeq
<1>3. PICK kept : kept = {k \in DOMAIN rs :
                   /\ rs[k][1].input # c
                   /\ \A j \in (k + 1)..Len(rs) :
                        rs[j][1].input # rs[k][1].input}
    OBVIOUS
<1>4. kept \subseteq 1 .. n
    BY <1>2, <1>3
<1>5. PICK o : o = PlacesIn(rs, kept)
    OBVIOUS
<1>6. Lists(o, kept)
    BY <1>2, <1>4, <1>5, PlacesAre
<1>7. /\ o \in Seq(kept) /\ Len(o) \in Nat /\ DOMAIN o = 1 .. Len(o)
      /\ \A p \in 1 .. Len(o) : o[p] \in kept /\ o[p] \in 1 .. n
    BY <1>4, <1>6, LenProperties, ElementOfSeq DEF Lists
<1>8. PICK F : F = FilterLatestHistoryRounds(rs, c)
    OBVIOUS
<1>9. F = [k \in 1 .. Len(o) |-> rs[o[k]]]
    BY <1>3, <1>5, <1>7, <1>8 DEF FilterLatestHistoryRounds
<1>10. F \in [1 .. Len(o) -> Rounds(s)] /\ \A k \in 1 .. Len(o) : F[k] = rs[o[k]]
    BY <1>2, <1>7, <1>9
<1>11. F \in Seq(Rounds(s)) /\ Len(F) = Len(o)
    BY <1>7, <1>10, ListOfLength
<1>12. Rising(F)
    <2>1. ASSUME NEW k \in 1 .. Len(F), NEW l \in 1 .. Len(F), k < l
          PROVE  From(F[k]) < From(F[l])
        <3>1. o[k] < o[l]
            BY <1>6, <1>11, <2>1 DEF Lists
        <3> QED BY <1>1, <1>7, <1>10, <1>11, <3>1 DEF Rising
    <2> QED BY <2>1 DEF Rising
<1>13. ASSUME NEW k \in 1 .. n
       PROVE  From(rs[k]) \in 1 .. Len(s) /\ s[From(rs[k])].kind = "input" /\ rs[k][1] = s[From(rs[k])]
    <2>1. rs[k] \in Rounds(s)
        BY <1>2
    <2>2. From(rs[k]) \in 1 .. Len(s) /\ s[From(rs[k])].kind = "input"
        BY <2>1, RoundPlaces
    <2>3. 1 \in 1 .. Len(rs[k]) /\ \A j \in 1 .. Len(rs[k]) : rs[k][j] = s[From(rs[k]) + j - 1]
        BY <2>1, RoundIs
    <2>4. From(rs[k]) + 1 - 1 = From(rs[k])
        BY <2>2
    <2> QED BY <2>2, <2>3, <2>4
<1>14. ASSUME NEW k \in 1 .. n
       PROVE  k \in kept <=> Latest(s, From(rs[k]), c)
    <2>1. ASSUME k \in kept PROVE Latest(s, From(rs[k]), c)
        <3>1. s[From(rs[k])].input # c
            BY <1>3, <1>13, <2>1
        <3>2. ASSUME NEW j \in From(rs[k]) + 1 .. Len(s), s[j].kind = "input"
              PROVE  s[j].input # s[From(rs[k])].input
            <4>0. Len(s) \in Nat
                BY LenProperties DEF Stamp
            <4>1. j \in 1 .. Len(s) /\ From(rs[k]) < j
                BY <1>13, <3>2, <4>0
            <4>2. PICK l \in 1 .. n : From(rs[l]) = j
                BY <1>1, <3>2, <4>1
            <4>3. k < l
                <5>1. CASE l < k
                    <6>1. From(rs[l]) < From(rs[k])
                        BY <1>1, <5>1 DEF Rising
                    <6> QED BY <1>13, <4>1, <4>2, <6>1
                <5>2. CASE l = k
                    BY <1>13, <4>1, <4>2, <5>2
                <5> QED BY <1>2, <5>1, <5>2
            <4>4. l \in (k + 1)..Len(rs)
                BY <1>1, <1>2, <4>3
            <4>5. rs[l][1].input # rs[k][1].input
                BY <1>3, <2>1, <4>4
            <4> QED BY <1>13, <4>2, <4>5
        <3> QED BY <3>1, <3>2 DEF Latest
    <2>2. ASSUME Latest(s, From(rs[k]), c) PROVE k \in kept
        <3>1. rs[k][1].input # c
            BY <1>13, <2>2 DEF Latest
        <3>2. ASSUME NEW j \in (k + 1)..Len(rs) PROVE rs[j][1].input # rs[k][1].input
            <4>0. Len(s) \in Nat
                BY LenProperties DEF Stamp
            <4>1. j \in 1 .. n /\ k < j
                BY <1>1, <1>2, <3>2
            <4>2. From(rs[k]) < From(rs[j])
                BY <1>1, <4>1 DEF Rising
            <4>3. From(rs[j]) \in From(rs[k]) + 1 .. Len(s) /\ s[From(rs[j])].kind = "input"
                BY <1>13, <4>0, <4>1, <4>2
            <4> QED BY <1>13, <2>2, <4>1, <4>3 DEF Latest
        <3> QED BY <1>2, <1>3, <3>1, <3>2
    <2> QED BY <2>1, <2>2
<1>15. \A k \in 1 .. Len(F) : Latest(s, From(F[k]), c)
    BY <1>7, <1>10, <1>11, <1>14
<1>16. ASSUME NEW i \in 1 .. Len(s), s[i].kind = "input", Latest(s, i, c)
       PROVE  \E k \in 1 .. Len(F) : From(F[k]) = i
    <2>1. PICK l \in 1 .. n : From(rs[l]) = i
        BY <1>1, <1>16
    <2>2. l \in kept
        BY <1>14, <1>16, <2>1
    <2>3. PICK p \in 1 .. Len(o) : o[p] = l
        BY <1>6, <2>2 DEF Lists
    <2> QED BY <1>10, <1>11, <2>1, <2>3
<1> QED BY <1>8, <1>11, <1>12, <1>15, <1>16

\* G: the latest rounds of every input but c, consecutive ones of an agent together.
Grouped(G, s, c) ==
    /\ G \in Seq(Seq(Rounds(s)))
    /\ \A g \in 1 .. Len(G) :
          /\ G[g] # <<>> /\ Rising(G[g])
          /\ \A k \in 1 .. Len(G[g]) : /\ G[g][k][1].owner = G[g][1][1].owner
                                       /\ Latest(s, From(G[g][k]), c)
    /\ \A g, h \in 1 .. Len(G) : g < h =>
          \A k \in 1 .. Len(G[g]), l \in 1 .. Len(G[h]) : From(G[g][k]) < From(G[h][l])
    /\ \A i \in 1 .. Len(s) : s[i].kind = "input" /\ Latest(s, i, c) =>
          \E g \in 1 .. Len(G) : \E k \in 1 .. Len(G[g]) : From(G[g][k]) = i

LEMMA GroupsAre ==
    ASSUME NEW s, Stamp(s), NEW c, NEW rs \in Seq(Rounds(s)), Rising(rs),
           \A k \in 1 .. Len(rs) : Latest(s, From(rs[k]), c),
           \A i \in 1 .. Len(s) : s[i].kind = "input" /\ Latest(s, i, c) =>
               \E k \in 1 .. Len(rs) : From(rs[k]) = i
    PROVE  Grouped(BuildHistoryRoundGroups(rs), s, c)
<1>1. PICK n, K, G : /\ n = Len(rs)
                     /\ K = {k \in DOMAIN rs : k = 1 \/ rs[k][1].owner # rs[k - 1][1].owner}
                     /\ G = BuildHistoryRoundGroups(rs)
    OBVIOUS
<1>2. n \in Nat /\ DOMAIN rs = 1 .. n /\ \A k \in 1 .. n : rs[k] \in Rounds(s)
    BY <1>1, LenProperties, ElementOfSeq
<1>3. K \subseteq 1 .. n
    BY <1>1, <1>2
<1>4. G = CutAt(rs, K)
    BY <1>1 DEF BuildHistoryRoundGroups
<1>5. G \in Seq(Seq(Rounds(s))) /\ \E b, e : Cuts(G, rs, K, b, e)
    <2>1. rs \in Seq(Rounds(s)) /\ K \subseteq 1 .. Len(rs)
        BY <1>1, <1>3
    <2>2. /\ CutAt(rs, K) \in Seq(Seq(Rounds(s)))
          /\ \E b, e : Cuts(CutAt(rs, K), rs, K, b, e)
        BY <2>1, CutPlaces
    <2> QED BY <1>4, <2>2
<1>6. PICK b, e : Cuts(G, rs, K, b, e)
    BY <1>5
<1>7. ASSUME NEW g \in 1 .. Len(G)
      PROVE  /\ b[g] \in 1 .. n /\ e[g] \in b[g] .. n /\ IsCut(G[g], rs, b[g], e[g])
             /\ \A i \in b[g] + 1 .. e[g] : i \notin K
    <2>1. /\ b[g] \in 1 .. Len(rs) /\ e[g] \in b[g] .. Len(rs)
          /\ G[g] = SubSeq(rs, b[g], e[g])
          /\ \A i \in b[g] + 1 .. e[g] : i \notin K
        BY <1>6 DEF Cuts
    <2>2. IsCut(G[g], rs, b[g], e[g])
        BY <2>1, CutOf
    <2> QED BY <1>1, <2>1, <2>2
<1>8. ASSUME NEW g \in 1 .. Len(G), NEW k \in 1 .. Len(G[g])
      PROVE  /\ G[g][k] = rs[b[g] + k - 1] /\ b[g] + k - 1 \in 1 .. n
             /\ b[g] + k - 1 \in b[g] .. e[g]
    <2>1. G[g][k] = rs[b[g] + k - 1] /\ b[g] + k - 1 \in b[g] .. e[g]
        BY <1>7 DEF IsCut
    <2>2. b[g] \in 1 .. n /\ e[g] \in b[g] .. n
        BY <1>7
    <2>3. b[g] + k - 1 \in 1 .. n
        BY <1>2, <2>1, <2>2
    <2> QED BY <2>1, <2>3
<1>9. ASSUME NEW g \in 1 .. Len(G)
      PROVE  G[g] # <<>> /\ Rising(G[g])
    <2>1. ASSUME NEW k \in 1 .. Len(G[g]), NEW l \in 1 .. Len(G[g]), k < l
          PROVE  From(G[g][k]) < From(G[g][l])
        <3>1. /\ G[g][k] = rs[b[g] + k - 1] /\ b[g] + k - 1 \in 1 .. n
              /\ G[g][l] = rs[b[g] + l - 1] /\ b[g] + l - 1 \in 1 .. n
            BY <1>8
        <3>2. b[g] + k - 1 < b[g] + l - 1
            BY <1>7, <2>1
        <3> QED BY <1>1, <3>1, <3>2 DEF Rising
    <2> QED BY <1>7, <2>1 DEF Rising, IsCut
<1>10. ASSUME NEW g \in 1 .. Len(G), NEW k \in 1 .. Len(G[g])
       PROVE  G[g][k][1].owner = G[g][1][1].owner /\ Latest(s, From(G[g][k]), c)
    <2>1. Latest(s, From(G[g][k]), c)
        BY <1>1, <1>8
    <2>0. PICK x, y : x = b[g] /\ y = e[g]
        OBVIOUS
    <2> DEFINE T == {j \in Nat : x + j <= y => rs[x + j][1].owner = rs[x][1].owner}
    <2>2. x \in Nat /\ y \in Nat /\ x >= 1 /\ y <= n /\ \A i \in x + 1 .. y : i \notin K
        BY <1>2, <1>7, <2>0
    <2>3. 0 \in T
        BY <2>2
    <2>4. ASSUME NEW j \in 0 .. n - 1, j \in T PROVE j + 1 \in T
        <3>0. j \in Nat
            BY <1>2
        <3>1. CASE x + (j + 1) <= y
            <4>1. x + (j + 1) \in x + 1 .. y /\ x + (j + 1) \in 1 .. n
                BY <1>2, <2>2, <3>0, <3>1
            <4>2. x + (j + 1) \notin K
                BY <2>2, <4>1
            <4>4. x + (j + 1) - 1 = x + j /\ x + (j + 1) # 1 /\ x + j <= y
                BY <2>2, <3>0, <3>1
            <4>3. rs[x + (j + 1)][1].owner = rs[x + (j + 1) - 1][1].owner
                <5>1. PICK w : w = x + (j + 1)
                    OBVIOUS
                <5>2. w \in DOMAIN rs /\ w \notin K
                    BY <1>2, <4>1, <4>2, <5>1
                <5>3. w # 1
                    BY <4>4, <5>1
                <5>4. rs[w][1].owner = rs[w - 1][1].owner
                    BY <1>1, <5>2, <5>3
                <5> QED BY <2>2, <3>0, <5>1, <5>4
            <4>5. rs[x + j][1].owner = rs[x][1].owner
                BY <2>4, <4>4
            <4> QED BY <3>0, <4>3, <4>4, <4>5
        <3>2. CASE ~(x + (j + 1) <= y)
            BY <3>0, <3>2
        <3> QED BY <3>1, <3>2
    <2> HIDE DEF T
    <2>5. \A j \in 0 .. n : j \in T
        BY <1>2, <2>3, <2>4, Induction
    <2>6. ASSUME NEW l \in 1 .. Len(G[g]) PROVE G[g][l][1].owner = rs[x][1].owner
        <3>1. G[g][l] = rs[b[g] + l - 1] /\ b[g] + l - 1 \in b[g] .. e[g]
            BY <1>8
        <3>2. PICK j : j = l - 1
            OBVIOUS
        <3>3. j \in 0 .. n /\ x + j = b[g] + l - 1 /\ x + j <= y
            BY <1>2, <2>0, <2>2, <3>1, <3>2
        <3>4. j \in T
            BY <2>5, <3>3
        <3>5. rs[x + j][1].owner = rs[x][1].owner
            BY <3>3, <3>4 DEF T
        <3> QED BY <3>1, <3>3, <3>5
    <2>7. 1 \in 1 .. Len(G[g])
        BY <1>7 DEF IsCut
    <2> QED BY <2>1, <2>6, <2>7
<1>11. ASSUME NEW g \in 1 .. Len(G), NEW h \in 1 .. Len(G), g < h,
              NEW k \in 1 .. Len(G[g]), NEW l \in 1 .. Len(G[h])
       PROVE  From(G[g][k]) < From(G[h][l])
    <2>1. e[g] < b[h]
        BY <1>6, <1>11 DEF Cuts
    <2>2. /\ G[g][k] = rs[b[g] + k - 1] /\ b[g] + k - 1 \in 1 .. n /\ b[g] + k - 1 \in b[g] .. e[g]
          /\ G[h][l] = rs[b[h] + l - 1] /\ b[h] + l - 1 \in 1 .. n /\ b[h] + l - 1 \in b[h] .. e[h]
        BY <1>8
    <2>3. b[g] \in 1 .. n /\ e[g] \in b[g] .. n /\ b[h] \in 1 .. n
        BY <1>7
    <2>4. b[g] + k - 1 < b[h] + l - 1
        BY <1>2, <2>1, <2>2, <2>3
    <2> QED BY <1>1, <2>2, <2>4 DEF Rising
<1>12. ASSUME NEW i \in 1 .. Len(s), s[i].kind = "input", Latest(s, i, c)
       PROVE  \E g \in 1 .. Len(G) : \E k \in 1 .. Len(G[g]) : From(G[g][k]) = i
    <2>1. PICK l \in 1 .. n : From(rs[l]) = i
        BY <1>1, <1>12
    <2>2. 1 \in K
        BY <1>1, <1>2, <2>1
    <2>3. PICK g \in 1 .. Len(G) : l \in b[g] .. e[g]
        BY <1>1, <1>3, <1>6, <2>1, <2>2, CutCovers
    <2>4. l - b[g] + 1 \in 1 .. Len(G[g]) /\ G[g][l - b[g] + 1] = rs[l]
        BY <1>7, <2>3 DEF IsCut
    <2> QED BY <2>1, <2>4
<1>13. Grouped(G, s, c)
    BY <1>5, <1>9, <1>10, <1>11, <1>12 DEF Grouped
<1> QED BY <1>1, <1>13

-----------------------------------------------------------------------------
(* Messages, and what one artifact is told as.                              *)

Notes == [src : Nat, call : Nat, stale : BOOLEAN]
Msgs  == [role : {"user", "tool", "assistant"}, src : Nat, calls : Seq(Calls), call : Nat,
          group : Seq(Notes), stale : BOOLEAN]

Noted(m) == [src |-> m.src, call |-> m.call, stale |-> m.stale]

\* What an artifact is told as, a message is read as and carries of others.
InMessages == [a \in Artifacts |-> ArtifactToMessages(a)]
Read       == [m \in Msgs |-> Append(m.group, Noted(m))]
Carried    == [m \in Msgs |-> m.group]

Reports(a) == a.kind = "change" /\ a.why = "report"

\* m tells the artifact a, and nothing of others.
Says(m, a) ==
    /\ m.src = a.src /\ m.calls = a.calls /\ m.call = a.call /\ m.group = <<>>
    /\ m.role = "tool" <=> a.kind = "result"
    /\ a.kind = "result" => m.stale = (a.call \in expired)

LEMMA ArtifactTold ==
    ASSUME NEW a \in Artifacts
    PROVE  /\ Reports(a) => ArtifactToMessages(a) = <<>>
           /\ ~Reports(a) => \E m \in Msgs : ArtifactToMessages(a) = <<m>> /\ Says(m, a)
<1>1. <<>> \in Seq(Notes)
    OBVIOUS
<1>2. /\ a.src \in Nat /\ a.calls \in Seq(Calls) /\ a.call \in Nat
    BY DEF Artifacts
<1>3. ASSUME NEW role \in {"user", "tool", "assistant"}
      PROVE  /\ Message(role, a) \in Msgs
             /\ Message(role, a).role = role /\ Message(role, a).src = a.src
             /\ Message(role, a).calls = a.calls /\ Message(role, a).call = a.call
             /\ Message(role, a).group = <<>>
    BY <1>1, <1>2 DEF Message, Msgs
<1>4. CASE a.kind = "input"
    <2>1. ArtifactToMessages(a) = <<Message("user", a)>> /\ ~Reports(a)
        BY <1>4 DEF ArtifactToMessages, Reports
    <2>2. Says(Message("user", a), a)
        BY <1>3, <1>4 DEF Says
    <2> QED BY <1>3, <2>1, <2>2
<1>5. CASE a.kind = "result"
    <2>1. PICK m : m = [Message("tool", a) EXCEPT !.stale = a.call \in expired]
        OBVIOUS
    <2>2. ArtifactToMessages(a) = <<m>> /\ ~Reports(a)
        BY <1>5, <2>1 DEF ArtifactToMessages, Reports
    <2>3. m = [role |-> "tool", src |-> a.src, calls |-> a.calls, call |-> a.call,
               group |-> <<>>, stale |-> a.call \in expired]
        BY <2>1 DEF Message
    <2>4. m \in Msgs /\ Says(m, a)
        BY <1>1, <1>2, <1>5, <2>3 DEF Msgs, Says
    <2> QED BY <2>2, <2>4
<1>6. CASE Reports(a)
    BY <1>6 DEF ArtifactToMessages, Reports
<1>7. CASE a.kind # "input" /\ a.kind # "result" /\ ~Reports(a)
    <2>1. ArtifactToMessages(a) = <<Message("assistant", a)>>
        BY <1>7 DEF ArtifactToMessages, Reports
    <2>2. Says(Message("assistant", a), a)
        BY <1>3, <1>7 DEF Says
    <2> QED BY <1>3, <1>7, <2>1, <2>2
<1> QED BY <1>4, <1>5, <1>6, <1>7

LEMMA InMessagesTells == Tells(InMessages, Artifacts, Msgs)
<1>1. ASSUME NEW a \in Artifacts PROVE ArtifactToMessages(a) \in Seq(Msgs)
    <2>1. CASE Reports(a)
        <3>1. <<>> \in Seq(Msgs)
            OBVIOUS
        <3> QED BY <2>1, <3>1, ArtifactTold
    <2>2. CASE ~Reports(a)
        <3>1. PICK m \in Msgs : ArtifactToMessages(a) = <<m>>
            BY <2>2, ArtifactTold
        <3> QED BY <3>1
    <2> QED BY <2>1, <2>2
<1> QED BY <1>1 DEF Tells, InMessages

LEMMA ReadTells ==
    /\ Tells(Read, Msgs, Notes)
    /\ Tells(Carried, Msgs, Notes)
    /\ \A m \in Msgs : /\ Noted(m) \in Notes
                       /\ Read[m] = Append(m.group, Noted(m)) /\ Read[m] = m.group \o <<Noted(m)>>
                       /\ Carried[m] = m.group /\ m.group \in Seq(Notes)
<1>1. ASSUME NEW m \in Msgs
      PROVE  /\ Noted(m) \in Notes /\ m.group \in Seq(Notes)
             /\ Append(m.group, Noted(m)) \in Seq(Notes)
             /\ Append(m.group, Noted(m)) = m.group \o <<Noted(m)>>
    <2>1. Noted(m) \in Notes
        BY DEF Noted, Notes, Msgs
    <2>2. m.group \in Seq(Notes)
        BY DEF Msgs
    <2> QED BY <2>1, <2>2, AppendProperties, AppendIsConcat
<1> QED BY <1>1 DEF Tells, Read, Carried

\* The messages ms tell the artifacts q one by one; a report at the end is not told.
TellsAll(ms, q) ==
    /\ ms \in Seq(Msgs) /\ Len(ms) \in Nat /\ Len(ms) <= Len(q)
    /\ Len(ms) # Len(q) => Len(ms) = Len(q) - 1 /\ Reports(q[Len(q)])
    /\ \A i \in 1 .. Len(ms) : Says(ms[i], q[i])

LEMMA AllTold ==
    ASSUME NEW q \in Seq(Artifacts), \A i \in 1 .. Len(q) - 1 : ~Reports(q[i])
    PROVE  TellsAll(Spread(InMessages, q), q)
<1>1. Len(q) \in Nat /\ \A i \in 1 .. Len(q) : q[i] \in Artifacts
    BY LenProperties, ElementOfSeq
<1>2. ASSUME NEW p \in Seq(Artifacts), \A i \in 1 .. Len(p) : ~Reports(p[i])
      PROVE  /\ Spread(InMessages, p) \in Seq(Msgs) /\ Len(Spread(InMessages, p)) = Len(p)
             /\ \A i \in 1 .. Len(p) : Says(Spread(InMessages, p)[i], p[i])
    <2>1. ASSUME NEW i \in 1 .. Len(p)
          PROVE  Len(InMessages[p[i]]) = 1 /\ Says(InMessages[p[i]][1], p[i])
        <3>1. p[i] \in Artifacts /\ ~Reports(p[i])
            BY <1>2, ElementOfSeq
        <3>2. PICK m \in Msgs : ArtifactToMessages(p[i]) = <<m>> /\ Says(m, p[i])
            BY <3>1, ArtifactTold
        <3>3. InMessages[p[i]] = <<m>>
            BY <3>1, <3>2 DEF InMessages
        <3> QED BY <3>2, <3>3
    <2>2. Spread(InMessages, p) \in Seq(Msgs)
        BY InMessagesTells, SpreadTyped
    <2>3. /\ Len(Spread(InMessages, p)) = Len(p)
          /\ \A i \in 1 .. Len(p) : Spread(InMessages, p)[i] = InMessages[p[i]][1]
        BY <2>1, InMessagesTells, SpreadSingles
    <2> QED BY <2>1, <2>2, <2>3
<1>3. CASE \A i \in 1 .. Len(q) : ~Reports(q[i])
    <2>1. /\ Spread(InMessages, q) \in Seq(Msgs) /\ Len(Spread(InMessages, q)) = Len(q)
          /\ \A i \in 1 .. Len(q) : Says(Spread(InMessages, q)[i], q[i])
        BY <1>2, <1>3
    <2> QED BY <1>1, <2>1 DEF TellsAll
<1>4. CASE \E i \in 1 .. Len(q) : Reports(q[i])
    <2>1. Len(q) \in 1 .. Len(q) /\ Reports(q[Len(q)]) /\ Len(q) - 1 \in 0 .. Len(q) - 1
        BY <1>1, <1>4
    <2>2. PICK n, p, x : n = Len(q) - 1 /\ p = SubSeq(q, 1, n) /\ x = q[n + 1]
        OBVIOUS
    <2>3. /\ x \in Artifacts /\ p \in Seq(Artifacts) /\ q = Append(p, x) /\ Reports(x)
          /\ Len(q) = n + 1 /\ n \in Nat
        <3>1. /\ SubSeq(q, 1, Len(q)) = q
              /\ \A i \in 0 .. Len(q) - 1 : /\ q[i + 1] \in Artifacts
                                            /\ SubSeq(q, 1, i) \in Seq(Artifacts)
                                            /\ SubSeq(q, 1, i + 1) = Append(SubSeq(q, 1, i), q[i + 1])
            BY Prefixed
        <3>2. n \in 0 .. Len(q) - 1 /\ n + 1 = Len(q) /\ n \in Nat
            BY <1>1, <2>1, <2>2
        <3> QED BY <2>1, <2>2, <3>1, <3>2
    <2>4. Len(p) = n /\ \A i \in 1 .. n : p[i] = q[i]
        BY <2>3, AppendProperties
    <2>5. \A i \in 1 .. Len(p) : ~Reports(p[i])
        BY <2>3, <2>4
    <2>6. PICK F : F = Spread(InMessages, p)
        OBVIOUS
    <2>7. F \in Seq(Msgs) /\ Len(F) = n /\ \A i \in 1 .. n : Says(F[i], p[i])
        BY <1>2, <2>3, <2>4, <2>5, <2>6
    <2>8. Spread(InMessages, q) = F
        <3>1. q = p \o <<x>> /\ <<x>> \in Seq(Artifacts)
            BY <2>3, AppendIsConcat
        <3>2. Spread(InMessages, <<x>>) = <<>>
            <4>1. Spread(InMessages, <<x>>) = InMessages[x]
                BY <2>3, InMessagesTells, SpreadOne
            <4>2. InMessages[x] = <<>>
                BY <2>3, ArtifactTold DEF InMessages
            <4> QED BY <4>1, <4>2
        <3>3. Spread(InMessages, q) = F \o <<>>
            <4>1. PICK z : z = <<x>>
                OBVIOUS
            <4>2. Spread(InMessages, p \o z) = Spread(InMessages, p) \o Spread(InMessages, z)
                <5>1. p \in Seq(Artifacts) /\ z \in Seq(Artifacts)
                    BY <2>3, <3>1, <4>1
                <5> QED BY <5>1, InMessagesTells, SpreadConcat
            <4> QED BY <2>6, <3>1, <3>2, <4>1, <4>2
        <3> QED BY <2>7, <3>3, ConcatEmptySeq
    <2>9. \A i \in 1 .. n : Says(F[i], q[i])
        BY <2>4, <2>7
    <2> QED BY <2>1, <2>3, <2>7, <2>8, <2>9 DEF TellsAll
<1> QED BY <1>3, <1>4

-----------------------------------------------------------------------------
(* Calls and their results.                                                 *)

LEMMA ExecutedIs ==
    ASSUME NEW calls \in Seq(Calls)
    PROVE  /\ \A k \in Executed(calls) : k \in Nat /\ k >= 1 /\ k <= Len(calls)
           /\ \A k \in Executed(calls) : \A j \in 1 .. k : j \in Executed(calls)
           /\ calls = <<>> => Executed(calls) = {}
           /\ calls # <<>> => 1 \in Executed(calls)
<1>1. Len(calls) \in Nat /\ DOMAIN calls = 1 .. Len(calls)
    BY LenProperties
<1>2. \A k \in Executed(calls) : k \in 1 .. Len(calls) /\ k \in Nat
    BY <1>1 DEF Executed
<1>3. ASSUME NEW k \in Executed(calls), NEW j \in 1 .. k PROVE j \in Executed(calls)
    <2>1. j \in DOMAIN calls
        BY <1>1, <1>2
    <2>2. \A i \in 1 .. (k - 1) : ~Switches(calls[i])
        BY DEF Executed
    <2>3. \A i \in 1 .. (j - 1) : i \in 1 .. (k - 1)
        BY <1>2
    <2> QED BY <2>1, <2>2, <2>3 DEF Executed
<1>4. ASSUME calls = <<>> PROVE Executed(calls) = {}
    BY <1>1, <1>2, <1>4
<1>5. ASSUME calls # <<>> PROVE 1 \in Executed(calls)
    <2>1. 1 \in DOMAIN calls
        BY <1>1, <1>5, EmptySeq
    <2> QED BY <2>1 DEF Executed
<1> QED BY <1>2, <1>3, <1>4, <1>5

\* Every call up to the change of control is answered in order by the results that
\* follow it, and no result stands elsewhere: of artifacts, and of messages.
Paired(s) ==
    /\ \A i \in 1 .. Len(s) : \A k \in Executed(s[i].calls) :
          i + k <= Len(s) /\ s[i + k].kind = "result" /\ s[i + k].call = s[i].calls[k].id
    /\ \A j \in 1 .. Len(s) : s[j].kind = "result" =>
          \E i \in 1 .. (j - 1) : j - i \in Executed(s[i].calls)

Answers(s) ==
    /\ \A i \in 1 .. Len(s) : \A k \in Executed(s[i].calls) :
          i + k <= Len(s) /\ s[i + k].role = "tool" /\ s[i + k].call = s[i].calls[k].id
    /\ \A j \in 1 .. Len(s) : s[j].role = "tool" =>
          \E i \in 1 .. (j - 1) : j - i \in Executed(s[i].calls)

LEMMA PairedConcat ==
    ASSUME NEW s \in Seq(Artifacts), NEW t \in Seq(Artifacts), Paired(s), Paired(t)
    PROVE  Paired(s \o t)
<1>1. PICK u, n, m : u = s \o t /\ n = Len(s) /\ m = Len(t)
    OBVIOUS
<1>2. /\ n \in Nat /\ m \in Nat /\ u \in Seq(Artifacts) /\ Len(u) = n + m
      /\ \A i \in 1 .. n + m : u[i] = IF i <= n THEN s[i] ELSE t[i - n]
    BY <1>1, ConcatProperties, LenProperties
<1>3. \A i \in 1 .. n + m : u[i].calls \in Seq(Calls)
    <2>1. \A i \in 1 .. n + m : u[i] \in Artifacts
        BY <1>2, ElementOfSeq
    <2> QED BY <2>1 DEF Artifacts
<1>4. ASSUME NEW i \in 1 .. n + m, NEW k \in Executed(u[i].calls)
      PROVE  i + k <= n + m /\ u[i + k].kind = "result" /\ u[i + k].call = u[i].calls[k].id
    <2>0. k \in Nat /\ k >= 1
        BY <1>3, <1>4, ExecutedIs
    <2>1. CASE i <= n
        <3>1. u[i] = s[i] /\ i \in 1 .. n
            BY <1>2, <2>1
        <3>2. i + k <= n /\ s[i + k].kind = "result" /\ s[i + k].call = s[i].calls[k].id
            BY <1>1, <1>4, <3>1 DEF Paired
        <3>3. u[i + k] = s[i + k]
            BY <1>2, <2>0, <3>1, <3>2
        <3> QED BY <1>2, <2>0, <3>1, <3>2, <3>3
    <2>2. CASE ~(i <= n)
        <3>1. u[i] = t[i - n] /\ i - n \in 1 .. m
            BY <1>2, <2>2
        <3>2. /\ (i - n) + k <= m /\ t[(i - n) + k].kind = "result"
              /\ t[(i - n) + k].call = t[i - n].calls[k].id
            BY <1>1, <1>4, <3>1 DEF Paired
        <3>3. i + k \in 1 .. n + m /\ ~(i + k <= n) /\ (i + k) - n = (i - n) + k
            BY <1>2, <2>0, <2>2, <3>2
        <3>4. u[i + k] = t[(i - n) + k]
            BY <1>2, <3>3
        <3> QED BY <3>1, <3>2, <3>3, <3>4
    <2> QED BY <2>1, <2>2
<1>5. ASSUME NEW j \in 1 .. n + m, u[j].kind = "result"
      PROVE  \E i \in 1 .. (j - 1) : j - i \in Executed(u[i].calls)
    <2>1. CASE j <= n
        <3>1. u[j] = s[j] /\ j \in 1 .. n
            BY <1>2, <2>1
        <3>2. PICK i \in 1 .. (j - 1) : j - i \in Executed(s[i].calls)
            BY <1>1, <1>5, <3>1 DEF Paired
        <3>3. u[i] = s[i]
            BY <1>2, <3>1
        <3> QED BY <3>2, <3>3
    <2>2. CASE ~(j <= n)
        <3>1. u[j] = t[j - n] /\ j - n \in 1 .. m
            BY <1>2, <2>2
        <3>2. PICK i \in 1 .. ((j - n) - 1) : (j - n) - i \in Executed(t[i].calls)
            BY <1>1, <1>5, <3>1 DEF Paired
        <3>3. PICK l : l = n + i
            OBVIOUS
        <3>4. l \in 1 .. (j - 1) /\ l \in 1 .. n + m /\ ~(l <= n) /\ l - n = i /\ j - l = (j - n) - i
            BY <1>2, <2>2, <3>1, <3>3
        <3>5. u[l] = t[i]
            BY <1>2, <3>4
        <3> QED BY <3>2, <3>4, <3>5
    <2> QED BY <2>1, <2>2
<1>6. Paired(u)
    BY <1>2, <1>4, <1>5 DEF Paired
<1> QED BY <1>1, <1>6

LEMMA AnswersConcat ==
    ASSUME NEW s \in Seq(Msgs), NEW t \in Seq(Msgs), Answers(s), Answers(t)
    PROVE  Answers(s \o t)
<1>1. PICK u, n, m : u = s \o t /\ n = Len(s) /\ m = Len(t)
    OBVIOUS
<1>2. /\ n \in Nat /\ m \in Nat /\ u \in Seq(Msgs) /\ Len(u) = n + m
      /\ \A i \in 1 .. n + m : u[i] = IF i <= n THEN s[i] ELSE t[i - n]
    BY <1>1, ConcatProperties, LenProperties
<1>3. \A i \in 1 .. n + m : u[i].calls \in Seq(Calls)
    <2>1. \A i \in 1 .. n + m : u[i] \in Msgs
        BY <1>2, ElementOfSeq
    <2> QED BY <2>1 DEF Msgs
<1>4. ASSUME NEW i \in 1 .. n + m, NEW k \in Executed(u[i].calls)
      PROVE  i + k <= n + m /\ u[i + k].role = "tool" /\ u[i + k].call = u[i].calls[k].id
    <2>0. k \in Nat /\ k >= 1
        BY <1>3, <1>4, ExecutedIs
    <2>1. CASE i <= n
        <3>1. u[i] = s[i] /\ i \in 1 .. n
            BY <1>2, <2>1
        <3>2. i + k <= n /\ s[i + k].role = "tool" /\ s[i + k].call = s[i].calls[k].id
            BY <1>1, <1>4, <3>1 DEF Answers
        <3>3. u[i + k] = s[i + k]
            BY <1>2, <2>0, <3>1, <3>2
        <3> QED BY <1>2, <2>0, <3>1, <3>2, <3>3
    <2>2. CASE ~(i <= n)
        <3>1. u[i] = t[i - n] /\ i - n \in 1 .. m
            BY <1>2, <2>2
        <3>2. /\ (i - n) + k <= m /\ t[(i - n) + k].role = "tool"
              /\ t[(i - n) + k].call = t[i - n].calls[k].id
            BY <1>1, <1>4, <3>1 DEF Answers
        <3>3. i + k \in 1 .. n + m /\ ~(i + k <= n) /\ (i + k) - n = (i - n) + k
            BY <1>2, <2>0, <2>2, <3>2
        <3>4. u[i + k] = t[(i - n) + k]
            BY <1>2, <3>3
        <3> QED BY <3>1, <3>2, <3>3, <3>4
    <2> QED BY <2>1, <2>2
<1>5. ASSUME NEW j \in 1 .. n + m, u[j].role = "tool"
      PROVE  \E i \in 1 .. (j - 1) : j - i \in Executed(u[i].calls)
    <2>1. CASE j <= n
        <3>1. u[j] = s[j] /\ j \in 1 .. n
            BY <1>2, <2>1
        <3>2. PICK i \in 1 .. (j - 1) : j - i \in Executed(s[i].calls)
            BY <1>1, <1>5, <3>1 DEF Answers
        <3>3. u[i] = s[i]
            BY <1>2, <3>1
        <3> QED BY <3>2, <3>3
    <2>2. CASE ~(j <= n)
        <3>1. u[j] = t[j - n] /\ j - n \in 1 .. m
            BY <1>2, <2>2
        <3>2. PICK i \in 1 .. ((j - n) - 1) : (j - n) - i \in Executed(t[i].calls)
            BY <1>1, <1>5, <3>1 DEF Answers
        <3>3. PICK l : l = n + i
            OBVIOUS
        <3>4. l \in 1 .. (j - 1) /\ l \in 1 .. n + m /\ ~(l <= n) /\ l - n = i /\ j - l = (j - n) - i
            BY <1>2, <2>2, <3>1, <3>3
        <3>5. u[l] = t[i]
            BY <1>2, <3>4
        <3> QED BY <3>2, <3>4, <3>5
    <2> QED BY <2>1, <2>2
<1>6. Answers(u)
    BY <1>2, <1>4, <1>5 DEF Answers
<1> QED BY <1>1, <1>6

LEMMA SaidAnswers ==
    ASSUME NEW q \in Seq(Artifacts), NEW ms, TellsAll(ms, q), Paired(q)
    PROVE  Answers(ms)
<1>1. PICK n, m : n = Len(q) /\ m = Len(ms)
    OBVIOUS
<1>2. /\ n \in Nat /\ m \in Nat /\ m <= n /\ \A i \in 1 .. n : q[i] \in Artifacts
      /\ m # n => m = n - 1 /\ q[n].kind = "change"
      /\ \A i \in 1 .. m : Says(ms[i], q[i])
    BY <1>1, LenProperties, ElementOfSeq DEF TellsAll, Reports
<1>3. ASSUME NEW i \in 1 .. m, NEW k \in Executed(ms[i].calls)
      PROVE  i + k <= m /\ ms[i + k].role = "tool" /\ ms[i + k].call = ms[i].calls[k].id
    <2>1. ms[i].calls = q[i].calls /\ i \in 1 .. n /\ q[i].calls \in Seq(Calls)
        BY <1>2 DEF Says, Artifacts
    <2>2. i + k <= n /\ q[i + k].kind = "result" /\ q[i + k].call = q[i].calls[k].id
        BY <1>1, <1>3, <2>1 DEF Paired
    <2>3. k \in Nat /\ k >= 1
        BY <1>3, <2>1, ExecutedIs
    <2>4. i + k <= m
        <3>1. i + k # n \/ m = n
            BY <1>2, <2>2
        <3> QED BY <1>2, <2>2, <2>3, <3>1
    <2>5. i + k \in 1 .. m
        BY <1>2, <2>3, <2>4
    <2>6. Says(ms[i + k], q[i + k])
        BY <1>2, <2>5
    <2> QED BY <2>1, <2>2, <2>4, <2>6 DEF Says
<1>4. ASSUME NEW j \in 1 .. m, ms[j].role = "tool"
      PROVE  \E i \in 1 .. (j - 1) : j - i \in Executed(ms[i].calls)
    <2>1. q[j].kind = "result" /\ j \in 1 .. n
        BY <1>2, <1>4 DEF Says
    <2>2. PICK i \in 1 .. (j - 1) : j - i \in Executed(q[i].calls)
        BY <1>1, <2>1 DEF Paired
    <2>3. i \in 1 .. m
        BY <1>2
    <2>4. ms[i].calls = q[i].calls
        BY <1>2, <2>3 DEF Says
    <2> QED BY <2>2, <2>4
<1> QED BY <1>1, <1>3, <1>4 DEF Answers

\* What is cut out of a paired list is paired, if no result stands where it is cut.
LEMMA PairedCut ==
    ASSUME NEW s \in Seq(Artifacts), Paired(s), NEW b \in 1 .. Len(s), NEW e \in b .. Len(s),
           s[b].kind # "result", e = Len(s) \/ s[e + 1].kind # "result",
           NEW r, IsCut(r, s, b, e)
    PROVE  Paired(r)
<1>1. PICK n, m : n = Len(s) /\ m = Len(r)
    OBVIOUS
<1>2. /\ n \in Nat /\ m \in Nat /\ m = e - b + 1 /\ b \in Nat /\ e \in Nat /\ 1 <= b /\ b <= e /\ e <= n
      /\ \A j \in 1 .. m : r[j] = s[b + j - 1] /\ b + j - 1 \in b .. e
      /\ \A i \in 1 .. n : s[i].calls \in Seq(Calls)
    <2>1. n \in Nat /\ \A i \in 1 .. n : s[i] \in Artifacts
        BY <1>1, LenProperties, ElementOfSeq
    <2>2. \A i \in 1 .. n : s[i].calls \in Seq(Calls)
        BY <2>1 DEF Artifacts
    <2>3. /\ m \in Nat /\ m = e - b + 1 /\ b \in Nat /\ e \in Nat
          /\ \A j \in 1 .. m : r[j] = s[b + j - 1] /\ b + j - 1 \in b .. e
        BY <1>1 DEF IsCut
    <2> QED BY <1>1, <2>1, <2>2, <2>3
<1>3. ASSUME NEW i \in 1 .. m, NEW k \in Executed(r[i].calls)
      PROVE  i + k <= m /\ r[i + k].kind = "result" /\ r[i + k].call = r[i].calls[k].id
    <2>1. PICK l : l = b + i - 1
        OBVIOUS
    <2>2. r[i] = s[l] /\ l \in b .. e /\ l \in 1 .. n /\ i = l - b + 1
        BY <1>2, <2>1
    <2>3. l + k <= n /\ s[l + k].kind = "result" /\ s[l + k].call = s[l].calls[k].id
        BY <1>1, <1>3, <2>2 DEF Paired
    <2>4. /\ k \in Nat /\ k >= 1
          /\ \A j \in 1 .. k : j \in Executed(s[l].calls)
        BY <1>2, <1>3, <2>2, ExecutedIs
    <2>5. l + k <= e
        <3>1. SUFFICES ASSUME ~(l + k <= e) PROVE FALSE
            OBVIOUS
        <3>2. PICK j : j = e + 1 - l
            OBVIOUS
        <3>3. j \in 1 .. k /\ l + j = e + 1 /\ e # n
            BY <1>2, <2>2, <2>3, <2>4, <3>1, <3>2
        <3>4. s[l + j].kind = "result"
            BY <1>1, <2>2, <2>4, <3>3 DEF Paired
        <3> QED BY <1>1, <3>3, <3>4
    <2>6. i + k \in 1 .. m /\ b + (i + k) - 1 = l + k
        BY <1>2, <2>1, <2>2, <2>4, <2>5
    <2>7. r[i + k] = s[l + k]
        BY <1>2, <2>6
    <2> QED BY <1>2, <2>2, <2>3, <2>6, <2>7
<1>4. ASSUME NEW j \in 1 .. m, r[j].kind = "result"
      PROVE  \E i \in 1 .. (j - 1) : j - i \in Executed(r[i].calls)
    <2>1. PICK l : l = b + j - 1
        OBVIOUS
    <2>2. r[j] = s[l] /\ l \in b .. e /\ l \in 1 .. n /\ l \in Nat
        BY <1>2, <2>1
    <2>3. PICK i \in 1 .. (l - 1) : l - i \in Executed(s[i].calls)
        BY <1>1, <1>4, <2>2 DEF Paired
    <2>4. /\ i \in 1 .. n /\ i \in Nat
          /\ \A k \in 1 .. (l - i) : k \in Executed(s[i].calls)
        <3>1. i \in 1 .. n /\ i \in Nat
            BY <1>2, <2>2, <2>3
        <3>2. s[i].calls \in Seq(Calls)
            BY <1>2, <3>1
        <3> QED BY <2>3, <3>1, <3>2, ExecutedIs
    <2>5. b <= i
        <3>1. SUFFICES ASSUME i < b PROVE FALSE
            BY <1>2, <2>4
        <3>2. PICK k : k = b - i
            OBVIOUS
        <3>3. k \in 1 .. (l - i) /\ i + k = b
            BY <1>2, <2>2, <2>4, <3>1, <3>2
        <3>4. s[i + k].kind = "result"
            BY <1>1, <2>4, <3>3 DEF Paired
        <3> QED BY <3>3, <3>4
    <2>6. PICK x : x = i - b + 1
        OBVIOUS
    <2>7. x \in 1 .. (j - 1) /\ x \in 1 .. m /\ b + x - 1 = i /\ j - x = l - i
        BY <1>2, <2>1, <2>2, <2>3, <2>4, <2>5, <2>6
    <2>8. r[x] = s[i]
        BY <1>2, <2>7
    <2> QED BY <2>3, <2>7, <2>8
<1> QED BY <1>1, <1>3, <1>4 DEF Paired

\* The messages ms are m, which may carry what others did, and rest, which carries nothing.
Headed(ms, m, rest) ==
    /\ ms \in Seq(Msgs) /\ Len(rest) \in Nat /\ Len(ms) = Len(rest) + 1
    /\ ms[1] = m /\ \A i \in 1 .. Len(rest) : ms[i + 1] = rest[i]
    /\ Spread(Carried, ms) = m.group
    /\ \E own \in Seq(Notes) :
          /\ Spread(Read, ms) = m.group \o own
          /\ Len(own) = Len(ms) /\ \A i \in 1 .. Len(ms) : own[i] = Noted(ms[i])

LEMMA HeadAndRest ==
    ASSUME NEW m \in Msgs, NEW rest \in Seq(Msgs), \A i \in 1 .. Len(rest) : rest[i].group = <<>>,
           NEW ms, ms = <<m>> \o rest
    PROVE  Headed(ms, m, rest)
<1>1. PICK h, n : h = <<m>> /\ n = Len(rest)
    OBVIOUS
<1>2. h \in Seq(Msgs) /\ Len(h) = 1 /\ h[1] = m /\ n \in Nat /\ ms = h \o rest
    BY <1>1, LenProperties
<1>3. /\ ms \in Seq(Msgs) /\ Len(ms) = n + 1
      /\ \A i \in 1 .. n + 1 : ms[i] = IF i <= 1 THEN h[i] ELSE rest[i - 1]
    BY <1>1, <1>2, ConcatProperties
<1>4. ms[1] = m
    <2>1. 1 \in 1 .. n + 1
        BY <1>2
    <2> QED BY <1>2, <1>3, <2>1
<1>5. ASSUME NEW i \in 1 .. n PROVE ms[i + 1] = rest[i]
    <2>1. i + 1 \in 1 .. n + 1 /\ ~(i + 1 <= 1) /\ (i + 1) - 1 = i
        BY <1>2
    <2>2. PICK j : j = i + 1
        OBVIOUS
    <2>3. ms[j] = rest[j - 1]
        BY <1>3, <2>1, <2>2
    <2> QED BY <2>1, <2>2, <2>3
<1>6. \A i \in 1 .. n : rest[i] \in Msgs /\ rest[i].group = <<>>
    BY <1>1, ElementOfSeq
<1>7. Spread(Carried, ms) = m.group
    <2>1. Spread(Carried, ms) = Spread(Carried, h) \o Spread(Carried, rest)
        <3>1. Tells(Carried, Msgs, Notes)
            BY ReadTells
        <3>2. h \in Seq(Msgs)
            BY <1>2
        <3>3. Spread(Carried, h \o rest) = Spread(Carried, h) \o Spread(Carried, rest)
            BY <3>1, <3>2, SpreadConcat
        <3> QED BY <1>2, <3>3
    <2>2. Spread(Carried, h) = m.group
        <3>1. Spread(Carried, <<m>>) = Carried[m]
            BY ReadTells, SpreadOne
        <3> QED BY <1>1, <3>1, ReadTells
    <2>3. Spread(Carried, rest) = <<>>
        <3>1. \A i \in 1 .. Len(rest) : Carried[rest[i]] = <<>>
            BY <1>1, <1>6, ReadTells
        <3> QED BY <3>1, ReadTells, SpreadNothing
    <2>4. m.group \in Seq(Notes)
        BY ReadTells
    <2> QED BY <2>1, <2>2, <2>3, <2>4, ConcatEmptySeq
<1>8. PICK z, x : z = Spread(Read, rest) /\ x = <<Noted(m)>>
    OBVIOUS
<1>9. /\ z \in Seq(Notes) /\ Len(z) = n /\ \A i \in 1 .. n : z[i] = Noted(rest[i])
    <2>1. \A i \in 1 .. n : Len(Read[rest[i]]) = 1 /\ Read[rest[i]][1] = Noted(rest[i])
        <3>1. ASSUME NEW i \in 1 .. n
              PROVE  Len(Read[rest[i]]) = 1 /\ Read[rest[i]][1] = Noted(rest[i])
            <4>1. Read[rest[i]] = Append(rest[i].group, Noted(rest[i]))
                BY <1>6, ReadTells
            <4>2. Read[rest[i]] = <<Noted(rest[i])>>
                <5>1. PICK g, y : g = rest[i].group /\ y = <<Noted(rest[i])>>
                    OBVIOUS
                <5>2. Noted(rest[i]) \in Notes /\ Read[rest[i]] = g \o y
                    BY <1>6, <5>1, ReadTells
                <5>3. y \in Seq(Notes) /\ g = <<>>
                    BY <1>6, <5>1, <5>2
                <5>4. <<>> \o y = y
                    BY <5>3, ConcatEmptySeq
                <5> QED BY <5>1, <5>2, <5>3, <5>4
            <4> QED BY <4>2
        <3> QED BY <3>1
    <2>2. \A i \in 1 .. Len(rest) : Len(Read[rest[i]]) = 1
        BY <1>1, <2>1
    <2>3. /\ Len(Spread(Read, rest)) = Len(rest)
          /\ \A i \in 1 .. Len(rest) : Spread(Read, rest)[i] = Read[rest[i]][1]
        BY <2>2, ReadTells, SpreadSingles
    <2>4. z \in Seq(Notes)
        BY <1>8, ReadTells, SpreadTyped
    <2> QED BY <1>1, <1>8, <2>1, <2>3, <2>4
<1>10. x \in Seq(Notes) /\ Len(x) = 1 /\ x[1] = Noted(m)
    <2>1. Noted(m) \in Notes
        BY ReadTells
    <2> QED BY <1>8, <2>1
<1>11. PICK own : own = x \o z
    OBVIOUS
<1>12. /\ own \in Seq(Notes) /\ Len(own) = n + 1
       /\ \A i \in 1 .. n + 1 : own[i] = IF i <= 1 THEN x[i] ELSE z[i - 1]
    BY <1>2, <1>9, <1>10, <1>11, ConcatProperties
<1>13. ASSUME NEW i \in 1 .. n + 1 PROVE own[i] = Noted(ms[i])
    <2>1. CASE i = 1
        BY <1>4, <1>10, <1>12, <2>1
    <2>2. CASE i # 1
        <3>1. i - 1 \in 1 .. n /\ ~(i <= 1)
            BY <1>2, <2>2
        <3>2. own[i] = z[i - 1] /\ ms[i] = rest[i - 1]
            BY <1>3, <1>12, <3>1
        <3> QED BY <1>9, <3>1, <3>2
    <2> QED BY <2>1, <2>2
<1>14. Spread(Read, ms) = m.group \o own
    <2>1. Spread(Read, ms) = Spread(Read, h) \o z
        <3>1. Tells(Read, Msgs, Notes)
            BY ReadTells
        <3>2. h \in Seq(Msgs)
            BY <1>2
        <3>3. Spread(Read, h \o rest) = Spread(Read, h) \o Spread(Read, rest)
            BY <3>1, <3>2, SpreadConcat
        <3> QED BY <1>2, <1>8, <3>3
    <2>2. Spread(Read, h) = m.group \o x
        <3>1. Spread(Read, <<m>>) = Read[m]
            BY ReadTells, SpreadOne
        <3> QED BY <1>1, <1>8, <3>1, ReadTells
    <2>3. m.group \in Seq(Notes)
        BY ReadTells
    <2>4. (m.group \o x) \o z = m.group \o (x \o z)
        <3>1. PICK g : g = m.group
            OBVIOUS
        <3>2. g \in Seq(Notes) /\ x \in Seq(Notes) /\ z \in Seq(Notes)
            BY <1>9, <1>10, <2>3, <3>1
        <3>3. (g \o x) \o z = g \o (x \o z)
            BY <3>2, JoinedInAnyOrder
        <3> QED BY <3>1, <3>3
    <2> QED BY <1>11, <2>1, <2>2, <2>4
<1> QED BY <1>1, <1>2, <1>3, <1>4, <1>5, <1>7, <1>12, <1>13, <1>14 DEF Headed

LEMMA HeadedAnswers ==
    ASSUME NEW ms, NEW m \in Msgs, NEW rest \in Seq(Msgs), Headed(ms, m, rest), Answers(rest),
           m.calls = <<>>, m.role # "tool"
    PROVE  Answers(ms)
<1>1. PICK n : n = Len(rest)
    OBVIOUS
<1>2. /\ n \in Nat /\ Len(ms) = n + 1 /\ ms[1] = m
      /\ \A i \in 1 .. n : ms[i + 1] = rest[i]
    BY <1>1 DEF Headed
<1>3. \A i \in 1 .. n + 1 : i # 1 => i - 1 \in 1 .. n /\ ms[i] = rest[i - 1]
    <2>1. ASSUME NEW i \in 1 .. n + 1, i # 1 PROVE i - 1 \in 1 .. n /\ ms[i] = rest[i - 1]
        <3>1. PICK j : j = i - 1
            OBVIOUS
        <3>2. j \in 1 .. n /\ j + 1 = i
            BY <1>2, <2>1, <3>1
        <3> QED BY <1>2, <3>1, <3>2
    <2> QED BY <2>1
<1>4. \A i \in 1 .. n : rest[i].calls \in Seq(Calls)
    <2>1. \A i \in 1 .. n : rest[i] \in Msgs
        BY <1>1, ElementOfSeq
    <2> QED BY <2>1 DEF Msgs
<1>5. ASSUME NEW i \in 1 .. n + 1, NEW k \in Executed(ms[i].calls)
      PROVE  i + k <= n + 1 /\ ms[i + k].role = "tool" /\ ms[i + k].call = ms[i].calls[k].id
    <2>1. i # 1
        <3>1. <<>> \in Seq(Calls)
            OBVIOUS
        <3>2. Executed(<<>>) = {}
            BY <3>1, ExecutedIs
        <3> QED BY <1>2, <1>5, <3>2
    <2>2. i - 1 \in 1 .. n /\ ms[i] = rest[i - 1]
        BY <1>3, <2>1
    <2>3. /\ (i - 1) + k <= n /\ rest[(i - 1) + k].role = "tool"
          /\ rest[(i - 1) + k].call = rest[i - 1].calls[k].id
        BY <1>1, <1>5, <2>2 DEF Answers
    <2>4. k \in Nat /\ k >= 1
        BY <1>4, <1>5, <2>2, ExecutedIs
    <2>5. i + k \in 1 .. n + 1 /\ i + k # 1 /\ (i + k) - 1 = (i - 1) + k
        BY <1>2, <2>2, <2>3, <2>4
    <2>6. ms[i + k] = rest[(i - 1) + k]
        BY <1>3, <2>5
    <2> QED BY <2>2, <2>3, <2>5, <2>6
<1>6. ASSUME NEW j \in 1 .. n + 1, ms[j].role = "tool"
      PROVE  \E i \in 1 .. (j - 1) : j - i \in Executed(ms[i].calls)
    <2>1. j # 1 /\ j - 1 \in 1 .. n /\ ms[j] = rest[j - 1]
        BY <1>2, <1>3, <1>6
    <2>2. PICK i \in 1 .. ((j - 1) - 1) : (j - 1) - i \in Executed(rest[i].calls)
        BY <1>1, <1>6, <2>1 DEF Answers
    <2>3. i + 1 \in 1 .. (j - 1) /\ j - (i + 1) = (j - 1) - i /\ i \in 1 .. n
        BY <1>2, <2>1
    <2>4. ms[i + 1] = rest[i]
        BY <1>2, <2>3
    <2> QED BY <2>2, <2>3, <2>4
<1> QED BY <1>2, <1>5, <1>6 DEF Answers

-----------------------------------------------------------------------------
(* What a round is told as.                                                 *)

Distinct(calls) == \A k, l \in 1 .. Len(calls) : k # l => calls[k].id # calls[l].id

\* A history that carries its places, as the session leaves it.
Sound(s) ==
    /\ Stamp(s) /\ Paired(s) /\ \A i \in 1 .. Len(s) : Distinct(s[i].calls)
    /\ \A i \in 1 .. Len(s) : s[i].kind = "change" => i = Len(s) \/ s[i + 1].kind = "input"

\* q is what stands behind the input of the round r.
Behind(q, s, r) ==
    /\ q \in Seq(Artifacts) /\ Len(q) = To(r) - From(r) /\ Len(q) \in Nat /\ Len(r) = Len(q) + 1
    /\ \A i \in 1 .. Len(q) :
          /\ q[i] = r[i + 1] /\ q[i] = s[From(r) + i] /\ q[i].src = From(r) + i
          /\ q[i].kind # "input" /\ From(r) + i \in From(r) + 1 .. To(r)
    /\ Paired(q) /\ \A i \in 1 .. Len(q) - 1 : ~Reports(q[i])

LEMMA ShapedRound ==
    ASSUME NEW s, Sound(s), NEW r \in Rounds(s)
    PROVE  /\ Paired(r) /\ r[1] = s[From(r)] /\ r[1].kind = "input" /\ r[1].calls = <<>>
           /\ r[1].call = 0 /\ r[1].src = From(r) /\ r[1] \in Artifacts
<1>1. Stamp(s) /\ s \in Seq(Artifacts)
    BY DEF Sound, Stamp
<1>2. /\ From(r) \in 1 .. Len(s) /\ To(r) \in From(r) .. Len(s) /\ Len(s) \in Nat
      /\ s[From(r)].kind = "input" /\ \A i \in From(r) + 1 .. To(r) : s[i].kind # "input"
      /\ To(r) = Len(s) \/ s[To(r) + 1].kind = "input"
    BY <1>1, RoundPlaces
<1>3. r = SubSeq(s, From(r), To(r)) /\ r \in Seq(Artifacts) /\ 1 \in 1 .. Len(r)
    BY <1>1, RoundIs DEF RoundAt
<1>4. PICK b, e : b = From(r) /\ e = To(r)
    OBVIOUS
<1>5. b \in 1 .. Len(s) /\ e \in b .. Len(s) /\ r = SubSeq(s, b, e)
    BY <1>2, <1>3, <1>4
<1>6. IsCut(r, s, b, e)
    BY <1>1, <1>5, CutOf
<1>7. Paired(r)
    <2>1. s[b].kind # "result" /\ (e = Len(s) \/ s[e + 1].kind # "result")
        BY <1>2, <1>4
    <2> QED BY <1>1, <1>5, <1>6, <2>1, PairedCut DEF Sound
<1>8. r[1] = s[From(r)]
    <2>1. r[1] = s[b + 1 - 1] /\ b + 1 - 1 = b
        BY <1>2, <1>3, <1>4, <1>6 DEF IsCut
    <2> QED BY <1>4, <2>1
<1>9. Shaped(s[From(r)]) /\ s[From(r)].src = From(r)
    BY <1>1, <1>2 DEF Stamp
<1>10. s[From(r)].calls = <<>> /\ s[From(r)].call = 0
    BY <1>2, <1>9 DEF Shaped
<1>11. r[1] \in Artifacts
    BY <1>3, ElementOfSeq
<1> QED BY <1>2, <1>7, <1>8, <1>9, <1>10, <1>11

LEMMA BehindIs ==
    ASSUME NEW s, Sound(s), NEW r \in Rounds(s), NEW q, q = SubSeq(r, 2, Len(r))
    PROVE  Behind(q, s, r)
<1>1. Stamp(s) /\ s \in Seq(Artifacts)
    BY DEF Sound, Stamp
<1>2. PICK f, t, n : f = From(r) /\ t = To(r) /\ n = Len(r)
    OBVIOUS
<1>3. /\ r \in Seq(Artifacts) /\ n \in Nat /\ n = t - f + 1 /\ f \in Nat /\ t \in Nat /\ f <= t
      /\ f >= 1 /\ Len(s) \in Nat /\ t <= Len(s)
      /\ \A j \in 1 .. n : r[j] = s[f + j - 1] /\ r[j].src = f + j - 1
      /\ \A i \in f + 1 .. t : s[i].kind # "input"
    <2>1. /\ r \in Seq(Artifacts) /\ n \in Nat /\ n = t - f + 1
          /\ \A j \in 1 .. n : r[j] = s[f + j - 1] /\ r[j].src = f + j - 1
        BY <1>1, <1>2, RoundIs
    <2>2. /\ f \in 1 .. Len(s) /\ t \in f .. Len(s) /\ Len(s) \in Nat
          /\ \A i \in f + 1 .. t : s[i].kind # "input"
        BY <1>1, <1>2, RoundPlaces
    <2> QED BY <2>1, <2>2
<1>4. /\ q \in Seq(Artifacts) /\ Len(q) = n - 1 /\ \A i \in 1 .. n - 1 : q[i] = r[i + 1]
    <2>1. CASE n = 1
        <3>1. q = <<>>
            BY <1>2, <1>3, <2>1, SubSeqEmpty
        <3> QED BY <2>1, <3>1
    <2>2. CASE n # 1
        <3>1. 2 \in 1 .. n /\ n \in 2 .. n /\ n \in 1 .. n
            BY <1>3, <2>2
        <3>2. q \in Seq(Artifacts) /\ IsCut(q, r, 2, n)
            BY <1>2, <1>3, <3>1, CutOf
        <3>3. Len(q) = n - 1
            BY <1>3, <3>2 DEF IsCut
        <3>4. \A i \in 1 .. n - 1 : q[i] = r[i + 1]
            <4>1. ASSUME NEW i \in 1 .. n - 1 PROVE q[i] = r[i + 1]
                <5>1. q[i] = r[2 + i - 1]
                    BY <3>2, <3>3 DEF IsCut
                <5>2. 2 + i - 1 = i + 1
                    BY <1>3
                <5> QED BY <5>1, <5>2
            <4> QED BY <4>1
        <3> QED BY <3>2, <3>3, <3>4
    <2> QED BY <2>1, <2>2
<1>5. ASSUME NEW i \in 1 .. n - 1
      PROVE  /\ q[i] = s[f + i] /\ q[i].src = f + i /\ f + i \in f + 1 .. t /\ q[i].kind # "input"
             /\ i + 1 \in 1 .. n
    <2>1. i + 1 \in 1 .. n /\ f + (i + 1) - 1 = f + i /\ f + i \in f + 1 .. t
        BY <1>3
    <2>2. PICK j : j = i + 1
        OBVIOUS
    <2>3. r[j] = s[f + j - 1] /\ r[j].src = f + j - 1 /\ q[i] = r[j]
        BY <1>3, <1>4, <2>1, <2>2
    <2>4. q[i] = s[f + i] /\ q[i].src = f + i
        BY <2>1, <2>2, <2>3
    <2> QED BY <1>3, <2>1, <2>4
<1>6. Paired(q)
    <2>1. CASE n = 1
        <3>1. Len(q) = 0
            BY <1>4, <2>1
        <3> QED BY <3>1 DEF Paired
    <2>2. CASE n # 1
        <3>1. 2 \in 1 .. n /\ n \in 2 .. n /\ n \in 1 .. n
            BY <1>3, <2>2
        <3>2. IsCut(q, r, 2, n)
            BY <1>2, <1>3, <3>1, CutOf
        <3>3. Paired(r) /\ r[1].calls = <<>>
            BY ShapedRound
        <3>4. r[2].kind # "result"
            <4>1. SUFFICES ASSUME r[2].kind = "result" PROVE FALSE
                OBVIOUS
            <4>2. PICK i \in 1 .. (2 - 1) : 2 - i \in Executed(r[i].calls)
                BY <1>2, <3>1, <3>3, <4>1 DEF Paired
            <4>3. i = 1
                OBVIOUS
            <4>4. Executed(<<>>) = {}
                <5>1. <<>> \in Seq(Calls)
                    OBVIOUS
                <5> QED BY <5>1, ExecutedIs
            <4> QED BY <3>3, <4>2, <4>3, <4>4
        <3> QED BY <1>2, <1>3, <3>1, <3>2, <3>3, <3>4, PairedCut
    <2> QED BY <2>1, <2>2
<1>7. ASSUME NEW i \in 1 .. Len(q) - 1 PROVE ~Reports(q[i])
    <2>1. i \in 1 .. n - 1 /\ i + 1 \in 1 .. n - 1
        BY <1>3, <1>4
    <2>2. PICK j, k : j = f + i /\ k = i + 1
        OBVIOUS
    <2>3. q[i] = s[j] /\ j \in 1 .. Len(s) /\ j + 1 \in f + 1 .. t /\ j # Len(s)
        <3>1. f + i \in f + 1 .. t /\ f + (i + 1) \in f + 1 .. t
            BY <1>5, <2>1
        <3>2. q[i] = s[f + i]
            BY <1>5, <2>1
        <3>3. j \in f + 1 .. t /\ j + 1 \in f + 1 .. t
            BY <1>3, <2>1, <2>2, <3>1
        <3> QED BY <1>3, <2>2, <3>2, <3>3
    <2>4. s[j + 1].kind # "input"
        BY <1>3, <2>3
    <2>5. s[j].kind # "change"
        BY <2>3, <2>4 DEF Sound
    <2> QED BY <2>3, <2>5 DEF Reports
<1>8. Len(q) = t - f /\ Len(q) \in Nat /\ n = Len(q) + 1
    BY <1>3, <1>4
<1>9. \A i \in 1 .. Len(q) : /\ q[i] = r[i + 1] /\ q[i] = s[f + i] /\ q[i].src = f + i
                             /\ q[i].kind # "input" /\ f + i \in f + 1 .. t
    BY <1>4, <1>5
<1> QED BY <1>2, <1>4, <1>6, <1>7, <1>8, <1>9 DEF Behind

RestOf(r, tools) ==
    IF HasUnavailableCall(r, tools) THEN LastResponse(r)
    ELSE FlattenSeq([i \in 1..(Len(r) - 1) |-> ArtifactToMessages(r[i + 1])])

\* The artifacts behind place n, told one by one.
LEMMA RestTold ==
    ASSUME NEW n \in Nat, NEW q \in Seq(Artifacts), Len(q) = n, NEW f,
           \A i \in 1 .. n : f[i] = ArtifactToMessages(q[i]), f = [i \in 1 .. n |-> f[i]],
           \A i \in 1 .. n - 1 : ~Reports(q[i])
    PROVE  TellsAll(FlattenSeq(f), q)
<1>1. DOMAIN q = 1 .. n /\ \A i \in 1 .. n : q[i] \in Artifacts
    BY LenProperties, ElementOfSeq
<1>2. Each(InMessages, q) = [i \in 1 .. n |-> InMessages[q[i]]]
    BY <1>1 DEF Each
<1>3. \A i \in 1 .. n : InMessages[q[i]] = f[i]
    BY <1>1 DEF InMessages
<1>4. Each(InMessages, q) = f
    BY <1>2, <1>3
<1>5. TellsAll(Spread(InMessages, q), q)
    BY AllTold
<1> QED BY <1>4, <1>5 DEF Spread

LEMMA LastResponseIs ==
    ASSUME NEW r \in Seq(Artifacts)
    PROVE  \/ LastResponse(r) = <<>>
           \/ \E m \in Msgs : \E i \in 1 .. Len(r) :
                 /\ LastResponse(r) = <<m>> /\ r[i].kind = "response"
                 /\ m.src = r[i].src /\ m.calls = <<>> /\ m.group = <<>> /\ m.role = "assistant"
<1>1. PICK S, K : S = {a \in Range(r) : a.kind = "response"} /\ K = Keep(r, S)
    OBVIOUS
<1>2. LastResponse(r) = IF K = <<>> THEN <<>>
                        ELSE <<[Message("assistant", LastOf(K)) EXCEPT !.calls = <<>>]>>
    BY <1>1 DEF LastResponse
<1>3. CASE K = <<>>
    BY <1>2, <1>3
<1>4. CASE K # <<>>
    <2>1. K \in Seq(Artifacts) /\ Len(K) \in Nat
        BY <1>1, KeepTyped, LenProperties
    <2>2. Len(K) \in 1 .. Len(K)
        BY <1>4, <2>1, EmptySeq
    <2>3. \A p \in 1 .. Len(K) : K[p] \in S /\ \E i \in 1 .. Len(r) : K[p] = r[i]
        <3>1. PICK g : Picks(g, r, S, K)
            BY <1>1, KeepPlaces
        <3> QED BY <3>1 DEF Picks
    <2>4. PICK i \in 1 .. Len(r) : K[Len(K)] = r[i] /\ K[Len(K)] \in S
        BY <2>2, <2>3
    <2>11. PICK a : a = K[Len(K)]
        OBVIOUS
    <2>5. a.kind = "response" /\ a \in Artifacts
        BY <1>1, <2>4, <2>11, ElementOfSeq
    <2>6. PICK m : m = [Message("assistant", a) EXCEPT !.calls = <<>>]
        OBVIOUS
    <2>7. m = [role |-> "assistant", src |-> a.src, calls |-> <<>>, call |-> a.call,
               group |-> <<>>, stale |-> FALSE]
        BY <2>6 DEF Message
    <2>8. a.src \in Nat /\ a.call \in Nat /\ <<>> \in Seq(Calls) /\ <<>> \in Seq(Notes)
        BY <2>5 DEF Artifacts
    <2>9. m \in Msgs
        BY <2>7, <2>8 DEF Msgs
    <2>10. LastResponse(r) = <<m>>
        BY <1>2, <1>4, <2>6, <2>11 DEF LastOf
    <2> QED BY <2>4, <2>11, <2>5, <2>7, <2>9, <2>10
<1> QED BY <1>3, <1>4

\* What follows the input of the round r when it is told.
Following(ms, s, r) ==
    /\ ms \in Seq(Msgs) /\ Answers(ms)
    /\ \A i \in 1 .. Len(ms) : ms[i].group = <<>> /\ ms[i].src \in From(r) + 1 .. To(r)
    /\ \A i, j \in 1 .. Len(ms) : i < j => ms[i].src < ms[j].src

\* A message is told after the note on every expired result before it in the round.
Informed(ms, s, r) ==
    \A i \in 1 .. Len(ms) : \A x \in From(r) .. ms[i].src - 1 : s[x].call \in expired =>
        \E j \in 1 .. i - 1 : ms[j].src = x /\ ms[j].stale

LEMMA ResponseAlone ==
    ASSUME NEW s, Sound(s), NEW r \in Rounds(s)
    PROVE  /\ Following(LastResponse(r), s, r)
           /\ expired \subseteq Nat \ {0} /\ ~HasExpiredResult(r) => Informed(LastResponse(r), s, r)
<1>1. PICK ms : ms = LastResponse(r)
    OBVIOUS
<1>2. Stamp(s) /\ s \in Seq(Artifacts) /\ Len(s) \in Nat
    BY LenProperties DEF Sound, Stamp
<1>3. PICK f, t, n : f = From(r) /\ t = To(r) /\ n = Len(r)
    OBVIOUS
<1>4. /\ r \in Seq(Artifacts) /\ n = t - f + 1 /\ n \in Nat
      /\ \A j \in 1 .. n : r[j] = s[f + j - 1] /\ r[j].src = f + j - 1
      /\ \A i \in f .. t : i - f + 1 \in 1 .. n /\ r[i - f + 1] = s[i]
    BY <1>2, <1>3, RoundIs
<1>5. f \in 1 .. Len(s) /\ t \in f .. Len(s) /\ r[1].kind = "input"
    BY <1>2, <1>3, RoundPlaces, ShapedRound
<1>6. CASE ms = <<>>
    <2>1. Len(ms) = 0 /\ ms \in Seq(Msgs)
        BY <1>6
    <2> QED BY <1>1, <2>1 DEF Following, Informed, Answers
<1>7. CASE ms # <<>>
    <2>1. PICK m \in Msgs, i \in 1 .. n :
              /\ ms = <<m>> /\ r[i].kind = "response"
              /\ m.src = r[i].src /\ m.calls = <<>> /\ m.group = <<>> /\ m.role = "assistant"
        BY <1>1, <1>3, <1>4, <1>7, LastResponseIs
    <2>2. i # 1 /\ m.src = f + i - 1
        BY <1>4, <1>5, <2>1
    <2>3. m.src \in f + 1 .. t
        BY <1>2, <1>4, <1>5, <2>2
    <2>4. Len(ms) = 1 /\ ms[1] = m /\ ms \in Seq(Msgs)
        BY <2>1
    <2>5. Answers(ms)
        <3>1. Executed(<<>>) = {}
            <4>1. <<>> \in Seq(Calls)
                OBVIOUS
            <4> QED BY <4>1, ExecutedIs
        <3>2. \A j \in 1 .. Len(ms) : ms[j] = m
            BY <2>4
        <3> QED BY <2>1, <3>1, <3>2 DEF Answers
    <2>6. Following(ms, s, r)
        BY <1>3, <2>1, <2>3, <2>4, <2>5 DEF Following
    <2>7. ASSUME expired \subseteq Nat \ {0}, ~HasExpiredResult(r), NEW x \in f .. m.src - 1,
                 s[x].call \in expired
          PROVE  FALSE
        <3>1. x \in f .. t /\ x \in 1 .. Len(s)
            BY <1>2, <1>5, <2>3, <2>7
        <3>2. x - f + 1 \in 1 .. n /\ r[x - f + 1] = s[x]
            BY <1>4, <3>1
        <3>3. s[x].call # 0 /\ Shaped(s[x])
            BY <1>2, <2>7, <3>1 DEF Stamp
        <3>4. s[x].kind = "result"
            BY <3>3 DEF Shaped
        <3>5. PICK y : y = x - f + 1
            OBVIOUS
        <3>6. y \in DOMAIN r /\ r[y].kind = "result" /\ r[y].call \in expired
            <4>1. DOMAIN r = 1 .. n
                BY <1>3, <1>4, LenProperties
            <4> QED BY <2>7, <3>2, <3>4, <3>5, <4>1
        <3> QED BY <2>7, <3>6 DEF HasExpiredResult
    <2>8. ASSUME expired \subseteq Nat \ {0}, ~HasExpiredResult(r)
          PROVE  Informed(ms, s, r)
        <3>1. \A i1 \in 1 .. Len(ms) : ms[i1].src = m.src
            BY <2>4
        <3>2. \A x \in f .. m.src - 1 : s[x].call \notin expired
            BY <2>7, <2>8
        <3> QED BY <1>3, <3>1, <3>2 DEF Informed
    <2> QED BY <1>1, <2>6, <2>8
<1> QED BY <1>6, <1>7

LEMMA LoopFollows ==
    ASSUME NEW s, Sound(s), NEW r \in Rounds(s), NEW q, Behind(q, s, r), NEW ms, TellsAll(ms, q)
    PROVE  /\ Following(ms, s, r)
           /\ expired \subseteq Nat \ {0} => Informed(ms, s, r)
<1>2. Stamp(s) /\ s \in Seq(Artifacts) /\ Len(s) \in Nat
    BY LenProperties DEF Sound, Stamp
<1>3. PICK f, t, n, m : f = From(r) /\ t = To(r) /\ n = Len(q) /\ m = Len(ms)
    OBVIOUS
<1>4. f \in 1 .. Len(s) /\ t \in f .. Len(s) /\ s[f].kind = "input"
    BY <1>2, <1>3, RoundPlaces
<1>5. /\ q \in Seq(Artifacts) /\ n = t - f /\ Paired(q)
      /\ \A i \in 1 .. n : q[i] = s[f + i] /\ q[i].src = f + i
    BY <1>3 DEF Behind
<1>6. /\ ms \in Seq(Msgs) /\ m \in Nat /\ m <= n
      /\ \A i \in 1 .. m : Says(ms[i], q[i])
    BY <1>3 DEF TellsAll
<1>7. Answers(ms)
    BY <1>5, SaidAnswers
<1>8. \A i \in 1 .. m : ms[i].group = <<>> /\ ms[i].src = f + i /\ f + i \in f + 1 .. t
    <2>1. ASSUME NEW i \in 1 .. m
          PROVE  ms[i].group = <<>> /\ ms[i].src = f + i /\ f + i \in f + 1 .. t
        <3>1. i \in 1 .. n
            BY <1>2, <1>4, <1>5, <1>6
        <3>2. Says(ms[i], q[i]) /\ q[i].src = f + i
            BY <1>5, <1>6, <3>1
        <3> QED BY <1>2, <1>4, <1>5, <3>1, <3>2 DEF Says
    <2> QED BY <2>1
<1>9. \A i, j \in 1 .. m : i < j => ms[i].src < ms[j].src
    BY <1>4, <1>8
<1>10. Following(ms, s, r)
    BY <1>3, <1>6, <1>7, <1>8, <1>9 DEF Following
<1>11. ASSUME expired \subseteq Nat \ {0}, NEW i \in 1 .. m, NEW x \in f .. ms[i].src - 1,
              s[x].call \in expired
       PROVE  \E j \in 1 .. i - 1 : ms[j].src = x /\ ms[j].stale
    <2>1. x \in f .. f + i - 1 /\ x \in 1 .. Len(s)
        <3>1. f + i \in f + 1 .. t /\ x \in f .. f + i - 1
            <4>1. ms[i].src = f + i /\ f + i \in f + 1 .. t
                BY <1>8
            <4>2. PICK z : z = ms[i].src
                OBVIOUS
            <4>3. x \in f .. z - 1 /\ z = f + i
                BY <1>11, <4>1, <4>2
            <4>4. f \in Nat /\ i \in Nat
                BY <1>2, <1>4, <1>6
            <4> QED BY <4>1, <4>3, <4>4
        <3> QED BY <1>2, <1>4, <3>1
    <2>2. s[x].call # 0 /\ Shaped(s[x])
        BY <1>2, <1>11, <2>1 DEF Stamp
    <2>3. s[x].kind = "result"
        BY <2>2 DEF Shaped
    <2>4. x # f
        BY <1>4, <2>3
    <2>5. PICK j : j = x - f
        OBVIOUS
    <2>6. j \in 1 .. i - 1 /\ f + j = x /\ j \in 1 .. m /\ j \in 1 .. n
        <3>1. f \in Nat /\ x \in Nat /\ i \in Nat /\ f < x /\ x <= f + i - 1 /\ i <= m /\ n \in Nat
            BY <1>2, <1>4, <1>5, <1>6, <2>1, <2>4
        <3> QED BY <1>6, <2>5, <3>1
    <2>7. Says(ms[j], q[j]) /\ q[j] = s[x] /\ ms[j].src = x
        BY <1>5, <1>6, <1>8, <2>6
    <2>8. ms[j].stale = (s[x].call \in expired)
        BY <2>3, <2>7 DEF Says
    <2> QED BY <1>11, <2>6, <2>7, <2>8
<1>12. ASSUME expired \subseteq Nat \ {0} PROVE Informed(ms, s, r)
    BY <1>3, <1>11, <1>12 DEF Informed
<1> QED BY <1>10, <1>12

LEMMA RestIs ==
    ASSUME NEW s, Sound(s), NEW r \in Rounds(s), NEW tools
    PROVE  /\ Following(RestOf(r, tools), s, r)
           /\ expired \subseteq Nat \ {0} /\ ~(HasUnavailableCall(r, tools) /\ HasExpiredResult(r))
                 => Informed(RestOf(r, tools), s, r)
<1>1. CASE HasUnavailableCall(r, tools)
    <2>1. RestOf(r, tools) = LastResponse(r)
        BY <1>1 DEF RestOf
    <2> QED BY <1>1, <2>1, ResponseAlone
<1>2. CASE ~HasUnavailableCall(r, tools)
    <2>1. PICK q : q = SubSeq(r, 2, Len(r))
        OBVIOUS
    <2>2. Behind(q, s, r)
        BY <2>1, BehindIs
    <2>3. PICK n : n = Len(q)
        OBVIOUS
    <2>4. /\ q \in Seq(Artifacts) /\ n \in Nat /\ Len(r) = n + 1
          /\ \A i \in 1 .. n : q[i] = r[i + 1]
          /\ \A i \in 1 .. n - 1 : ~Reports(q[i])
        BY <2>2, <2>3 DEF Behind
    <2>5. PICK f : f = [i \in 1 .. n |-> ArtifactToMessages(r[i + 1])]
        OBVIOUS
    <2>6. RestOf(r, tools) = FlattenSeq(f)
        <3>1. Len(r) - 1 = n
            BY <2>4
        <3> QED BY <1>2, <2>5, <3>1 DEF RestOf
    <2>7. /\ \A i \in 1 .. n : f[i] = ArtifactToMessages(q[i])
          /\ f = [i \in 1 .. n |-> f[i]]
        BY <2>4, <2>5
    <2>8. TellsAll(FlattenSeq(f), q)
        BY <2>3, <2>4, <2>7, RestTold
    <2> QED BY <2>2, <2>6, <2>8, LoopFollows
<1> QED BY <1>1, <1>2

\* x stands before y in the same round, and is a result that is out of date.
Rests(s, x, y) ==
    x < y /\ s[x].call \in expired /\ \A j \in x + 1 .. y : s[j].kind # "input"

\* Notes on the history s: whatever follows an expired result in its round is read
\* after the note on that result.
Aware(w, s) ==
    \A i \in 1 .. Len(w) : w[i].src \in 1 .. Len(s) =>
        \A x \in 1 .. w[i].src - 1 : Rests(s, x, w[i].src) =>
            \E j \in 1 .. i - 1 : w[j].src = x /\ w[j].stale

NoteOrder == {p \in Notes \X Notes : p[1].src <= p[2].src /\ p[1] # p[2]}

Told1(ms, b, e, grp, told) ==
    /\ ms \in Seq(Msgs) /\ Answers(ms)
    /\ \A i \in 1 .. Len(ms) : ms[i].src \in b .. e
    /\ \A i, j \in 1 .. Len(ms) : i < j => ms[i].src < ms[j].src
    /\ told => 1 \in 1 .. Len(ms) /\ ms[1].src = b
    /\ ~told => ms = <<>>
    /\ Spread(Carried, ms) = IF told THEN grp ELSE <<>>

\* own is what the messages are read as without what the first one carries.
Reads(ms, s, b, e, grp, told, own) ==
    /\ own \in Seq(Notes) /\ Ordered(own, NoteOrder) /\ Aware(own, s)
    /\ \A i \in 1 .. Len(own) : own[i].src \in b .. e
    /\ Spread(Read, ms) = IF told THEN grp \o own ELSE <<>>

LEMMA InputMessage ==
    ASSUME NEW a \in Artifacts, NEW grp \in Seq(Notes), a.calls = <<>>
    PROVE  \E m \in Msgs : /\ InputToMessages(a, grp) = <<m>> /\ m.src = a.src /\ m.group = grp
                           /\ m.calls = <<>> /\ m.role # "tool"
<1>1. PICK m : m = [Message("user", a) EXCEPT !.group = grp]
    OBVIOUS
<1>2. m = [role |-> "user", src |-> a.src, calls |-> a.calls, call |-> a.call,
           group |-> grp, stale |-> FALSE]
    BY <1>1 DEF Message
<1>3. a.src \in Nat /\ a.call \in Nat /\ a.calls \in Seq(Calls)
    BY DEF Artifacts
<1>4. m \in Msgs
    BY <1>2, <1>3 DEF Msgs
<1>5. InputToMessages(a, grp) = <<m>>
    BY <1>1 DEF InputToMessages
<1> QED BY <1>2, <1>4, <1>5

LEMMA Inside ==
    ASSUME NEW f \in Nat, NEW t \in Nat, NEW y
    PROVE  /\ y \in f + 1 .. t => y \in f .. t /\ f < y
           /\ y \in f .. t => y \in Nat /\ f <= y /\ y <= t
    OBVIOUS

\* The input of a round and what follows it.
LEMMA HeadedReads ==
    ASSUME NEW s, Sound(s), NEW r \in Rounds(s), NEW m \in Msgs, m.src = From(r),
           m.calls = <<>>, m.role # "tool",
           NEW rest, Following(rest, s, r), Informed(rest, s, r),
           NEW ms, ms = <<m>> \o rest
    PROVE  /\ Told1(ms, From(r), To(r), m.group, TRUE)
           /\ \E own : Reads(ms, s, From(r), To(r), m.group, TRUE, own)
<1>1. PICK f, t, n : f = From(r) /\ t = To(r) /\ n = Len(rest)
    OBVIOUS
<1>2. Stamp(s) /\ Len(s) \in Nat
    BY LenProperties DEF Sound, Stamp
<1>3. f \in 1 .. Len(s) /\ t \in f .. Len(s) /\ s[f].kind = "input" /\ f \in Nat /\ t \in Nat
    BY <1>1, <1>2, RoundPlaces
<1>4. /\ rest \in Seq(Msgs) /\ Answers(rest) /\ n \in Nat
      /\ \A i \in 1 .. n : rest[i].group = <<>> /\ rest[i].src \in f + 1 .. t
      /\ \A i, j \in 1 .. n : i < j => rest[i].src < rest[j].src
    <2>1. rest \in Seq(Msgs)
        BY DEF Following
    <2> QED BY <1>1, <2>1, LenProperties DEF Following
<1>5. Headed(ms, m, rest)
    BY <1>1, <1>4, HeadAndRest
<1>6. /\ ms \in Seq(Msgs) /\ Len(ms) = n + 1 /\ ms[1] = m
      /\ \A i \in 1 .. n : ms[i + 1] = rest[i]
      /\ Spread(Carried, ms) = m.group
    BY <1>1, <1>5 DEF Headed
<1>7. Answers(ms)
    BY <1>4, <1>5, HeadedAnswers
<1>8. ASSUME NEW i \in 1 .. n + 1
      PROVE  /\ i = 1 => ms[i].src = f
             /\ i # 1 => i - 1 \in 1 .. n /\ ms[i] = rest[i - 1] /\ ms[i].src \in f + 1 .. t
             /\ ms[i].src \in f .. t
    <2>1. CASE i = 1
        BY <1>1, <1>3, <1>6, <2>1
    <2>2. CASE i # 1
        <3>1. PICK j : j = i - 1
            OBVIOUS
        <3>2. j \in 1 .. n /\ i = j + 1
            BY <1>4, <2>2, <3>1
        <3>3. ms[i] = rest[j] /\ rest[j].src \in f + 1 .. t
            BY <1>4, <1>6, <3>2
        <3>4. ms[i].src \in f .. t
            BY <1>3, <3>3, Inside
        <3> QED BY <2>2, <3>1, <3>2, <3>3, <3>4
    <2> QED BY <2>1, <2>2
<1>9. ASSUME NEW i \in 1 .. n + 1, NEW j \in 1 .. n + 1, i < j
      PROVE  ms[i].src < ms[j].src
    <2>1. j # 1 /\ j - 1 \in 1 .. n /\ ms[j] = rest[j - 1] /\ ms[j].src \in f + 1 .. t
        <3>1. j # 1
            BY <1>4, <1>9
        <3> QED BY <1>8, <3>1
    <2>2. CASE i = 1
        <3>1. ms[i].src = f
            BY <1>8, <2>2
        <3>2. f < ms[j].src
            BY <1>3, <2>1, Inside
        <3> QED BY <3>1, <3>2
    <2>3. CASE i # 1
        <3>1. i - 1 \in 1 .. n /\ ms[i] = rest[i - 1]
            BY <1>8, <2>3
        <3>2. i - 1 < j - 1
            BY <1>4, <1>9
        <3> QED BY <1>4, <2>1, <3>1, <3>2
    <2> QED BY <2>2, <2>3
<1>10. Told1(ms, f, t, m.group, TRUE)
    <2>1. 1 \in 1 .. n + 1
        BY <1>4
    <2>2. ms[1].src = f
        BY <1>1, <1>6
    <2> QED BY <1>6, <1>7, <1>8, <1>9, <2>1, <2>2 DEF Told1
<1>11. PICK own \in Seq(Notes) :
          /\ Spread(Read, ms) = m.group \o own
          /\ Len(own) = n + 1 /\ \A i \in 1 .. n + 1 : own[i] = Noted(ms[i])
    BY <1>6, <1>5 DEF Headed
<1>12. \A i \in 1 .. n + 1 : own[i].src = ms[i].src /\ own[i].stale = ms[i].stale /\ own[i] \in Notes
    <2>1. \A i \in 1 .. n + 1 : own[i] \in Notes
        BY <1>11, ElementOfSeq
    <2>2. ASSUME NEW i \in 1 .. n + 1
          PROVE  own[i].src = ms[i].src /\ own[i].stale = ms[i].stale
        <3>1. own[i] = Noted(ms[i])
            BY <1>11
        <3>2. PICK o, y : o = own[i] /\ y = ms[i]
            OBVIOUS
        <3>3. o = [src |-> y.src, call |-> y.call, stale |-> y.stale]
            BY <3>1, <3>2 DEF Noted
        <3>4. o.src = y.src /\ o.stale = y.stale
            BY <3>3
        <3> QED BY <3>2, <3>4
    <2> QED BY <2>1, <2>2
<1>13. Ordered(own, NoteOrder)
    <2>1. ASSUME NEW i \in 1 .. n + 1, NEW j \in 1 .. n + 1, i < j
          PROVE  <<own[i], own[j]>> \in NoteOrder
        <3>1. ms[i].src < ms[j].src /\ ms[i].src \in f .. t /\ ms[j].src \in f .. t
            BY <1>8, <1>9, <2>1
        <3>2. own[i].src < own[j].src /\ own[i].src \in Nat /\ own[j].src \in Nat
            <4>1. ms[i].src \in Nat /\ ms[j].src \in Nat
                BY <1>3, <3>1, Inside
            <4>2. own[i].src = ms[i].src /\ own[j].src = ms[j].src
                BY <1>12
            <4> QED BY <3>1, <4>1, <4>2
        <3>3. own[i].src <= own[j].src /\ own[i] # own[j]
            BY <3>2
        <3>4. own[i] \in Notes /\ own[j] \in Notes
            BY <1>12
        <3> QED BY <3>3, <3>4 DEF NoteOrder
    <2> QED BY <1>11, <2>1 DEF Ordered
<1>14. Aware(own, s)
    <2>1. SUFFICES ASSUME NEW i \in 1 .. n + 1, NEW x \in 1 .. own[i].src - 1,
                          Rests(s, x, own[i].src)
                   PROVE  \E j \in 1 .. i - 1 : own[j].src = x /\ own[j].stale
        BY <1>11 DEF Aware
    <2>2. PICK y : y = own[i].src
        OBVIOUS
    <2>3. y = ms[i].src /\ y \in f .. t /\ x < y /\ x \in Nat /\ y \in Nat
          /\ s[x].call \in expired /\ \A j \in x + 1 .. y : s[j].kind # "input"
        <3>1. y = ms[i].src /\ y \in f .. t
            BY <1>8, <1>12, <2>2
        <3>2. y \in Nat
            BY <1>3, <3>1, Inside
        <3>3. x \in 1 .. y - 1 /\ Rests(s, x, y)
            BY <2>1, <2>2
        <3>4. x \in Nat
            BY <3>2, <3>3
        <3> QED BY <3>1, <3>2, <3>3, <3>4 DEF Rests
    <2>4. f <= x
        <3>1. SUFFICES ASSUME x < f PROVE FALSE
            BY <1>3, <2>3
        <3>2. f \in x + 1 .. y
            <4>1. f <= y
                BY <1>3, <2>3, Inside
            <4>2. f \in Nat /\ x \in Nat /\ y \in Nat
                BY <1>3, <2>3
            <4> QED BY <3>1, <4>1, <4>2
        <3> QED BY <1>3, <2>3, <3>2
    <2>5. i # 1
        BY <1>3, <1>8, <2>3, <2>4
    <2>6. i - 1 \in 1 .. n /\ ms[i] = rest[i - 1]
        BY <1>8, <2>5
    <2>7. PICK k : k = i - 1
        OBVIOUS
    <2>8. k \in 1 .. n /\ rest[k].src = y /\ x \in f .. y - 1
        <3>1. rest[k].src = y /\ k \in 1 .. n
            BY <2>3, <2>6, <2>7
        <3>2. x \in f .. y - 1
            <4>1. f \in Nat /\ x \in Nat /\ y \in Nat /\ f <= x /\ x < y
                BY <1>3, <2>3, <2>4
            <4> QED BY <4>1
        <3> QED BY <3>1, <3>2
    <2>9. PICK j \in 1 .. k - 1 : rest[j].src = x /\ rest[j].stale
        BY <1>1, <2>3, <2>8 DEF Informed
    <2>10. j + 1 \in 1 .. i - 1 /\ j \in 1 .. n /\ j + 1 \in 1 .. n + 1
        BY <1>4, <2>7, <2>8
    <2>11. ms[j + 1] = rest[j]
        BY <1>6, <2>10
    <2> QED BY <1>12, <2>9, <2>10, <2>11
<1>15. \A i \in 1 .. n + 1 : own[i].src \in f .. t
    BY <1>8, <1>12
<1>16. Reads(ms, s, f, t, m.group, TRUE, own)
    BY <1>11, <1>13, <1>14, <1>15 DEF Reads
<1> QED BY <1>1, <1>10, <1>16

\* A round is given up only for a tool that is gone and a result that is out of date.
GivenUp(r, tools) == HasUnavailableCall(r, tools) /\ HasExpiredResult(r)

LEMMA RoundMessages ==
    ASSUME NEW s, Sound(s), expired \subseteq Nat \ {0}, NEW r \in Rounds(s), NEW tools,
           NEW grp \in Seq(Notes)
    PROVE  LET ms == RoundToMessages(r, tools, grp)
           IN  /\ Told1(ms, From(r), To(r), grp, ~GivenUp(r, tools))
               /\ \E own : Reads(ms, s, From(r), To(r), grp, ~GivenUp(r, tools), own)
<1>1. PICK ms : ms = RoundToMessages(r, tools, grp)
    OBVIOUS
<1>2. CASE GivenUp(r, tools)
    <2>1. ms = <<>>
        BY <1>1, <1>2 DEF RoundToMessages, GivenUp
    <2>2. ms \in Seq(Msgs) /\ Len(ms) = 0
        BY <2>1
    <2>3. Answers(ms)
        BY <2>2 DEF Answers
    <2>4. Spread(Carried, ms) = <<>> /\ Spread(Read, ms) = <<>>
        BY <2>1, SpreadEmpty
    <2>5. Told1(ms, From(r), To(r), grp, FALSE)
        BY <2>1, <2>2, <2>3, <2>4 DEF Told1
    <2>6. Reads(ms, s, From(r), To(r), grp, FALSE, <<>>)
        <3>1. <<>> \in Seq(Notes) /\ Len(<<>>) = 0
            OBVIOUS
        <3> QED BY <2>4, <3>1 DEF Reads, Ordered, Aware
    <2> QED BY <1>1, <1>2, <2>5, <2>6
<1>3. CASE ~GivenUp(r, tools)
    <2>1. ms = InputToMessages(r[1], grp) \o RestOf(r, tools)
        <3>1. CASE HasUnavailableCall(r, tools)
            BY <1>1, <1>3, <3>1 DEF RoundToMessages, RestOf, GivenUp
        <3>2. CASE ~HasUnavailableCall(r, tools)
            BY <1>1, <1>3, <3>2 DEF RoundToMessages, RestOf, GivenUp
        <3> QED BY <3>1, <3>2
    <2>2. PICK rest : rest = RestOf(r, tools)
        OBVIOUS
    <2>3. Following(rest, s, r) /\ Informed(rest, s, r)
        BY <1>3, <2>2, RestIs DEF GivenUp
    <2>4. r[1] \in Artifacts /\ r[1].calls = <<>> /\ r[1].src = From(r)
        BY ShapedRound
    <2>5. PICK m \in Msgs : /\ InputToMessages(r[1], grp) = <<m>> /\ m.src = From(r)
                            /\ m.group = grp /\ m.calls = <<>> /\ m.role # "tool"
        BY <2>4, InputMessage
    <2>6. ms = <<m>> \o rest
        BY <2>1, <2>2, <2>5
    <2>7. /\ Told1(ms, From(r), To(r), m.group, TRUE)
          /\ \E own : Reads(ms, s, From(r), To(r), m.group, TRUE, own)
        BY <2>3, <2>5, <2>6, HeadedReads
    <2> QED BY <1>1, <1>3, <2>5, <2>7
<1> QED BY <1>2, <1>3

\* Whether a round is told does not depend on what it would carry.
LEMMA ToldIs ==
    ASSUME NEW s, Sound(s), expired \subseteq Nat \ {0}, NEW r \in Rounds(s), NEW tools
    PROVE  Told(r, tools) <=> ~GivenUp(r, tools)
<1>1. PICK ms : ms = RoundToMessages(r, tools, <<>>)
    OBVIOUS
<1>2. Told1(ms, From(r), To(r), <<>>, ~GivenUp(r, tools))
    <2>1. <<>> \in Seq(Notes)
        OBVIOUS
    <2> QED BY <1>1, <2>1, RoundMessages
<1>3. CASE GivenUp(r, tools)
    BY <1>1, <1>2, <1>3 DEF Told1, Told
<1>4. CASE ~GivenUp(r, tools)
    <2>1. 1 \in 1 .. Len(ms)
        BY <1>2, <1>4 DEF Told1
    <2>2. ms # <<>>
        BY <2>1
    <2> QED BY <1>1, <1>4, <2>2 DEF Told
<1> QED BY <1>3, <1>4

-----------------------------------------------------------------------------
(* What a group of rounds is told as.                                       *)

\* All lists but one are empty.
LEMMA FlattenSingle ==
    ASSUME NEW A, NEW ss \in Seq(Seq(A)), NEW f \in 1 .. Len(ss),
           \A k \in 1 .. Len(ss) : k # f => ss[k] = <<>>
    PROVE  FlattenSeq(ss) = ss[f]
<1> DEFINE Q(n) == SubSeq(ss, 1, n)
           T == {n \in Nat : FlattenSeq(Q(n)) = IF n < f THEN <<>> ELSE ss[f]}
<1>1. PICK N : N = Len(ss)
    OBVIOUS
<1>2. N \in Nat /\ f \in 1 .. N /\ ss[f] \in Seq(A)
    <2>1. ss[f] \in Seq(A)
        BY ElementOfSeq
    <2> QED BY <1>1, <2>1, LenProperties
<1>3. /\ Q(0) = <<>> /\ Q(N) = ss
      /\ \A n \in 0 .. N - 1 : /\ ss[n + 1] \in Seq(A) /\ Q(n) \in Seq(Seq(A))
                               /\ Q(n + 1) = Append(Q(n), ss[n + 1])
    BY <1>1, Prefixed
<1> HIDE DEF Q
<1>4. 0 \in T
    BY <1>2, <1>3, FlattenEmpty
<1>5. ASSUME NEW n \in 0 .. N - 1, n \in T PROVE n + 1 \in T
    <2>1. PICK p, q, x : p = Q(n) /\ q = Q(n + 1) /\ x = ss[n + 1]
        OBVIOUS
    <2>2. x \in Seq(A) /\ p \in Seq(Seq(A)) /\ q = Append(p, x)
        BY <1>3, <2>1
    <2>3. n \in Nat /\ n + 1 \in Nat /\ n + 1 \in 1 .. N
        BY <1>2
    <2>4. FlattenSeq(p) = IF n < f THEN <<>> ELSE ss[f]
        BY <1>5, <2>1
    <2>5. FlattenSeq(q) = FlattenSeq(p) \o x
        BY <2>2, FlattenAppend
    <2>6. CASE n + 1 < f
        <3>1. x = <<>> /\ FlattenSeq(p) = <<>>
            BY <1>1, <1>2, <2>1, <2>3, <2>4, <2>6
        <3>2. FlattenSeq(q) = <<>>
            BY <2>5, <3>1
        <3> QED BY <2>1, <2>3, <2>6, <3>2
    <2>7. CASE n + 1 = f
        <3>1. x = ss[f] /\ FlattenSeq(p) = <<>>
            BY <1>2, <2>1, <2>3, <2>4, <2>7
        <3>2. FlattenSeq(q) = ss[f]
            BY <1>2, <2>5, <3>1, ConcatEmptySeq
        <3> QED BY <2>1, <2>3, <2>7, <3>2
    <2>8. CASE f < n + 1
        <3>1. x = <<>> /\ FlattenSeq(p) = ss[f]
            BY <1>1, <1>2, <2>1, <2>3, <2>4, <2>8
        <3>2. FlattenSeq(q) = ss[f]
            BY <1>2, <2>5, <3>1, ConcatEmptySeq
        <3> QED BY <2>1, <2>3, <2>8, <3>2
    <2> QED BY <1>2, <2>3, <2>6, <2>7, <2>8
<1> HIDE DEF T
<1>6. \A n \in 0 .. N : n \in T
    BY <1>2, <1>4, <1>5, Induction
<1>7. N \in T /\ ~(N < f)
    BY <1>2, <1>6
<1> QED BY <1>3, <1>7 DEF T

LEMMA FlattenNothing ==
    ASSUME NEW A, NEW ss \in Seq(Seq(A)), \A k \in 1 .. Len(ss) : ss[k] = <<>>
    PROVE  FlattenSeq(ss) = <<>>
<1>1. PICK P : P = {<<>>}
    OBVIOUS
<1>2. <<>> \in P /\ \A a, b \in Seq(A) : a \in P /\ b \in P => a \o b \in P
    <2>1. <<>> \o <<>> = <<>>
        OBVIOUS
    <2> QED BY <1>1, <2>1
<1>3. \A k \in 1 .. Len(ss) : ss[k] \in P
    BY <1>1
<1>4. FlattenSeq(ss) \in P
    BY <1>2, <1>3, FlattenClosed
<1> QED BY <1>1, <1>4

SrcOrder == {p \in Msgs \X Msgs : p[1].src < p[2].src}

InRounds(x, gr) == \E k \in 1 .. Len(gr) : x \in From(gr[k]) .. To(gr[k])

\* What the round at place k of the group carries of the group input.
CarriedBy(gr, tools, input, k) ==
    IF \E j \in 1..(k - 1) : Told(gr[j], tools) THEN <<>> ELSE input

\* The lists that GroupToMessages joins.
Tellings(ss, s, gr, tools, input) ==
    /\ ss \in Seq(Seq(Msgs)) /\ Len(ss) = Len(gr) /\ Len(gr) \in Nat
    /\ \A k \in 1 .. Len(gr) :
          /\ gr[k] \in Rounds(s) /\ CarriedBy(gr, tools, input, k) \in Seq(Notes)
          /\ Told1(ss[k], From(gr[k]), To(gr[k]), CarriedBy(gr, tools, input, k),
                   Told(gr[k], tools))
          /\ \E own : Reads(ss[k], s, From(gr[k]), To(gr[k]), CarriedBy(gr, tools, input, k),
                            Told(gr[k], tools), own)

LEMMA GroupTold ==
    ASSUME NEW s, Sound(s), expired \subseteq Nat \ {0}, NEW gr \in Seq(Rounds(s)), NEW tools,
           NEW input \in Seq(Notes)
    PROVE  \E ss : /\ GroupToMessages(gr, tools, input) = FlattenSeq(ss)
                   /\ Tellings(ss, s, gr, tools, input)
<1>1. PICK n : n = Len(gr)
    OBVIOUS
<1>2. n \in Nat /\ DOMAIN gr = 1 .. n /\ \A k \in 1 .. n : gr[k] \in Rounds(s)
    BY <1>1, LenProperties, ElementOfSeq
<1>3. PICK ss : ss = [k \in 1 .. n |-> RoundToMessages(gr[k], tools, CarriedBy(gr, tools, input, k))]
    OBVIOUS
<1>4. GroupToMessages(gr, tools, input) = FlattenSeq(ss)
    BY <1>2, <1>3 DEF GroupToMessages, CarriedBy
<1>5. ASSUME NEW k \in 1 .. n
      PROVE  /\ CarriedBy(gr, tools, input, k) \in Seq(Notes) /\ ss[k] \in Seq(Msgs)
             /\ Told1(ss[k], From(gr[k]), To(gr[k]), CarriedBy(gr, tools, input, k),
                      Told(gr[k], tools))
             /\ \E own : Reads(ss[k], s, From(gr[k]), To(gr[k]), CarriedBy(gr, tools, input, k),
                               Told(gr[k], tools), own)
    <2>1. PICK r, c : r = gr[k] /\ c = CarriedBy(gr, tools, input, k)
        OBVIOUS
    <2>2. r \in Rounds(s) /\ ss[k] = RoundToMessages(r, tools, c)
        BY <1>2, <1>3, <2>1
    <2>3. c \in Seq(Notes)
        <3>1. <<>> \in Seq(Notes)
            OBVIOUS
        <3> QED BY <2>1, <3>1 DEF CarriedBy
    <2>4. PICK ms : ms = RoundToMessages(r, tools, c)
        OBVIOUS
    <2>5. /\ Told1(ms, From(r), To(r), c, ~GivenUp(r, tools))
          /\ \E own : Reads(ms, s, From(r), To(r), c, ~GivenUp(r, tools), own)
        BY <2>2, <2>3, <2>4, RoundMessages
    <2>6. Told(r, tools) = ~GivenUp(r, tools)
        BY <2>2, ToldIs DEF Told, GivenUp, HasExpiredResult, HasUnavailableCall
    <2>7. /\ Told1(ms, From(r), To(r), c, Told(r, tools))
          /\ \E own : Reads(ms, s, From(r), To(r), c, Told(r, tools), own)
        BY <2>5, <2>6
    <2>8. ms \in Seq(Msgs)
        BY <2>5 DEF Told1
    <2> QED BY <2>1, <2>2, <2>3, <2>4, <2>7, <2>8
<1>6. ss \in [1 .. n -> Seq(Msgs)]
    BY <1>3, <1>5
<1>7. ss \in Seq(Seq(Msgs)) /\ Len(ss) = n
    BY <1>2, <1>6, ListOfLength
<1>8. Tellings(ss, s, gr, tools, input)
    BY <1>1, <1>2, <1>5, <1>7 DEF Tellings
<1> QED BY <1>4, <1>8

LEMMA GroupMessages ==
    ASSUME NEW s, Sound(s), NEW gr \in Seq(Rounds(s)), Rising(gr), NEW tools, NEW input,
           NEW ss, Tellings(ss, s, gr, tools, input), NEW ms, ms = FlattenSeq(ss)
    PROVE  /\ ms \in Seq(Msgs) /\ Answers(ms) /\ Ordered(ms, SrcOrder)
           /\ \A i \in 1 .. Len(ms) : InRounds(ms[i].src, gr)
           /\ \A k \in 1 .. Len(gr) : Told(gr[k], tools) =>
                  \E i \in 1 .. Len(ms) : ms[i].src = From(gr[k])
<1>0. Stamp(s)
    BY DEF Sound
<1>1. PICK n : n = Len(gr)
    OBVIOUS
<1>2. /\ n \in Nat /\ ss \in Seq(Seq(Msgs)) /\ Len(ss) = n
      /\ \A k \in 1 .. n : gr[k] \in Rounds(s)
    BY <1>1 DEF Tellings
<1>3. ASSUME NEW k \in 1 .. n
      PROVE  /\ ss[k] \in Seq(Msgs) /\ Answers(ss[k])
             /\ \A i \in 1 .. Len(ss[k]) : ss[k][i].src \in From(gr[k]) .. To(gr[k])
             /\ \A i, j \in 1 .. Len(ss[k]) : i < j => ss[k][i].src < ss[k][j].src
             /\ Told(gr[k], tools) => 1 \in 1 .. Len(ss[k]) /\ ss[k][1].src = From(gr[k])
    BY <1>1 DEF Tellings, Told1
<1>4. ASSUME NEW k \in 1 .. n
      PROVE  /\ From(gr[k]) \in Nat /\ To(gr[k]) \in Nat
             /\ \A x \in From(gr[k]) .. To(gr[k]) : x \in Nat /\ From(gr[k]) <= x /\ x <= To(gr[k])
    <2>1. gr[k] \in Rounds(s)
        BY <1>2
    <2>2. From(gr[k]) \in 1 .. Len(s) /\ To(gr[k]) \in From(gr[k]) .. Len(s) /\ Len(s) \in Nat
        BY <1>0, <2>1, RoundPlaces
    <2>3. From(gr[k]) \in Nat /\ To(gr[k]) \in Nat
        BY <2>2
    <2> QED BY <2>3, Inside
<1>5. ASSUME NEW k \in 1 .. n, NEW l \in 1 .. n, k < l PROVE To(gr[k]) < From(gr[l])
    <2>1. From(gr[k]) < From(gr[l])
        BY <1>1, <1>5 DEF Rising
    <2>2. gr[k] \in Rounds(s) /\ gr[l] \in Rounds(s)
        BY <1>2
    <2> QED BY <1>0, <2>1, <2>2, RoundsApart
<1>6. ms \in Seq(Msgs)
    BY <1>2, FlattenTyped
<1>7. Answers(ms)
    <2>1. PICK P : P = {x \in Seq(Msgs) : Answers(x)}
        OBVIOUS
    <2>2. <<>> \in P
        <3>1. <<>> \in Seq(Msgs) /\ Len(<<>>) = 0
            OBVIOUS
        <3> QED BY <2>1, <3>1 DEF Answers
    <2>3. ASSUME NEW a \in Seq(Msgs), NEW b \in Seq(Msgs), a \in P, b \in P PROVE a \o b \in P
        <3>1. Answers(a \o b)
            BY <2>1, <2>3, AnswersConcat
        <3>2. a \o b \in Seq(Msgs)
            BY ConcatProperties
        <3> QED BY <2>1, <3>1, <3>2
    <2>4. \A k \in 1 .. Len(ss) : ss[k] \in P
        BY <1>2, <1>3, <2>1
    <2>5. FlattenSeq(ss) \in P
        BY <1>2, <2>2, <2>3, <2>4, FlattenClosed
    <2> QED BY <2>1, <2>5
<1>8. Ordered(ms, SrcOrder)
    <2>1. ASSUME NEW k \in 1 .. Len(ss) PROVE Ordered(ss[k], SrcOrder)
        <3>1. /\ ss[k] \in Seq(Msgs)
              /\ \A i, j \in 1 .. Len(ss[k]) : i < j => ss[k][i].src < ss[k][j].src
            BY <1>2, <1>3
        <3>2. \A i \in 1 .. Len(ss[k]) : ss[k][i] \in Msgs
            BY <3>1, ElementOfSeq
        <3> QED BY <3>1, <3>2 DEF Ordered, SrcOrder
    <2>2. ASSUME NEW k \in 1 .. Len(ss), NEW l \in 1 .. Len(ss), k < l,
                 NEW i \in 1 .. Len(ss[k]), NEW j \in 1 .. Len(ss[l])
          PROVE  <<ss[k][i], ss[l][j]>> \in SrcOrder
        <3>1. k \in 1 .. n /\ l \in 1 .. n
            BY <1>2
        <3>2. PICK a, b : a = ss[k][i] /\ b = ss[l][j]
            OBVIOUS
        <3>3. a \in Msgs /\ b \in Msgs
            <4>1. ss[k] \in Seq(Msgs) /\ ss[l] \in Seq(Msgs)
                BY <1>3, <3>1
            <4> QED BY <3>2, <4>1, ElementOfSeq
        <3>4. a.src \in From(gr[k]) .. To(gr[k]) /\ b.src \in From(gr[l]) .. To(gr[l])
            BY <1>3, <3>1, <3>2
        <3>5. a.src \in Nat /\ b.src \in Nat /\ a.src <= To(gr[k]) /\ From(gr[l]) <= b.src
            BY <1>4, <3>1, <3>4
        <3>6. To(gr[k]) < From(gr[l]) /\ To(gr[k]) \in Nat /\ From(gr[l]) \in Nat
            BY <1>4, <1>5, <2>2, <3>1
        <3>7. a.src < b.src
            BY <3>5, <3>6
        <3> QED BY <3>2, <3>3, <3>7 DEF SrcOrder
    <2> QED BY <1>2, <2>1, <2>2, OrderedFlatten
<1>9. /\ \A p \in 1 .. Len(ms) : \E k \in 1 .. n : \E i \in 1 .. Len(ss[k]) : ms[p] = ss[k][i]
      /\ \A k \in 1 .. n : \A i \in 1 .. Len(ss[k]) : \E p \in 1 .. Len(ms) : ms[p] = ss[k][i]
    <2>1. PICK F : F = FlattenSeq(ss)
        OBVIOUS
    <2>2. PICK b, o : Places(b, o, ss, F)
        BY <1>2, <2>1, FlattenPlaces
    <2>3. ASSUME NEW p \in 1 .. Len(F) PROVE \E k \in 1 .. n : \E i \in 1 .. Len(ss[k]) : F[p] = ss[k][i]
        <3>1. b[p] \in 1 .. n /\ o[p] \in 1 .. Len(ss[b[p]]) /\ F[p] = ss[b[p]][o[p]]
            BY <1>2, <2>2 DEF Places
        <3> QED BY <3>1
    <2>4. ASSUME NEW k \in 1 .. n, NEW i \in 1 .. Len(ss[k])
          PROVE  \E p \in 1 .. Len(F) : F[p] = ss[k][i]
        <3>1. k \in 1 .. Len(ss)
            BY <1>2
        <3>2. PICK p \in 1 .. Len(F) : b[p] = k /\ o[p] = i
            BY <2>2, <3>1 DEF Places
        <3>3. F[p] = ss[b[p]][o[p]]
            BY <2>2 DEF Places
        <3> QED BY <3>2, <3>3
    <2> QED BY <2>1, <2>3, <2>4
<1>10. ASSUME NEW p \in 1 .. Len(ms) PROVE InRounds(ms[p].src, gr)
    <2>1. PICK k \in 1 .. n : \E i \in 1 .. Len(ss[k]) : ms[p] = ss[k][i]
        BY <1>9
    <2>2. PICK i \in 1 .. Len(ss[k]) : ms[p] = ss[k][i]
        BY <2>1
    <2>3. ms[p].src \in From(gr[k]) .. To(gr[k])
        BY <1>3, <2>2
    <2> QED BY <1>1, <2>3 DEF InRounds
<1>11. ASSUME NEW k \in 1 .. n, Told(gr[k], tools)
       PROVE  \E p \in 1 .. Len(ms) : ms[p].src = From(gr[k])
    <2>1. 1 \in 1 .. Len(ss[k]) /\ ss[k][1].src = From(gr[k])
        BY <1>3, <1>11
    <2>2. PICK p \in 1 .. Len(ms) : ms[p] = ss[k][1]
        BY <1>9, <2>1
    <2> QED BY <2>1, <2>2
<1> QED BY <1>1, <1>6, <1>7, <1>8, <1>10, <1>11

\* The lists rs are what the lists ss tell.
Parts(rs, L, ss) ==
    /\ Spread(L, FlattenSeq(ss)) = FlattenSeq(rs) /\ Len(rs) = Len(ss)
    /\ \A k \in 1 .. Len(ss) : rs[k] = Spread(L, ss[k])

LEMMA SpreadParts ==
    ASSUME NEW A, NEW B, NEW L, Tells(L, A, B), NEW ss \in Seq(Seq(A))
    PROVE  \E rs \in Seq(Seq(B)) : Parts(rs, L, ss)
<1>1. PICK M, C : C = Seq(A) /\ M = [x \in C |-> Spread(L, x)]
    OBVIOUS
<1>2. \A x \in C : Spread(L, x) \in Seq(B)
    BY <1>1, SpreadTyped
<1>3. Tells(M, C, B) /\ \A x \in C : M[x] = Spread(L, x)
    BY <1>1, <1>2 DEF Tells
<1>4. PICK rs : rs = Each(M, ss)
    OBVIOUS
<1>5. ss \in Seq(C)
    BY <1>1
<1>6. rs \in Seq(Seq(B)) /\ Len(rs) = Len(ss) /\ \A k \in 1 .. Len(ss) : rs[k] = M[ss[k]]
    BY <1>3, <1>4, <1>5, EachIs
<1>7. Spread(L, FlattenSeq(ss)) = FlattenSeq(rs)
    <2>1. Spread(L, FlattenSeq(ss)) = FlattenSeq(Each([s \in Seq(A) |-> Spread(L, s)], ss))
        BY SpreadFlatten
    <2> QED BY <1>1, <1>4, <2>1
<1>8. \A k \in 1 .. Len(ss) : rs[k] = Spread(L, ss[k])
    <2>1. \A k \in 1 .. Len(ss) : ss[k] \in C
        BY <1>5, ElementOfSeq
    <2> QED BY <1>3, <1>6, <2>1
<1> QED BY <1>6, <1>7, <1>8 DEF Parts

HasTold(gr, tools) == \E k \in 1 .. Len(gr) : Told(gr[k], tools)

\* The first round of the group that is told carries the group input.
LEMMA GroupCarries ==
    ASSUME NEW s, NEW gr, NEW tools, NEW input,
           NEW ss, Tellings(ss, s, gr, tools, input), NEW ms, ms = FlattenSeq(ss)
    PROVE  Spread(Carried, ms) = IF HasTold(gr, tools) THEN input ELSE <<>>
<1>1. PICK n : n = Len(gr)
    OBVIOUS
<1>2. n \in Nat /\ ss \in Seq(Seq(Msgs)) /\ Len(ss) = n
    BY <1>1 DEF Tellings
<1>3. PICK rs \in Seq(Seq(Notes)) :
         /\ Spread(Carried, FlattenSeq(ss)) = FlattenSeq(rs) /\ Len(rs) = Len(ss)
         /\ \A k \in 1 .. Len(ss) : rs[k] = Spread(Carried, ss[k])
    <2>1. PICK L : L = Carried
        OBVIOUS
    <2>2. Tells(L, Msgs, Notes) /\ ss \in Seq(Seq(Msgs))
        BY <1>2, <2>1, ReadTells
    <2>3. \E rs \in Seq(Seq(Notes)) : Parts(rs, L, ss)
        BY <2>2, SpreadParts
    <2> QED BY <2>1, <2>3 DEF Parts
<1>4. ASSUME NEW k \in 1 .. n
      PROVE  rs[k] = IF Told(gr[k], tools) THEN CarriedBy(gr, tools, input, k) ELSE <<>>
    BY <1>1, <1>2, <1>3 DEF Tellings, Told1
<1>5. CASE ~HasTold(gr, tools)
    <2>1. \A k \in 1 .. Len(rs) : rs[k] = <<>>
        BY <1>1, <1>2, <1>3, <1>4, <1>5 DEF HasTold
    <2>2. FlattenSeq(rs) = <<>>
        BY <2>1, FlattenNothing
    <2> QED BY <1>3, <1>5, <2>2
<1>6. CASE HasTold(gr, tools)
    <2>1. PICK T : T = {k \in 1 .. n : Told(gr[k], tools)}
        OBVIOUS
    <2>2. T \subseteq Nat /\ T # {}
        BY <1>1, <1>2, <1>6, <2>1 DEF HasTold
    <2>3. PICK f \in T : \A y \in T : f <= y
        BY <2>2, Least
    <2>4. f \in 1 .. n /\ Told(gr[f], tools) /\ f \in Nat
        BY <1>2, <2>1, <2>3
    <2>5. ASSUME NEW j \in 1 .. (f - 1) PROVE ~Told(gr[j], tools)
        <3>1. j \in 1 .. n /\ ~(f <= j)
            BY <1>2, <2>4
        <3> QED BY <2>1, <2>3, <3>1
    <2>6. rs[f] = input
        BY <1>4, <2>4, <2>5 DEF CarriedBy
    <2>7. ASSUME NEW k \in 1 .. Len(rs), k # f PROVE rs[k] = <<>>
        <3>1. k \in 1 .. n
            BY <1>2, <1>3
        <3>2. CASE Told(gr[k], tools)
            <4>1. f <= k
                BY <2>1, <2>3, <3>1, <3>2
            <4>2. f \in 1 .. (k - 1)
                BY <1>2, <2>4, <2>7, <3>1, <4>1
            <4> QED BY <1>4, <2>4, <3>1, <4>2 DEF CarriedBy
        <3>3. CASE ~Told(gr[k], tools)
            BY <1>4, <3>1, <3>3
        <3> QED BY <3>2, <3>3
    <2>8. f \in 1 .. Len(rs)
        BY <1>2, <1>3, <2>4
    <2>9. FlattenSeq(rs) = rs[f]
        BY <2>7, <2>8, FlattenSingle
    <2> QED BY <1>3, <1>6, <2>6, <2>9
<1> QED BY <1>5, <1>6

LEMMA AwareConcat ==
    ASSUME NEW s, NEW v \in Seq(Notes), NEW w \in Seq(Notes), Aware(v, s), Aware(w, s)
    PROVE  v \o w \in Seq(Notes) /\ Aware(v \o w, s)
<1>1. PICK u, n, m : u = v \o w /\ n = Len(v) /\ m = Len(w)
    OBVIOUS
<1>2. /\ n \in Nat /\ m \in Nat /\ u \in Seq(Notes) /\ Len(u) = n + m
      /\ \A i \in 1 .. n + m : u[i] = IF i <= n THEN v[i] ELSE w[i - n]
    BY <1>1, ConcatProperties, LenProperties
<1>3. ASSUME NEW i \in 1 .. n + m, u[i].src \in 1 .. Len(s), NEW x \in 1 .. u[i].src - 1,
             Rests(s, x, u[i].src)
      PROVE  \E j \in 1 .. i - 1 : u[j].src = x /\ u[j].stale
    <2>1. CASE i <= n
        <3>1. u[i] = v[i] /\ i \in 1 .. n
            BY <1>2, <2>1
        <3>2. PICK j \in 1 .. i - 1 : v[j].src = x /\ v[j].stale
            BY <1>1, <1>3, <3>1 DEF Aware
        <3>3. u[j] = v[j]
            BY <1>2, <3>1
        <3> QED BY <3>2, <3>3
    <2>2. CASE ~(i <= n)
        <3>1. u[i] = w[i - n] /\ i - n \in 1 .. m
            BY <1>2, <2>2
        <3>2. PICK h : h = i - n
            OBVIOUS
        <3>3. h \in 1 .. Len(w) /\ u[i] = w[h]
            BY <1>1, <3>1, <3>2
        <3>4. /\ w[h].src \in 1 .. Len(s) /\ x \in 1 .. w[h].src - 1
              /\ Rests(s, x, w[h].src)
            BY <1>3, <3>3
        <3>5. PICK j \in 1 .. h - 1 : w[j].src = x /\ w[j].stale
            BY <3>3, <3>4 DEF Aware
        <3>6. PICK l : l = n + j
            OBVIOUS
        <3>7. l \in 1 .. i - 1 /\ l \in 1 .. n + m /\ ~(l <= n) /\ l - n = j
            BY <1>2, <2>2, <3>1, <3>2, <3>6
        <3>8. u[l] = w[j]
            BY <1>2, <3>7
        <3> QED BY <3>5, <3>7, <3>8
    <2> QED BY <2>1, <2>2
<1>4. Aware(u, s)
    BY <1>2, <1>3 DEF Aware
<1> QED BY <1>1, <1>2, <1>4

LEMMA AwareFlatten ==
    ASSUME NEW s, NEW ss \in Seq(Seq(Notes)), \A k \in 1 .. Len(ss) : Aware(ss[k], s)
    PROVE  FlattenSeq(ss) \in Seq(Notes) /\ Aware(FlattenSeq(ss), s)
<1>1. PICK P : P = {w \in Seq(Notes) : Aware(w, s)}
    OBVIOUS
<1>2. <<>> \in P
    <2>1. <<>> \in Seq(Notes) /\ Len(<<>>) = 0
        OBVIOUS
    <2> QED BY <1>1, <2>1 DEF Aware
<1>3. ASSUME NEW a \in Seq(Notes), NEW b \in Seq(Notes), a \in P, b \in P PROVE a \o b \in P
    <2>1. a \o b \in Seq(Notes) /\ Aware(a \o b, s)
        BY <1>1, <1>3, AwareConcat
    <2> QED BY <1>1, <2>1
<1>4. \A k \in 1 .. Len(ss) : ss[k] \in P
    <2>1. \A k \in 1 .. Len(ss) : ss[k] \in Seq(Notes)
        BY ElementOfSeq
    <2> QED BY <1>1, <2>1
<1>5. FlattenSeq(ss) \in P
    BY <1>2, <1>3, <1>4, FlattenClosed
<1> QED BY <1>1, <1>5

\* The messages of a group are read after the group input, in order.
\* How the messages of a group are read when its first one carries the input.
ReadAfter(told, s, gr, input) ==
    /\ told \in Seq(Notes)
    /\ Aware(input, s) => Aware(told, s)
    /\ \A p \in 1 .. Len(told) : \/ \E q \in 1 .. Len(input) : told[p] = input[q]
                                 \/ InRounds(told[p].src, gr)
    /\ (/\ Ordered(input, NoteOrder)
        /\ \A q \in 1 .. Len(input), k \in 1 .. Len(gr) : input[q].src < From(gr[k]))
           => Ordered(told, NoteOrder)

LEMMA GroupReads ==
    ASSUME NEW s, Sound(s), NEW gr \in Seq(Rounds(s)), Rising(gr), NEW tools,
           NEW input \in Seq(Notes),
           NEW ss, Tellings(ss, s, gr, tools, input), NEW ms, ms = FlattenSeq(ss),
           NEW told, told = Spread(Read, ms)
    PROVE  ReadAfter(told, s, gr, input)
<1>0. Stamp(s)
    BY DEF Sound
<1>1. PICK n : n = Len(gr)
    OBVIOUS
<1>2. /\ n \in Nat /\ ss \in Seq(Seq(Msgs)) /\ Len(ss) = n
      /\ \A k \in 1 .. n : gr[k] \in Rounds(s)
    BY <1>1 DEF Tellings
<1>3. PICK rs \in Seq(Seq(Notes)) :
         /\ Spread(Read, FlattenSeq(ss)) = FlattenSeq(rs) /\ Len(rs) = Len(ss)
         /\ \A k \in 1 .. Len(ss) : rs[k] = Spread(Read, ss[k])
    <2>1. PICK L : L = Read
        OBVIOUS
    <2>2. Tells(L, Msgs, Notes) /\ ss \in Seq(Seq(Msgs))
        BY <1>2, <2>1, ReadTells
    <2>3. \E rs \in Seq(Seq(Notes)) : Parts(rs, L, ss)
        BY <2>2, SpreadParts
    <2> QED BY <2>1, <2>3 DEF Parts
<1>4. told = FlattenSeq(rs) /\ Len(rs) = n /\ told \in Seq(Notes)
    <2>1. FlattenSeq(rs) \in Seq(Notes)
        BY FlattenTyped
    <2> QED BY <1>2, <1>3, <2>1
<1>5. ASSUME NEW k \in 1 .. n
      PROVE  \E c, own : /\ c \in Seq(Notes) /\ own \in Seq(Notes)
                         /\ c = input \/ c = <<>>
                         /\ Ordered(own, NoteOrder) /\ Aware(own, s)
                         /\ \A i \in 1 .. Len(own) : own[i].src \in From(gr[k]) .. To(gr[k])
                         /\ rs[k] = (IF Told(gr[k], tools) THEN c \o own ELSE <<>>)
                         /\ (\E j \in 1 .. k - 1 : Told(gr[j], tools)) => c = <<>>
    <2>1. PICK c : c = CarriedBy(gr, tools, input, k)
        OBVIOUS
    <2>2. PICK own : Reads(ss[k], s, From(gr[k]), To(gr[k]), c, Told(gr[k], tools), own)
        BY <1>1, <2>1 DEF Tellings
    <2>3. c \in Seq(Notes) /\ (c = input \/ c = <<>>)
          /\ ((\E j \in 1 .. k - 1 : Told(gr[j], tools)) => c = <<>>)
        <3>1. <<>> \in Seq(Notes)
            OBVIOUS
        <3> QED BY <2>1, <3>1 DEF CarriedBy
    <2>4. rs[k] = (IF Told(gr[k], tools) THEN c \o own ELSE <<>>)
        BY <1>2, <1>3, <2>2 DEF Reads
    <2> QED BY <2>2, <2>3, <2>4 DEF Reads
<1>6. ASSUME NEW k \in 1 .. n
      PROVE  /\ From(gr[k]) \in Nat /\ To(gr[k]) \in Nat
             /\ \A x \in From(gr[k]) .. To(gr[k]) : x \in Nat /\ From(gr[k]) <= x /\ x <= To(gr[k])
    <2>1. gr[k] \in Rounds(s)
        BY <1>2
    <2>2. From(gr[k]) \in 1 .. Len(s) /\ To(gr[k]) \in From(gr[k]) .. Len(s) /\ Len(s) \in Nat
        BY <1>0, <2>1, RoundPlaces
    <2>3. From(gr[k]) \in Nat /\ To(gr[k]) \in Nat
        BY <2>2
    <2> QED BY <2>3, Inside
<1>7. ASSUME NEW k \in 1 .. n, NEW l \in 1 .. n, k < l PROVE To(gr[k]) < From(gr[l])
    <2>1. From(gr[k]) < From(gr[l])
        BY <1>1, <1>7 DEF Rising
    <2>2. gr[k] \in Rounds(s) /\ gr[l] \in Rounds(s)
        BY <1>2
    <2> QED BY <1>0, <2>1, <2>2, RoundsApart
<1>8. ASSUME Aware(input, s) PROVE Aware(told, s)
    <2>1. ASSUME NEW k \in 1 .. Len(rs) PROVE Aware(rs[k], s)
        <3>1. k \in 1 .. n
            BY <1>4
        <3>2. PICK c, own : /\ c \in Seq(Notes) /\ own \in Seq(Notes) /\ (c = input \/ c = <<>>)
                            /\ Aware(own, s)
                            /\ rs[k] = (IF Told(gr[k], tools) THEN c \o own ELSE <<>>)
            BY <1>5, <3>1
        <3>3. Aware(<<>>, s)
            <4>1. Len(<<>>) = 0
                OBVIOUS
            <4> QED BY <4>1 DEF Aware
        <3>4. Aware(c, s)
            BY <1>8, <3>2, <3>3
        <3>5. Aware(c \o own, s)
            BY <3>2, <3>4, AwareConcat
        <3> QED BY <3>2, <3>3, <3>5
    <2> QED BY <1>4, <2>1, AwareFlatten
<1>9. ASSUME NEW k \in 1 .. n, NEW i \in 1 .. Len(rs[k])
      PROVE  /\ Told(gr[k], tools) /\ rs[k][i] \in Notes
             /\ \/ /\ \E q \in 1 .. Len(input) : rs[k][i] = input[q]
                   /\ \A j \in 1 .. k - 1 : ~Told(gr[j], tools)
                \/ rs[k][i].src \in From(gr[k]) .. To(gr[k])
    <2>1. PICK c, own : /\ c \in Seq(Notes) /\ own \in Seq(Notes) /\ (c = input \/ c = <<>>)
                        /\ \A x \in 1 .. Len(own) : own[x].src \in From(gr[k]) .. To(gr[k])
                        /\ rs[k] = (IF Told(gr[k], tools) THEN c \o own ELSE <<>>)
                        /\ (\E j \in 1 .. k - 1 : Told(gr[j], tools)) => c = <<>>
        BY <1>5
    <2>2. Told(gr[k], tools)
        <3>1. SUFFICES ASSUME ~Told(gr[k], tools) PROVE FALSE
            OBVIOUS
        <3>2. rs[k] = <<>>
            BY <2>1, <3>1
        <3>3. Len(rs[k]) = 0
            BY <3>2
        <3> QED BY <3>3
    <2>3. PICK u : u = c \o own
        OBVIOUS
    <2>4. rs[k] = u
        BY <2>1, <2>2, <2>3
    <2>5. /\ u \in Seq(Notes) /\ Len(c) \in Nat /\ Len(own) \in Nat /\ Len(u) = Len(c) + Len(own)
          /\ \A x \in 1 .. Len(c) + Len(own) : u[x] = IF x <= Len(c) THEN c[x] ELSE own[x - Len(c)]
        BY <2>1, <2>3, ConcatProperties, LenProperties
    <2>6. i \in 1 .. Len(u) /\ u[i] \in Notes
        BY <2>4, <2>5, ElementOfSeq
    <2>7. CASE i <= Len(c)
        <3>1. i \in 1 .. Len(c) /\ u[i] = c[i]
            BY <2>5, <2>6, <2>7
        <3>2. c # <<>>
            <4>1. SUFFICES ASSUME c = <<>> PROVE FALSE
                OBVIOUS
            <4>2. Len(c) = 0
                BY <4>1
            <4> QED BY <3>1, <4>2
        <3>3. c = input /\ \A j \in 1 .. k - 1 : ~Told(gr[j], tools)
            BY <2>1, <3>2
        <3> QED BY <2>2, <2>4, <2>6, <3>1, <3>3
    <2>8. CASE ~(i <= Len(c))
        <3>1. i - Len(c) \in 1 .. Len(own) /\ u[i] = own[i - Len(c)]
            BY <2>5, <2>6, <2>8
        <3>2. u[i].src \in From(gr[k]) .. To(gr[k])
            BY <2>1, <3>1
        <3> QED BY <2>2, <2>4, <2>6, <3>2
    <2> QED BY <2>7, <2>8
<1>10. ASSUME NEW p \in 1 .. Len(told)
       PROVE  (\E q \in 1 .. Len(input) : told[p] = input[q]) \/ InRounds(told[p].src, gr)
    <2>1. PICK b, o : Places(b, o, rs, told)
        BY <1>4, FlattenPlaces
    <2>2. PICK k, i : k = b[p] /\ i = o[p]
        OBVIOUS
    <2>3. k \in 1 .. n /\ i \in 1 .. Len(rs[k]) /\ told[p] = rs[k][i]
        BY <1>4, <2>1, <2>2 DEF Places
    <2> QED BY <1>1, <1>9, <2>3 DEF InRounds
<1>11. ASSUME Ordered(input, NoteOrder),
              \A q \in 1 .. Len(input), k \in 1 .. Len(gr) : input[q].src < From(gr[k])
       PROVE  Ordered(told, NoteOrder)
    <2>0. \A q \in 1 .. Len(input) : input[q] \in Notes /\ input[q].src \in Nat
        <3>1. \A q \in 1 .. Len(input) : input[q] \in Notes
            BY ElementOfSeq
        <3> QED BY <3>1 DEF Notes
    <2>1. ASSUME NEW k \in 1 .. Len(rs) PROVE Ordered(rs[k], NoteOrder)
        <3>1. k \in 1 .. n
            BY <1>4
        <3>2. PICK c, own : /\ c \in Seq(Notes) /\ own \in Seq(Notes) /\ (c = input \/ c = <<>>)
                            /\ Ordered(own, NoteOrder)
                            /\ \A x \in 1 .. Len(own) : own[x].src \in From(gr[k]) .. To(gr[k])
                            /\ rs[k] = (IF Told(gr[k], tools) THEN c \o own ELSE <<>>)
            BY <1>5, <3>1
        <3>3. Ordered(<<>>, NoteOrder)
            <4>1. Len(<<>>) = 0
                OBVIOUS
            <4> QED BY <4>1 DEF Ordered
        <3>4. Ordered(c, NoteOrder)
            BY <1>11, <3>2, <3>3
        <3>5. ASSUME NEW i \in 1 .. Len(c), NEW j \in 1 .. Len(own)
              PROVE  <<c[i], own[j]>> \in NoteOrder
            <4>1. c[i] \in Notes /\ own[j] \in Notes
                BY <3>2, ElementOfSeq
            <4>2. c = input
                <5>1. SUFFICES ASSUME c = <<>> PROVE FALSE
                    BY <3>2
                <5>2. Len(c) = 0
                    BY <5>1
                <5> QED BY <3>5, <5>2
            <4>3. PICK a, b : a = c[i] /\ b = own[j]
                OBVIOUS
            <4>4. a.src < From(gr[k]) /\ a.src \in Nat /\ From(gr[k]) \in Nat
                BY <1>1, <1>6, <1>11, <2>0, <3>1, <4>2, <4>3
            <4>5. b.src \in From(gr[k]) .. To(gr[k])
                BY <3>2, <4>3
            <4>6. b.src \in Nat /\ From(gr[k]) <= b.src
                BY <1>6, <3>1, <4>5
            <4>7. a.src <= b.src /\ a # b
                BY <4>4, <4>6
            <4> QED BY <4>1, <4>3, <4>7 DEF NoteOrder
        <3>6. Ordered(c \o own, NoteOrder)
            BY <3>2, <3>4, <3>5, OrderedConcat
        <3> QED BY <3>2, <3>3, <3>6
    <2>2. ASSUME NEW k \in 1 .. Len(rs), NEW l \in 1 .. Len(rs), k < l,
                 NEW i \in 1 .. Len(rs[k]), NEW j \in 1 .. Len(rs[l])
          PROVE  <<rs[k][i], rs[l][j]>> \in NoteOrder
        <3>1. k \in 1 .. n /\ l \in 1 .. n /\ k \in 1 .. l - 1
            BY <1>2, <1>4, <2>2
        <3>2. PICK a, b : a = rs[k][i] /\ b = rs[l][j]
            OBVIOUS
        <3>3. /\ Told(gr[k], tools) /\ a \in Notes
              /\ (\E q \in 1 .. Len(input) : a = input[q]) \/ a.src \in From(gr[k]) .. To(gr[k])
            BY <1>9, <3>1, <3>2
        <3>4. b \in Notes /\ b.src \in From(gr[l]) .. To(gr[l])
            BY <1>9, <3>1, <3>2, <3>3
        <3>5. b.src \in Nat /\ From(gr[l]) <= b.src /\ From(gr[l]) \in Nat
            BY <1>6, <3>1, <3>4
        <3>6. a.src \in Nat /\ a.src < From(gr[l])
            <4>1. CASE \E q \in 1 .. Len(input) : a = input[q]
                BY <1>1, <1>11, <2>0, <3>1, <4>1
            <4>2. CASE a.src \in From(gr[k]) .. To(gr[k])
                <5>1. a.src \in Nat /\ a.src <= To(gr[k]) /\ To(gr[k]) \in Nat
                    BY <1>6, <3>1, <4>2
                <5>2. To(gr[k]) < From(gr[l])
                    BY <1>7, <2>2, <3>1
                <5> QED BY <3>5, <5>1, <5>2
            <4> QED BY <3>3, <4>1, <4>2
        <3>7. a.src <= b.src /\ a # b
            BY <3>5, <3>6
        <3> QED BY <3>2, <3>3, <3>4, <3>7 DEF NoteOrder
    <2> QED BY <1>4, <2>1, <2>2, OrderedFlatten
<1> QED BY <1>4, <1>8, <1>10, <1>11 DEF ReadAfter

-----------------------------------------------------------------------------
(* What other agents are told of a round.                                   *)

ElementsOf(a) ==
    CASE a.kind = "input" /\ a.wake -> <<>>
      [] a.kind = "change" -> <<Element(Message("assistant", a), 0)>>
      [] OTHER -> FlattenSeq([j \in DOMAIN ArtifactToMessages(a) |->
                    MessageToElements(ArtifactToMessages(a)[j])])

Well       == {a \in Artifacts : Shaped(a)}
InElements == [a \in Well |-> ElementsOf(a)]

Wakes(a) == a.kind = "input" /\ a.wake

LEMMA ElementIs ==
    ASSUME NEW m \in Msgs, NEW c \in Nat
    PROVE  Element(m, c) \in Notes /\ Element(m, c).src = m.src /\ Element(m, c).call = c
           /\ Element(m, c).stale = m.stale
<1>1. m.src \in Nat /\ m.stale \in BOOLEAN
    BY DEF Msgs
<1> QED BY <1>1 DEF Element, Notes

LEMMA MessageElements ==
    ASSUME NEW m \in Msgs, m.calls # <<>> => m.role # "tool"
    PROVE  LET E == MessageToElements(m)
           IN  /\ E \in Seq(Notes) /\ 1 \in 1 .. Len(E)
               /\ \A p \in 1 .. Len(E) : E[p].src = m.src /\ E[p].stale = m.stale
               /\ Distinct(m.calls) => Ordered(E, NoteOrder)
<1>1. PICK n, E : n = Len(m.calls) /\ E = MessageToElements(m)
    OBVIOUS
<1>2. m.calls \in Seq(Calls) /\ m.call \in Nat /\ m.src \in Nat
    BY DEF Msgs
<1>3. n \in Nat /\ DOMAIN m.calls = 1 .. n /\ \A k \in 1 .. n : m.calls[k].id \in Nat
    <2>1. n \in Nat /\ DOMAIN m.calls = 1 .. n
        BY <1>1, <1>2, LenProperties
    <2>2. \A k \in 1 .. n : m.calls[k] \in Calls
        BY <1>1, <1>2, ElementOfSeq
    <2> QED BY <2>1, <2>2 DEF Calls
<1>4. PICK C : C = [k \in 1 .. n |-> Element(m, m.calls[k].id)]
    OBVIOUS
<1>5. \A k \in 1 .. n : /\ C[k] \in Notes /\ C[k].src = m.src /\ C[k].call = m.calls[k].id
                        /\ C[k].stale = m.stale
    BY <1>3, <1>4, ElementIs
<1>6. C \in [1 .. n -> Notes]
    BY <1>4, <1>5
<1>7. C \in Seq(Notes) /\ Len(C) = n
    BY <1>3, <1>6, ListOfLength
<1>8. CASE m.calls = <<>>
    <2>1. n = 0
        BY <1>1, <1>8
    <2>2. C = <<>>
        BY <1>7, <2>1, EmptySeq
    <2>3. PICK e, z : e = Element(m, m.call) /\ z = <<e>>
        OBVIOUS
    <2>4. e \in Notes /\ e.src = m.src /\ e.stale = m.stale
        BY <1>2, <2>3, ElementIs
    <2>5. z \in Seq(Notes) /\ Len(z) = 1 /\ z[1] = e
        BY <2>3, <2>4
    <2>6. E = z \o C
        BY <1>1, <1>3, <1>4, <1>8, <2>3 DEF MessageToElements
    <2>7. E = z
        BY <2>2, <2>5, <2>6, ConcatEmptySeq
    <2>8. Ordered(z, NoteOrder)
        BY <2>5 DEF Ordered
    <2>9. 1 \in 1 .. Len(z) /\ \A p \in 1 .. Len(z) : z[p].src = m.src /\ z[p].stale = m.stale
        BY <2>4, <2>5
    <2> QED BY <1>1, <2>5, <2>7, <2>8, <2>9
<1>9. CASE m.calls # <<>>
    <2>1. E = <<>> \o C
        BY <1>1, <1>3, <1>4, <1>9 DEF MessageToElements
    <2>2. E = C
        BY <1>7, <2>1, ConcatEmptySeq
    <2>3. 1 \in 1 .. n
        BY <1>1, <1>2, <1>3, <1>9, EmptySeq
    <2>4. ASSUME Distinct(m.calls) PROVE Ordered(C, NoteOrder)
        <3>1. ASSUME NEW i \in 1 .. n, NEW j \in 1 .. n, i < j
              PROVE  <<C[i], C[j]>> \in NoteOrder
            <4>1. i # j
                BY <1>3, <3>1
            <4>2. C[i].call # C[j].call
                BY <1>1, <1>5, <2>4, <4>1 DEF Distinct
            <4>3. C[i] # C[j]
                BY <4>2
            <4>4. C[i].src <= C[j].src
                BY <1>2, <1>5
            <4>5. C[i] \in Notes /\ C[j] \in Notes
                BY <1>5
            <4> QED BY <4>3, <4>4, <4>5 DEF NoteOrder
        <3> QED BY <1>7, <3>1 DEF Ordered
    <2> QED BY <1>1, <1>5, <1>7, <2>2, <2>3, <2>4
<1> QED BY <1>8, <1>9

LEMMA ArtifactElements ==
    ASSUME NEW a \in Artifacts, Shaped(a)
    PROVE  LET E == ElementsOf(a)
           IN  /\ E \in Seq(Notes)
               /\ \A p \in 1 .. Len(E) : E[p].src = a.src
               /\ Distinct(a.calls) => Ordered(E, NoteOrder)
               /\ Wakes(a) => E = <<>>
               /\ ~Wakes(a) => 1 \in 1 .. Len(E)
               /\ a.kind = "result" => E[1].stale = (a.call \in expired)
<1>1. PICK E : E = ElementsOf(a)
    OBVIOUS
<1>2. CASE Wakes(a)
    <2>1. E = <<>>
        BY <1>1, <1>2 DEF ElementsOf, Wakes
    <2>2. E \in Seq(Notes) /\ Len(E) = 0 /\ a.kind # "result"
        BY <1>2, <2>1 DEF Wakes
    <2>3. Ordered(E, NoteOrder)
        BY <2>2 DEF Ordered
    <2> QED BY <1>1, <1>2, <2>1, <2>2, <2>3
<1>3. CASE ~Wakes(a) /\ a.kind = "change"
    <2>1. PICK m, e : m = Message("assistant", a) /\ e = Element(m, 0)
        OBVIOUS
    <2>2. E = <<e>>
        BY <1>1, <1>3, <2>1 DEF ElementsOf, Wakes
    <2>3. a.src \in Nat /\ m.src = a.src /\ m.stale = FALSE
        BY <2>1 DEF Artifacts, Message
    <2>4. e \in Notes /\ e.src = a.src
        BY <2>1, <2>3 DEF Element, Notes
    <2>5. E \in Seq(Notes) /\ Len(E) = 1 /\ E[1] = e
        BY <2>2, <2>4
    <2>6. Ordered(E, NoteOrder)
        BY <2>5 DEF Ordered
    <2>7. 1 \in 1 .. Len(E) /\ \A p \in 1 .. Len(E) : E[p].src = a.src
        BY <2>4, <2>5
    <2> QED BY <1>1, <1>3, <2>5, <2>6, <2>7
<1>4. CASE ~Wakes(a) /\ a.kind # "change"
    <2>1. ~Reports(a)
        BY <1>4 DEF Reports
    <2>2. PICK m \in Msgs : ArtifactToMessages(a) = <<m>> /\ Says(m, a)
        BY <2>1, ArtifactTold
    <2>3. m.calls # <<>> => m.role # "tool"
        BY <2>2 DEF Says, Shaped
    <2>4. PICK D : D = MessageToElements(m)
        OBVIOUS
    <2>5. /\ D \in Seq(Notes) /\ 1 \in 1 .. Len(D)
          /\ \A p \in 1 .. Len(D) : D[p].src = m.src /\ D[p].stale = m.stale
          /\ Distinct(m.calls) => Ordered(D, NoteOrder)
        BY <2>3, <2>4, MessageElements
    <2>6. E = D
        <3>1. PICK u, f : /\ u = ArtifactToMessages(a)
                          /\ f = [j \in DOMAIN u |-> MessageToElements(u[j])]
            OBVIOUS
        <3>2. E = FlattenSeq(f)
            BY <1>1, <1>4, <3>1 DEF ElementsOf, Wakes
        <3>3. DOMAIN u = 1 .. 1 /\ u[1] = m
            BY <2>2, <3>1
        <3>4. f \in [1 .. 1 -> Seq(Notes)] /\ f[1] = D
            BY <2>4, <2>5, <3>1, <3>3
        <3>5. f \in Seq(Seq(Notes)) /\ Len(f) = 1
            BY <3>4, ListOfLength
        <3>6. FlattenSeq(f) = f[1]
            <4>1. 1 \in 1 .. Len(f) /\ \A k \in 1 .. Len(f) : k # 1 => f[k] = <<>>
                BY <3>5
            <4> QED BY <3>5, <4>1, FlattenSingle
        <3> QED BY <3>2, <3>4, <3>6
    <2> QED BY <1>1, <1>4, <2>2, <2>5, <2>6 DEF Says
<1> QED BY <1>2, <1>3, <1>4

\* w are the notes on the places X of s, in order and each once; only the empty inputs
\* that woke an agent are left out.
Collects(w, s, X) ==
    /\ w \in Seq(Notes) /\ Ordered(w, NoteOrder) /\ Aware(w, s)
    /\ \A p \in 1 .. Len(w) : w[p].src \in X /\ ~Wakes(s[w[p].src])
    /\ \A x \in X : ~Wakes(s[x]) => \E p \in 1 .. Len(w) : w[p].src = x

\* The lists ss are notes on the places X[1], X[2], ..., which rise.
CollectedIn(ss, s, X) ==
    /\ \A k \in 1 .. Len(ss) : Collects(ss[k], s, X[k]) /\ X[k] \subseteq Nat
    /\ \A k, l \in 1 .. Len(ss) : k < l => \A x \in X[k], y \in X[l] : x < y

AllOf(X, n) == UNION {X[k] : k \in 1 .. n}

LEMMA CollectsFlatten ==
    ASSUME NEW s, NEW ss \in Seq(Seq(Notes)), NEW X, CollectedIn(ss, s, X),
           NEW F, F = FlattenSeq(ss), NEW U, U = AllOf(X, Len(ss))
    PROVE  Collects(F, s, U)
<1>1. /\ \A k \in 1 .. Len(ss) : Collects(ss[k], s, X[k]) /\ X[k] \subseteq Nat
      /\ \A k, l \in 1 .. Len(ss) : k < l => \A x \in X[k], y \in X[l] : x < y
    BY DEF CollectedIn
<1>0. U = UNION {X[k] : k \in 1 .. Len(ss)}
    BY DEF AllOf
<1>2. F \in Seq(Notes) /\ Aware(F, s)
    BY <1>1, AwareFlatten DEF Collects
<1>3. Ordered(F, NoteOrder)
    <2>1. \A k \in 1 .. Len(ss) : Ordered(ss[k], NoteOrder)
        BY <1>1 DEF Collects
    <2>2. ASSUME NEW k \in 1 .. Len(ss), NEW l \in 1 .. Len(ss), k < l,
                 NEW i \in 1 .. Len(ss[k]), NEW j \in 1 .. Len(ss[l])
          PROVE  <<ss[k][i], ss[l][j]>> \in NoteOrder
        <3>1. PICK a, b : a = ss[k][i] /\ b = ss[l][j]
            OBVIOUS
        <3>2. ss[k] \in Seq(Notes) /\ ss[l] \in Seq(Notes) /\ a.src \in X[k] /\ b.src \in X[l]
            BY <1>1, <3>1 DEF Collects
        <3>3. a \in Notes /\ b \in Notes
            BY <3>1, <3>2, ElementOfSeq
        <3>4. a.src < b.src /\ a.src \in Nat /\ b.src \in Nat
            BY <1>1, <2>2, <3>2
        <3>5. a.src <= b.src /\ a # b
            BY <3>4
        <3> QED BY <3>1, <3>3, <3>5 DEF NoteOrder
    <2> QED BY <1>1, <2>1, <2>2, OrderedFlatten
<1>4. PICK b, o : Places(b, o, ss, F)
    BY <1>1, FlattenPlaces
<1>5. ASSUME NEW p \in 1 .. Len(F) PROVE F[p].src \in U /\ ~Wakes(s[F[p].src])
    <2>1. PICK k, i : k = b[p] /\ i = o[p]
        OBVIOUS
    <2>2. k \in 1 .. Len(ss) /\ i \in 1 .. Len(ss[k]) /\ F[p] = ss[k][i]
        BY <1>4, <2>1 DEF Places
    <2>3. ss[k][i].src \in X[k] /\ ~Wakes(s[ss[k][i].src])
        BY <1>1, <2>2 DEF Collects
    <2> QED BY <1>0, <2>2, <2>3
<1>6. ASSUME NEW x \in U, ~Wakes(s[x]) PROVE \E p \in 1 .. Len(F) : F[p].src = x
    <2>1. PICK k \in 1 .. Len(ss) : x \in X[k]
        BY <1>0
    <2>2. PICK i \in 1 .. Len(ss[k]) : ss[k][i].src = x
        BY <1>1, <1>6, <2>1 DEF Collects
    <2>3. PICK p \in 1 .. Len(F) : b[p] = k /\ o[p] = i
        BY <1>4, <2>2 DEF Places
    <2>4. F[p] = ss[k][i]
        BY <1>4, <2>3 DEF Places
    <2> QED BY <2>2, <2>4
<1> QED BY <1>2, <1>3, <1>5, <1>6 DEF Collects

LEMMA WellRound ==
    ASSUME NEW s, Sound(s), NEW r \in Rounds(s)
    PROVE  /\ r \in Seq(Well) /\ Len(r) \in Nat /\ From(r) \in Nat /\ To(r) \in Nat
           /\ \A j \in 1 .. Len(r) : /\ r[j] \in Artifacts /\ Shaped(r[j]) /\ Distinct(r[j].calls)
                                     /\ r[j].src = From(r) + j - 1
                                     /\ r[j].src \in From(r) .. To(r) /\ r[j] = s[r[j].src]
<1>1. PICK f, t, n : f = From(r) /\ t = To(r) /\ n = Len(r)
    OBVIOUS
<1>2. Stamp(s)
    BY DEF Sound
<1>3. /\ f \in 1 .. Len(s) /\ t \in f .. Len(s) /\ Len(s) \in Nat
    BY <1>1, <1>2, RoundPlaces
<1>4. /\ r \in Seq(Artifacts) /\ n \in Nat
      /\ \A j \in 1 .. n : r[j] = s[f + j - 1] /\ r[j].src = f + j - 1 /\ f + j - 1 \in f .. t
    BY <1>1, <1>2, RoundIs
<1>5. f \in Nat /\ t \in Nat
    BY <1>3
<1>6. ASSUME NEW j \in 1 .. n
      PROVE  /\ r[j] \in Artifacts /\ Shaped(r[j]) /\ Distinct(r[j].calls)
             /\ r[j].src = f + j - 1 /\ r[j].src \in f .. t /\ r[j] = s[r[j].src]
    <2>1. PICK x : x = f + j - 1
        OBVIOUS
    <2>2. r[j] = s[x] /\ r[j].src = x /\ x \in f .. t
        BY <1>4, <2>1
    <2>3. x \in 1 .. Len(s)
        BY <1>3, <2>2
    <2>4. Shaped(s[x]) /\ Distinct(s[x].calls)
        BY <2>3 DEF Sound, Stamp
    <2>5. r[j] \in Artifacts
        BY <1>1, <1>4, ElementOfSeq
    <2> QED BY <2>1, <2>2, <2>4, <2>5
<1>7. r \in Seq(Well)
    <2>1. r \in [1 .. n -> Well]
        <3>1. DOMAIN r = 1 .. n /\ r = [j \in 1 .. n |-> r[j]]
            BY <1>1, <1>4, LenProperties
        <3>2. \A j \in 1 .. n : r[j] \in Well
            BY <1>6 DEF Well
        <3> QED BY <3>1, <3>2
    <2> QED BY <1>4, <2>1, ListOfLength
<1> QED BY <1>1, <1>4, <1>5, <1>6, <1>7

LEMMA ElementsTell == Tells(InElements, Well, Notes)
<1>1. \A a \in Well : ElementsOf(a) \in Seq(Notes)
    BY ArtifactElements DEF Well
<1> QED BY <1>1 DEF InElements, Tells

LEMMA RoundElements ==
    ASSUME NEW s, Sound(s), expired \subseteq Nat \ {0}, NEW r \in Rounds(s)
    PROVE  Collects(RoundToElements(r), s, From(r) .. To(r))
<1>1. PICK f, t, n, F : f = From(r) /\ t = To(r) /\ n = Len(r) /\ F = RoundToElements(r)
    OBVIOUS
<1>2. /\ r \in Seq(Well) /\ n \in Nat /\ f \in Nat /\ t \in Nat
      /\ \A j \in 1 .. n : /\ r[j] \in Artifacts /\ Shaped(r[j]) /\ Distinct(r[j].calls)
                           /\ r[j].src = f + j - 1 /\ r[j].src \in f .. t /\ r[j] = s[r[j].src]
    BY <1>1, WellRound
<1>3. PICK E : E = Each(InElements, r)
    OBVIOUS
<1>4. DOMAIN r = 1 .. n /\ \A j \in 1 .. n : r[j] \in Well /\ InElements[r[j]] = ElementsOf(r[j])
    <2>1. \A j \in 1 .. n : r[j] \in Well
        BY <1>2 DEF Well
    <2> QED BY <1>1, <1>2, <2>1, LenProperties DEF InElements
<1>5. /\ E \in Seq(Seq(Notes)) /\ Len(E) = n
      /\ \A j \in 1 .. n : E[j] = ElementsOf(r[j]) /\ E[j] \in Seq(Notes)
    BY <1>1, <1>2, <1>3, <1>4, ElementsTell, EachIs
<1>6. F = FlattenSeq(E)
    <2>1. E = [i \in DOMAIN r |-> ElementsOf(r[i])]
        BY <1>3, <1>4 DEF Each
    <2> QED BY <1>1, <2>1 DEF RoundToElements, ElementsOf
<1>7. F \in Seq(Notes)
    BY <1>5, <1>6, FlattenTyped
<1>8. PICK b, o : Places(b, o, E, F)
    BY <1>5, <1>6, FlattenPlaces
<1>9. \A j \in 1 .. n : /\ \A p \in 1 .. Len(E[j]) : E[j][p].src = r[j].src
                        /\ Ordered(E[j], NoteOrder)
                        /\ Wakes(r[j]) => E[j] = <<>>
                        /\ ~Wakes(r[j]) => 1 \in 1 .. Len(E[j])
                        /\ r[j].kind = "result" => E[j][1].stale = (r[j].call \in expired)
    <2> SUFFICES ASSUME NEW j \in 1 .. n
                 PROVE  /\ \A p \in 1 .. Len(E[j]) : E[j][p].src = r[j].src
                        /\ Ordered(E[j], NoteOrder)
                        /\ Wakes(r[j]) => E[j] = <<>>
                        /\ ~Wakes(r[j]) => 1 \in 1 .. Len(E[j])
                        /\ r[j].kind = "result" => E[j][1].stale = (r[j].call \in expired)
        OBVIOUS
    <2>1. PICK a, e : a = r[j] /\ e = E[j]
        OBVIOUS
    <2>2. a \in Artifacts /\ Shaped(a) /\ Distinct(a.calls) /\ e = ElementsOf(a)
        BY <1>2, <1>5, <2>1
    <2>3. /\ \A p \in 1 .. Len(e) : e[p].src = a.src
          /\ Ordered(e, NoteOrder)
          /\ Wakes(a) => e = <<>>
          /\ ~Wakes(a) => 1 \in 1 .. Len(e)
          /\ a.kind = "result" => e[1].stale = (a.call \in expired)
        BY <2>2, ArtifactElements
    <2> QED BY <2>1, <2>3
<1>10. ASSUME NEW p \in 1 .. Len(F)
       PROVE  /\ b[p] \in 1 .. n /\ F[p] = E[b[p]][o[p]] /\ o[p] \in 1 .. Len(E[b[p]])
              /\ F[p].src = r[b[p]].src /\ F[p].src = f + b[p] - 1 /\ ~Wakes(r[b[p]])
    <2>1. b[p] \in 1 .. n /\ F[p] = E[b[p]][o[p]] /\ o[p] \in 1 .. Len(E[b[p]])
        BY <1>5, <1>8 DEF Places
    <2>2. F[p].src = r[b[p]].src /\ F[p].src = f + b[p] - 1
        <3>1. PICK k, i, u : k = b[p] /\ i = o[p] /\ u = E[k][i]
            OBVIOUS
        <3>2. u.src = r[k].src
            BY <1>9, <2>1, <3>1
        <3>3. r[k].src = f + k - 1
            BY <1>2, <2>1, <3>1
        <3> QED BY <2>1, <3>1, <3>2, <3>3
    <2>3. E[b[p]] # <<>>
        BY <2>1
    <2> QED BY <1>9, <2>1, <2>2, <2>3
<1>11. Ordered(F, NoteOrder)
    <2>1. ASSUME NEW k \in 1 .. n, NEW l \in 1 .. n, k < l,
                 NEW i \in 1 .. Len(E[k]), NEW j \in 1 .. Len(E[l])
          PROVE  <<E[k][i], E[l][j]>> \in NoteOrder
        <3>1. PICK u, v : u = E[k][i] /\ v = E[l][j]
            OBVIOUS
        <3>2. u \in Notes /\ v \in Notes
            BY <1>5, <3>1, ElementOfSeq
        <3>3. u.src = f + k - 1 /\ v.src = f + l - 1
            BY <1>2, <1>9, <3>1
        <3>4. u.src <= v.src /\ u.src # v.src
            BY <1>2, <2>1, <3>3
        <3>5. u # v
            BY <3>4
        <3> QED BY <3>1, <3>2, <3>4, <3>5 DEF NoteOrder
    <2> QED BY <1>5, <1>6, <1>9, <2>1, OrderedFlatten
<1>12. Aware(F, s)
    <2>1. SUFFICES ASSUME NEW p \in 1 .. Len(F), NEW x \in 1 .. F[p].src - 1,
                          Rests(s, x, F[p].src)
                   PROVE  \E q \in 1 .. p - 1 : F[q].src = x /\ F[q].stale
        BY DEF Aware
    <2>2. PICK k, y : k = b[p] /\ y = F[p].src
        OBVIOUS
    <2>3. k \in 1 .. n /\ y = f + k - 1
        BY <1>10, <2>2
    <2>4. s[f].kind = "input"
        BY <1>1, RoundPlaces DEF Sound
    <2>5. x \in Nat /\ y \in Nat /\ x < y /\ k \in Nat
        BY <1>2, <2>1, <2>2, <2>3
    <2>6. x >= f
        <3>1. SUFFICES ASSUME x < f PROVE FALSE
            BY <1>2, <2>5
        <3>2. f \in x + 1 .. y
            BY <1>2, <2>3, <2>5, <3>1
        <3> QED BY <2>1, <2>2, <2>4, <3>2 DEF Rests
    <2>7. PICK j : j = x - f + 1
        OBVIOUS
    <2>8. j \in 1 .. n /\ j < k /\ f + j - 1 = x
        BY <1>2, <2>3, <2>5, <2>6, <2>7
    <2>9. r[j].src = x /\ r[j] = s[x] /\ Shaped(r[j]) /\ r[j] \in Artifacts
        BY <1>2, <2>8
    <2>10. r[j].call \in expired /\ r[j].call # 0
        BY <2>1, <2>9 DEF Rests
    <2>11. r[j].kind = "result"
        BY <2>9, <2>10 DEF Shaped
    <2>12. ~Wakes(r[j])
        BY <2>11 DEF Wakes
    <2>13. 1 \in 1 .. Len(E[j]) /\ E[j][1].stale /\ E[j][1].src = x
        BY <1>9, <2>8, <2>9, <2>10, <2>11, <2>12
    <2>14. PICK q \in 1 .. Len(F) : b[q] = j /\ o[q] = 1
        BY <1>5, <1>8, <2>8, <2>13 DEF Places
    <2>15. F[q].src = x /\ F[q].stale
        BY <1>10, <2>13, <2>14
    <2>16. q < p
        <3>1. Len(F) \in Nat /\ b[q] < b[p] /\ j \in Nat
            BY <1>7, <2>2, <2>8, <2>14, LenProperties
        <3>2. q # p /\ ~(p < q)
            <4>1. p < q => b[p] < b[q] \/ b[p] = b[q]
                BY <1>8 DEF Places
            <4> QED BY <2>2, <2>5, <2>8, <2>14, <4>1
        <3> QED BY <3>1, <3>2
    <2>17. q \in 1 .. p - 1
        BY <1>7, <2>16, LenProperties
    <2> QED BY <2>15, <2>17
<1>13. ASSUME NEW p \in 1 .. Len(F) PROVE F[p].src \in f .. t /\ ~Wakes(s[F[p].src])
    <2>1. PICK k : k = b[p]
        OBVIOUS
    <2>2. k \in 1 .. n /\ F[p].src = r[k].src /\ ~Wakes(r[k])
        BY <1>10, <2>1
    <2>3. r[k].src \in f .. t /\ r[k] = s[r[k].src]
        BY <1>2, <2>2
    <2>4. s[F[p].src] = r[k]
        BY <2>2, <2>3
    <2> QED BY <2>2, <2>3, <2>4
<1>14. ASSUME NEW x \in f .. t, ~Wakes(s[x]) PROVE \E p \in 1 .. Len(F) : F[p].src = x
    <2>1. PICK j : j = x - f + 1
        OBVIOUS
    <2>2. j \in 1 .. n /\ f + j - 1 = x
        <3>1. x - f + 1 \in 1 .. n
            BY <1>1, RoundIs DEF Sound
        <3> QED BY <1>2, <2>1, <3>1
    <2>3. r[j].src = x /\ r[j] = s[x]
        BY <1>2, <2>2
    <2>4. 1 \in 1 .. Len(E[j])
        BY <1>9, <1>14, <2>2, <2>3
    <2>5. PICK p \in 1 .. Len(F) : b[p] = j /\ o[p] = 1
        BY <1>5, <1>8, <2>2, <2>4 DEF Places
    <2> QED BY <1>10, <2>3, <2>5
<1> QED BY <1>1, <1>7, <1>11, <1>12, <1>13, <1>14 DEF Collects

-----------------------------------------------------------------------------
(* What a message of the agent carries of the groups of others.             *)

PlacesOf(gr) == UNION {From(gr[k]) .. To(gr[k]) : k \in 1 .. Len(gr)}

LEMMA PlacesOfIs ==
    ASSUME NEW s, Stamp(s), NEW gr \in Seq(Rounds(s))
    PROVE  /\ PlacesOf(gr) \subseteq Nat
           /\ \A x : x \in PlacesOf(gr) <=> InRounds(x, gr)
           /\ \A k \in 1 .. Len(gr) : From(gr[k]) \in Nat /\ To(gr[k]) \in Nat
                                      /\ gr[k] \in Rounds(s) /\ From(gr[k]) <= To(gr[k])
<1>1. \A k \in 1 .. Len(gr) : gr[k] \in Rounds(s)
    BY ElementOfSeq
<1>2. \A k \in 1 .. Len(gr) : From(gr[k]) \in Nat /\ To(gr[k]) \in Nat /\ From(gr[k]) <= To(gr[k])
    <2> SUFFICES ASSUME NEW k \in 1 .. Len(gr)
                 PROVE  From(gr[k]) \in Nat /\ To(gr[k]) \in Nat /\ From(gr[k]) <= To(gr[k])
        OBVIOUS
    <2>1. /\ From(gr[k]) \in 1 .. Len(s) /\ To(gr[k]) \in From(gr[k]) .. Len(s) /\ Len(s) \in Nat
        BY <1>1, RoundPlaces
    <2> QED BY <2>1
<1>3. \A x : x \in PlacesOf(gr) <=> InRounds(x, gr)
    BY DEF PlacesOf, InRounds
<1>4. PlacesOf(gr) \subseteq Nat
    BY <1>2 DEF PlacesOf
<1> QED BY <1>1, <1>2, <1>3, <1>4

LEMMA RoundsBefore ==
    ASSUME NEW s, Stamp(s), NEW r \in Rounds(s), NEW q \in Rounds(s), From(r) < From(q),
           NEW x \in From(r) .. To(r), NEW y \in From(q) .. To(q)
    PROVE  x < y
<1>1. To(r) < From(q)
    BY RoundsApart
<1>2. /\ From(r) \in 1 .. Len(s) /\ To(r) \in From(r) .. Len(s) /\ Len(s) \in Nat
      /\ From(q) \in 1 .. Len(s) /\ To(q) \in From(q) .. Len(s)
    BY RoundPlaces
<1> QED BY <1>1, <1>2

LEMMA GroupCollects ==
    ASSUME NEW s, Sound(s), expired \subseteq Nat \ {0}, NEW gr \in Seq(Rounds(s)), Rising(gr)
    PROVE  Collects(GroupInputContent(gr), s, PlacesOf(gr))
<1>1. Stamp(s)
    BY DEF Sound
<1>2. PICK n, ss : n = Len(gr) /\ ss = [k \in DOMAIN gr |-> RoundToElements(gr[k])]
    OBVIOUS
<1>3. PICK X : X = [k \in 1 .. n |-> From(gr[k]) .. To(gr[k])]
    OBVIOUS
<1>4. n \in Nat /\ DOMAIN gr = 1 .. n
    BY <1>2, LenProperties
<1>5. \A k \in 1 .. n : From(gr[k]) \in Nat /\ To(gr[k]) \in Nat /\ gr[k] \in Rounds(s)
    BY <1>1, <1>2, PlacesOfIs
<1>6. \A k \in 1 .. n : Collects(RoundToElements(gr[k]), s, From(gr[k]) .. To(gr[k]))
    BY <1>5, RoundElements
<1>7. ss \in [1 .. n -> Seq(Notes)]
    BY <1>2, <1>4, <1>6 DEF Collects
<1>8. ss \in Seq(Seq(Notes)) /\ Len(ss) = n
    BY <1>4, <1>7, ListOfLength
<1>9. \A k \in 1 .. Len(ss) : Collects(ss[k], s, X[k]) /\ X[k] \subseteq Nat
    BY <1>2, <1>3, <1>4, <1>5, <1>6, <1>8
<1>10. ASSUME NEW k \in 1 .. Len(ss), NEW l \in 1 .. Len(ss), k < l
       PROVE  \A x \in X[k], y \in X[l] : x < y
    <2>1. From(gr[k]) < From(gr[l])
        BY <1>2, <1>8, <1>10 DEF Rising
    <2>2. X[k] = From(gr[k]) .. To(gr[k]) /\ X[l] = From(gr[l]) .. To(gr[l])
        BY <1>3, <1>8
    <2>3. gr[k] \in Rounds(s) /\ gr[l] \in Rounds(s)
        BY <1>5, <1>8
    <2> QED BY <1>1, <2>1, <2>2, <2>3, RoundsBefore
<1>11. CollectedIn(ss, s, X)
    BY <1>9, <1>10 DEF CollectedIn
<1>12. AllOf(X, Len(ss)) = PlacesOf(gr)
    BY <1>2, <1>3, <1>8 DEF PlacesOf, AllOf
<1>13. FlattenSeq(ss) = GroupInputContent(gr)
    BY <1>2 DEF GroupInputContent
<1> QED BY <1>8, <1>11, <1>12, <1>13, CollectsFlatten

LEMMA GroupsApart ==
    ASSUME NEW s, Stamp(s), NEW c, NEW G, Grouped(G, s, c),
           NEW g \in 1 .. Len(G), NEW h \in 1 .. Len(G), g < h
    PROVE  \A x \in PlacesOf(G[g]), y \in PlacesOf(G[h]) : x < y
<1> SUFFICES ASSUME NEW x \in PlacesOf(G[g]), NEW y \in PlacesOf(G[h]) PROVE x < y
    OBVIOUS
<1>1. G \in Seq(Seq(Rounds(s)))
    BY DEF Grouped
<1>2. G[g] \in Seq(Rounds(s)) /\ G[h] \in Seq(Rounds(s))
    BY <1>1, ElementOfSeq
<1>3. PICK k \in 1 .. Len(G[g]) : x \in From(G[g][k]) .. To(G[g][k])
    BY DEF PlacesOf
<1>4. PICK l \in 1 .. Len(G[h]) : y \in From(G[h][l]) .. To(G[h][l])
    BY DEF PlacesOf
<1>5. From(G[g][k]) < From(G[h][l])
    BY DEF Grouped
<1>6. G[g][k] \in Rounds(s) /\ G[h][l] \in Rounds(s)
    BY <1>2, ElementOfSeq
<1> QED BY <1>3, <1>4, <1>5, <1>6, RoundsBefore

\* The groups of others since the agent's last group before g.
Since(G, me, g) == {h \in 1 .. Len(G) : h < g /\ \A f \in OwnGroups(G, me) : f < g => f < h}
Gap(G, me, g)   == UNION {PlacesOf(G[h]) : h \in Since(G, me, g)}

LEMMA PiecesCollect ==
    ASSUME NEW s, Sound(s), expired \subseteq Nat \ {0}, NEW c, NEW G, Grouped(G, s, c),
           NEW lo \in Nat, NEW hi \in Nat, lo < hi, hi <= Len(G) + 1,
           NEW H, H = lo + 1 .. hi - 1
    PROVE  Collects(Pieces(G, lo, hi), s, UNION {PlacesOf(G[h]) : h \in H})
<1>1. Stamp(s) /\ G \in Seq(Seq(Rounds(s))) /\ Len(G) \in Nat
    BY LenProperties DEF Sound, Grouped
<1>2. PICK n, ss : n = hi - lo - 1 /\ ss = [i \in 1 .. hi - lo - 1 |-> GroupInputContent(G[lo + i])]
    OBVIOUS
<1>3. PICK X : X = [i \in 1 .. n |-> PlacesOf(G[lo + i])]
    OBVIOUS
<1>4. n \in Nat
    BY <1>2
<1>5. \A i \in 1 .. n : lo + i \in 1 .. Len(G) /\ lo + i \in lo + 1 .. hi - 1
    BY <1>1, <1>2
<1>6. \A h \in 1 .. Len(G) : G[h] \in Seq(Rounds(s)) /\ Rising(G[h])
    BY <1>1, ElementOfSeq DEF Grouped
<1>7. \A h \in 1 .. Len(G) : Collects(GroupInputContent(G[h]), s, PlacesOf(G[h]))
                             /\ PlacesOf(G[h]) \subseteq Nat
    BY <1>1, <1>6, GroupCollects, PlacesOfIs
<1>8. \A i \in 1 .. n : ss[i] = GroupInputContent(G[lo + i]) /\ X[i] = PlacesOf(G[lo + i])
    BY <1>2, <1>3
<1>9. ss \in [1 .. n -> Seq(Notes)]
    BY <1>2, <1>5, <1>7 DEF Collects
<1>10. ss \in Seq(Seq(Notes)) /\ Len(ss) = n
    BY <1>4, <1>9, ListOfLength
<1>11. \A i \in 1 .. Len(ss) : Collects(ss[i], s, X[i]) /\ X[i] \subseteq Nat
    BY <1>5, <1>7, <1>8, <1>10
<1>12. ASSUME NEW k \in 1 .. Len(ss), NEW l \in 1 .. Len(ss), k < l
       PROVE  \A x \in X[k], y \in X[l] : x < y
    <2>1. PICK g, h : g = lo + k /\ h = lo + l
        OBVIOUS
    <2>2. g \in 1 .. Len(G) /\ h \in 1 .. Len(G) /\ g < h
        <3>1. k \in 1 .. n /\ l \in 1 .. n /\ k \in Nat /\ l \in Nat
            BY <1>4, <1>10
        <3> QED BY <1>5, <1>12, <2>1, <3>1
    <2>3. X[k] = PlacesOf(G[g]) /\ X[l] = PlacesOf(G[h])
        BY <1>8, <1>10, <2>1
    <2> QED BY <1>1, <2>2, <2>3, GroupsApart
<1>13. CollectedIn(ss, s, X)
    BY <1>11, <1>12 DEF CollectedIn
<1>14. PICK U, F : U = UNION {PlacesOf(G[h]) : h \in H} /\ F = FlattenSeq(ss)
    OBVIOUS
<1>15. U = AllOf(X, Len(ss))
    <2>1. ASSUME NEW x \in U PROVE \E i \in 1 .. Len(ss) : x \in X[i]
        <3>1. PICK h \in H : x \in PlacesOf(G[h])
            BY <1>14
        <3>2. PICK i : i = h - lo
            OBVIOUS
        <3>3. h \in Nat /\ lo + 1 <= h /\ h <= hi - 1
            OBVIOUS
        <3>4. i \in 1 .. n /\ lo + i = h
            BY <1>2, <3>2, <3>3
        <3> QED BY <1>8, <1>10, <3>1, <3>4
    <2>2. ASSUME NEW i \in 1 .. Len(ss), NEW x \in X[i] PROVE x \in U
        <3>1. lo + i \in H /\ X[i] = PlacesOf(G[lo + i])
            BY <1>5, <1>8, <1>10
        <3> QED BY <1>14, <2>2, <3>1
    <2> QED BY <2>1, <2>2 DEF AllOf
<1>16. F = Pieces(G, lo, hi)
    BY <1>2, <1>14 DEF Pieces
<1>17. Collects(F, s, U)
    <2>1. F = FlattenSeq(ss)
        BY <1>14
    <2> HIDE DEF Collects
    <2> QED BY <1>10, <1>13, <1>15, <2>1, CollectsFlatten, SMT
<1> QED BY <1>14, <1>16, <1>17

LEMMA MergedCollects ==
    ASSUME NEW s, Sound(s), expired \subseteq Nat \ {0}, NEW c, NEW G, Grouped(G, s, c),
           NEW me, NEW g \in 1 .. Len(G) + 1
    PROVE  Collects(MergedGroupInput(G, me, g), s, Gap(G, me, g))
<1>1. G \in Seq(Seq(Rounds(s))) /\ Len(G) \in Nat /\ DOMAIN G = 1 .. Len(G) /\ g \in Nat /\ g <= Len(G) + 1
    BY LenProperties DEF Grouped
<1>2. PICK T, B, lo : /\ T = {f \in OwnGroups(G, me) : f < g} /\ B = {0} \cup T
                      /\ lo = CHOOSE f \in B : \A e \in B : e <= f
    OBVIOUS
<1>3. T \subseteq 1 .. Len(G) /\ T \subseteq OwnGroups(G, me)
    BY <1>1, <1>2 DEF OwnGroups
<1>4. \E f \in B : \A e \in B : e <= f
    <2>1. CASE T = {}
        BY <1>2, <2>1
    <2>2. CASE T # {}
        <3>1. PICK f \in T : \A e \in T : e <= f
            BY <1>1, <1>3, <2>2, Greatest
        <3>2. f \in Nat
            BY <1>3
        <3> QED BY <1>2, <3>1, <3>2
    <2> QED BY <2>1, <2>2
<1>5. lo \in B /\ \A e \in B : e <= lo
    BY <1>2, <1>4
<1>6. lo \in Nat /\ lo < g
    BY <1>1, <1>2, <1>3, <1>5
<1>8. lo + 1 .. g - 1 = Since(G, me, g)
    <2>1. ASSUME NEW h \in lo + 1 .. g - 1 PROVE h \in Since(G, me, g)
        <3>1. h \in 1 .. Len(G) /\ h < g /\ h \in Nat /\ lo < h
            BY <1>1, <1>6
        <3>2. ASSUME NEW f \in OwnGroups(G, me), f < g PROVE f < h
            <4>1. f \in T
                BY <1>2, <3>2
            <4>2. f <= lo /\ f \in Nat
                BY <1>2, <1>3, <1>5, <4>1
            <4> QED BY <1>6, <3>1, <4>2
        <3> QED BY <3>1, <3>2 DEF Since
    <2>2. ASSUME NEW h \in Since(G, me, g) PROVE h \in lo + 1 .. g - 1
        <3>1. h \in 1 .. Len(G) /\ h < g /\ \A f \in OwnGroups(G, me) : f < g => f < h
            BY DEF Since
        <3>2. lo < h
            <4>1. CASE lo = 0
                BY <1>1, <3>1, <4>1
            <4>2. CASE lo \in T
                BY <1>2, <3>1, <4>2
            <4> QED BY <1>2, <1>5, <4>1, <4>2
        <3> QED BY <1>1, <1>6, <3>1, <3>2
    <2> QED BY <2>1, <2>2
<1>9. MergedGroupInput(G, me, g) = Pieces(G, lo, g)
    BY <1>2 DEF MergedGroupInput
<1>10. Collects(Pieces(G, lo, g), s, UNION {PlacesOf(G[h]) : h \in Since(G, me, g)})
    <2>1. lo \in Nat /\ g \in Nat /\ lo < g /\ g <= Len(G) + 1 /\ Since(G, me, g) = lo + 1 .. g - 1
        BY <1>1, <1>6, <1>8
    <2> QED BY <2>1, PiecesCollect
<1> QED BY <1>9, <1>10 DEF Gap

-----------------------------------------------------------------------------
(* What is told of a history.                                               *)

\* How the messages of the agent's group g are read.
GroupRead(w, s, G, me, g) ==
    /\ w \in Seq(Notes) /\ Aware(w, s) /\ Ordered(w, NoteOrder)
    /\ \A p \in 1 .. Len(w) : w[p].src \in PlacesOf(G[g]) \cup Gap(G, me, g)

\* ms are the messages of the agent's group g.
GroupIs(ms, s, G, me, tools, g) ==
    /\ ms \in Seq(Msgs) /\ Answers(ms) /\ Ordered(ms, SrcOrder)
    /\ \A i \in 1 .. Len(ms) : ms[i].src \in PlacesOf(G[g])
    /\ \A k \in 1 .. Len(G[g]) : Told(G[g][k], tools) =>
           \E i \in 1 .. Len(ms) : ms[i].src = From(G[g][k])
    /\ Spread(Carried, ms) = IF HasTold(G[g], tools) THEN MergedGroupInput(G, me, g) ELSE <<>>
    /\ GroupRead(Spread(Read, ms), s, G, me, g)

LEMMA GapBefore ==
    ASSUME NEW s, Stamp(s), NEW c, NEW G, Grouped(G, s, c), NEW me, NEW g \in 1 .. Len(G) + 1
    PROVE  /\ Gap(G, me, g) \subseteq Nat
           /\ g \in 1 .. Len(G) => \A x \in Gap(G, me, g), y \in PlacesOf(G[g]) : x < y
           /\ \A f \in OwnGroups(G, me) : f < g =>
                  \A x \in PlacesOf(G[f]), y \in Gap(G, me, g) : x < y
           /\ \A f \in OwnGroups(G, me) : f < g =>
                  \A x \in Gap(G, me, f), y \in Gap(G, me, g) : x < y
<1>1. G \in Seq(Seq(Rounds(s))) /\ Len(G) \in Nat /\ DOMAIN G = 1 .. Len(G)
    BY LenProperties DEF Grouped
<1>2. \A h \in 1 .. Len(G) : G[h] \in Seq(Rounds(s)) /\ PlacesOf(G[h]) \subseteq Nat
    BY <1>1, ElementOfSeq, PlacesOfIs
<1>3. OwnGroups(G, me) \subseteq 1 .. Len(G)
    BY <1>1 DEF OwnGroups
<1>4. Gap(G, me, g) \subseteq Nat
    BY <1>2 DEF Gap, Since
<1>5. ASSUME g \in 1 .. Len(G), NEW x \in Gap(G, me, g), NEW y \in PlacesOf(G[g])
      PROVE  x < y
    <2>1. PICK h \in 1 .. Len(G) : h < g /\ x \in PlacesOf(G[h])
        BY DEF Gap, Since
    <2> QED BY <1>5, <2>1, GroupsApart
<1>6. ASSUME NEW f \in OwnGroups(G, me), f < g,
             NEW x \in PlacesOf(G[f]), NEW y \in Gap(G, me, g)
      PROVE  x < y
    <2>1. PICK h \in Since(G, me, g) : y \in PlacesOf(G[h])
        BY DEF Gap
    <2>2. h \in 1 .. Len(G) /\ f < h /\ f \in 1 .. Len(G)
        BY <1>3, <1>6, <2>1 DEF Since
    <2> QED BY <2>1, <2>2, GroupsApart
<1>7. ASSUME NEW f \in OwnGroups(G, me), f < g,
             NEW x \in Gap(G, me, f), NEW y \in Gap(G, me, g)
      PROVE  x < y
    <2>1. PICK h \in Since(G, me, g) : y \in PlacesOf(G[h])
        BY DEF Gap
    <2>2. h \in 1 .. Len(G) /\ f < h /\ f \in 1 .. Len(G)
        BY <1>3, <1>7, <2>1 DEF Since
    <2>3. PICK e \in Since(G, me, f) : x \in PlacesOf(G[e])
        BY DEF Gap
    <2>4. e \in 1 .. Len(G) /\ e < f
        BY <2>3 DEF Since
    <2>5. e < h
        BY <1>1, <2>2, <2>4
    <2> QED BY <2>1, <2>2, <2>3, <2>4, <2>5, GroupsApart
<1> QED BY <1>4, <1>5, <1>6, <1>7

LEMMA OneGroup ==
    ASSUME NEW s, Sound(s), expired \subseteq Nat \ {0}, NEW c, NEW G, Grouped(G, s, c),
           NEW me, NEW tools, NEW g \in OwnGroups(G, me)
    PROVE  GroupIs(GroupToMessages(G[g], tools, MergedGroupInput(G, me, g)), s, G, me, tools, g)
<1>1. Stamp(s) /\ G \in Seq(Seq(Rounds(s))) /\ Len(G) \in Nat /\ DOMAIN G = 1 .. Len(G)
    BY LenProperties DEF Sound, Grouped
<1>2. g \in 1 .. Len(G) /\ g \in 1 .. Len(G) + 1
    BY <1>1 DEF OwnGroups
<1>3. PICK gr, input : gr = G[g] /\ input = MergedGroupInput(G, me, g)
    OBVIOUS
<1>4. gr \in Seq(Rounds(s)) /\ Rising(gr)
    BY <1>1, <1>2, <1>3, ElementOfSeq DEF Grouped
<1>5. Collects(input, s, Gap(G, me, g))
    BY <1>2, <1>3, MergedCollects
<1>6. /\ input \in Seq(Notes) /\ Ordered(input, NoteOrder) /\ Aware(input, s)
      /\ \A q \in 1 .. Len(input) : input[q].src \in Gap(G, me, g)
    BY <1>5 DEF Collects
<1>7. PICK ss, ms, w : /\ ms = GroupToMessages(gr, tools, input) /\ ms = FlattenSeq(ss)
                       /\ Tellings(ss, s, gr, tools, input) /\ w = Spread(Read, ms)
    BY <1>4, <1>6, GroupTold
<1>8. /\ ms \in Seq(Msgs) /\ Answers(ms) /\ Ordered(ms, SrcOrder)
      /\ \A i \in 1 .. Len(ms) : InRounds(ms[i].src, gr)
      /\ \A k \in 1 .. Len(gr) : Told(gr[k], tools) =>
             \E i \in 1 .. Len(ms) : ms[i].src = From(gr[k])
    BY <1>4, <1>7, GroupMessages
<1>9. Spread(Carried, ms) = IF HasTold(gr, tools) THEN input ELSE <<>>
    BY <1>7, GroupCarries
<1>10. \A q \in 1 .. Len(input), k \in 1 .. Len(gr) : input[q].src < From(gr[k])
    <2> SUFFICES ASSUME NEW q \in 1 .. Len(input), NEW k \in 1 .. Len(gr)
                 PROVE  input[q].src < From(gr[k])
        OBVIOUS
    <2>1. From(gr[k]) \in From(gr[k]) .. To(gr[k])
        BY <1>1, <1>4, PlacesOfIs
    <2>2. From(gr[k]) \in PlacesOf(G[g])
        BY <1>3, <2>1 DEF PlacesOf
    <2>3. input[q].src \in Gap(G, me, g)
        BY <1>6
    <2> QED BY <1>1, <1>2, <2>2, <2>3, GapBefore
<1>11. /\ w \in Seq(Notes) /\ Aware(w, s)
       /\ \A p \in 1 .. Len(w) : \/ \E q \in 1 .. Len(input) : w[p] = input[q]
                                 \/ InRounds(w[p].src, gr)
       /\ Ordered(w, NoteOrder)
    <2>1. ReadAfter(w, s, gr, input)
        <3>1. input \in Seq(Notes)
            BY <1>6
        <3> QED BY <1>4, <1>7, <3>1, GroupReads
    <2> QED BY <1>6, <1>10, <2>1 DEF ReadAfter
<1>12. \A x : InRounds(x, gr) => x \in PlacesOf(G[g])
    BY <1>1, <1>3, <1>4, PlacesOfIs
<1>13. GroupRead(w, s, G, me, g)
    <2>1. \A p \in 1 .. Len(w) : w[p].src \in PlacesOf(G[g]) \cup Gap(G, me, g)
        BY <1>6, <1>11, <1>12
    <2> QED BY <1>11, <2>1 DEF GroupRead
<1>14. GroupIs(ms, s, G, me, tools, g)
    BY <1>3, <1>7, <1>8, <1>9, <1>12, <1>13 DEF GroupIs
<1> QED BY <1>3, <1>7, <1>14

\* The messages that the agent's groups are told as, group by group.
Groupwise(ss, own, s, G, me, tools) ==
    /\ Lists(own, OwnGroups(G, me)) /\ own \in Seq(1 .. Len(G)) /\ Len(own) \in Nat
    /\ ss \in Seq(Seq(Msgs)) /\ Len(ss) = Len(own)
    /\ \A k \in 1 .. Len(own) : /\ own[k] \in OwnGroups(G, me) /\ own[k] \in 1 .. Len(G)
                                /\ GroupIs(ss[k], s, G, me, tools, own[k])

LEMMA OwnTold ==
    ASSUME NEW s, Sound(s), expired \subseteq Nat \ {0}, NEW c, NEW G, Grouped(G, s, c),
           NEW me, NEW tools, NEW own, own = PlacesIn(G, OwnGroups(G, me)),
           NEW ss, ss = [k \in DOMAIN own |-> GroupToMessages(G[own[k]], tools,
                                                MergedGroupInput(G, me, own[k]))]
    PROVE  Groupwise(ss, own, s, G, me, tools)
<1>1. G \in Seq(Seq(Rounds(s))) /\ Len(G) \in Nat /\ DOMAIN G = 1 .. Len(G)
    BY LenProperties DEF Grouped
<1>2. OwnGroups(G, me) \subseteq 1 .. Len(G)
    BY <1>1 DEF OwnGroups
<1>3. Lists(own, OwnGroups(G, me))
    BY <1>1, <1>2, PlacesAre
<1>4. own \in Seq(OwnGroups(G, me)) /\ Len(own) \in Nat /\ DOMAIN own = 1 .. Len(own)
    BY <1>3, LenProperties DEF Lists
<1>5. \A k \in 1 .. Len(own) : own[k] \in OwnGroups(G, me) /\ own[k] \in 1 .. Len(G)
    BY <1>2, <1>4, ElementOfSeq
<1>6. \A k \in 1 .. Len(own) : GroupIs(ss[k], s, G, me, tools, own[k])
    <2> SUFFICES ASSUME NEW k \in 1 .. Len(own)
                 PROVE  GroupIs(ss[k], s, G, me, tools, own[k])
        OBVIOUS
    <2>1. PICK g : g = own[k]
        OBVIOUS
    <2>2. ss[k] = GroupToMessages(G[g], tools, MergedGroupInput(G, me, g))
        BY <1>4, <2>1
    <2> QED BY <1>5, <2>1, <2>2, OneGroup
<1>7. ss \in [1 .. Len(own) -> Seq(Msgs)]
    BY <1>4, <1>6 DEF GroupIs
<1>8. ss \in Seq(Seq(Msgs)) /\ Len(ss) = Len(own)
    BY <1>4, <1>7, ListOfLength
<1>9. own \in Seq(1 .. Len(G))
    <2>1. own \in [1 .. Len(own) -> 1 .. Len(G)]
        <3>1. own = [k \in 1 .. Len(own) |-> own[k]]
            BY <1>4, LenProperties
        <3> QED BY <1>5, <3>1
    <2> QED BY <1>4, <2>1, ListOfLength
<1> QED BY <1>3, <1>4, <1>5, <1>6, <1>8, <1>9 DEF Groupwise

LEMMA AnswersFlatten ==
    ASSUME NEW ss \in Seq(Seq(Msgs)), \A k \in 1 .. Len(ss) : Answers(ss[k])
    PROVE  FlattenSeq(ss) \in Seq(Msgs) /\ Answers(FlattenSeq(ss))
<1>1. PICK P : P = {ms \in Seq(Msgs) : Answers(ms)}
    OBVIOUS
<1>2. <<>> \in P
    BY <1>1 DEF Answers
<1>3. \A a, b \in Seq(Msgs) : a \in P /\ b \in P => a \o b \in P
    <2> SUFFICES ASSUME NEW a \in Seq(Msgs), NEW b \in Seq(Msgs), a \in P, b \in P
                 PROVE  a \o b \in P
        OBVIOUS
    <2>1. a \o b \in Seq(Msgs)
        BY ConcatProperties
    <2>2. Answers(a \o b)
        BY <1>1, AnswersConcat
    <2> QED BY <1>1, <2>1, <2>2
<1>4. \A k \in 1 .. Len(ss) : ss[k] \in P
    BY <1>1, ElementOfSeq
<1> QED BY <1>1, <1>2, <1>3, <1>4, FlattenClosed

\* The messages H tell the rounds of the agent me.
HistoryTold(H, s, G, me, tools) ==
    /\ H \in Seq(Msgs) /\ Answers(H) /\ Ordered(H, SrcOrder)
    /\ \A i \in 1 .. Len(H) : \E g \in OwnGroups(G, me) : H[i].src \in PlacesOf(G[g])
    /\ \A g \in OwnGroups(G, me) : \A k \in 1 .. Len(G[g]) : Told(G[g][k], tools) =>
           \E i \in 1 .. Len(H) : H[i].src = From(G[g][k])
    /\ Spread(Read, H) \in Seq(Notes) /\ Aware(Spread(Read, H), s)
    /\ Ordered(Spread(Read, H), NoteOrder)

LEMMA AllOwnTold ==
    ASSUME NEW s, Stamp(s), NEW c, NEW G, Grouped(G, s, c), NEW me, NEW tools,
           NEW own, NEW ss, Groupwise(ss, own, s, G, me, tools), NEW H, H = FlattenSeq(ss)
    PROVE  HistoryTold(H, s, G, me, tools)
<1>1. PICK n, O : n = Len(own) /\ O = OwnGroups(G, me)
    OBVIOUS
<1>2. /\ n \in Nat /\ ss \in Seq(Seq(Msgs)) /\ Len(ss) = n
      /\ \A k \in 1 .. n : own[k] \in O /\ own[k] \in 1 .. Len(G)
                           /\ GroupIs(ss[k], s, G, me, tools, own[k])
      /\ \A k, l \in 1 .. n : k < l => own[k] < own[l]
      /\ \A g \in O : \E k \in 1 .. n : own[k] = g
    BY <1>1 DEF Groupwise, Lists
<1>3. \A k \in 1 .. n : \A i \in 1 .. Len(ss[k]) : ss[k][i] \in Msgs
                                                   /\ ss[k][i].src \in PlacesOf(G[own[k]])
    <2> SUFFICES ASSUME NEW k \in 1 .. n, NEW i \in 1 .. Len(ss[k])
                 PROVE  ss[k][i] \in Msgs /\ ss[k][i].src \in PlacesOf(G[own[k]])
        OBVIOUS
    <2>1. GroupIs(ss[k], s, G, me, tools, own[k])
        BY <1>2
    <2>2. ss[k] \in Seq(Msgs) /\ ss[k][i].src \in PlacesOf(G[own[k]])
        BY <2>1 DEF GroupIs
    <2> QED BY <2>2, ElementOfSeq
<1>4. H \in Seq(Msgs) /\ Answers(H)
    <2>1. \A k \in 1 .. Len(ss) : Answers(ss[k])
        BY <1>2 DEF GroupIs
    <2> QED BY <1>2, <2>1, AnswersFlatten
<1>5. PICK b, o : Places(b, o, ss, H)
    BY <1>2, FlattenPlaces
<1>6. Ordered(H, SrcOrder)
    <2>1. \A k \in 1 .. Len(ss) : Ordered(ss[k], SrcOrder)
        BY <1>2 DEF GroupIs
    <2>2. ASSUME NEW k \in 1 .. Len(ss), NEW l \in 1 .. Len(ss), k < l,
                 NEW i \in 1 .. Len(ss[k]), NEW j \in 1 .. Len(ss[l])
          PROVE  <<ss[k][i], ss[l][j]>> \in SrcOrder
        <3>1. k \in 1 .. n /\ l \in 1 .. n
            BY <1>2
        <3>2. PICK x, y : x = ss[k][i] /\ y = ss[l][j]
            OBVIOUS
        <3>3. /\ x \in Msgs /\ x.src \in PlacesOf(G[own[k]])
              /\ y \in Msgs /\ y.src \in PlacesOf(G[own[l]])
            BY <1>3, <3>1, <3>2
        <3>4. own[k] \in 1 .. Len(G) /\ own[l] \in 1 .. Len(G) /\ own[k] < own[l]
            BY <1>2, <2>2, <3>1
        <3>5. x.src < y.src
            BY <3>3, <3>4, GroupsApart
        <3> QED BY <3>2, <3>3, <3>5 DEF SrcOrder
    <2> QED BY <1>2, <2>1, <2>2, OrderedFlatten
<1>7. ASSUME NEW i \in 1 .. Len(H) PROVE \E g \in O : H[i].src \in PlacesOf(G[g])
    <2>1. PICK k, j : k = b[i] /\ j = o[i]
        OBVIOUS
    <2>2. k \in 1 .. n /\ j \in 1 .. Len(ss[k]) /\ H[i] = ss[k][j]
        BY <1>2, <1>5, <2>1 DEF Places
    <2> QED BY <1>2, <1>3, <2>2
<1>8. ASSUME NEW g \in O, NEW k \in 1 .. Len(G[g]), Told(G[g][k], tools)
      PROVE  \E i \in 1 .. Len(H) : H[i].src = From(G[g][k])
    <2>1. PICK l \in 1 .. n : own[l] = g
        BY <1>2
    <2>2. PICK j \in 1 .. Len(ss[l]) : ss[l][j].src = From(G[g][k])
        BY <1>2, <1>8, <2>1 DEF GroupIs
    <2>3. PICK i \in 1 .. Len(H) : b[i] = l /\ o[i] = j
        BY <1>2, <1>5, <2>2 DEF Places
    <2>4. H[i] = ss[l][j]
        BY <1>5, <2>3 DEF Places
    <2> QED BY <2>2, <2>4
<1>9. PICK rs \in Seq(Seq(Notes)) : Parts(rs, Read, ss)
    <2>1. PICK L : L = Read
        OBVIOUS
    <2>2. Tells(L, Msgs, Notes)
        BY <2>1, ReadTells
    <2>3. \E rs \in Seq(Seq(Notes)) : Parts(rs, L, ss)
        BY <1>2, <2>2, SpreadParts
    <2> QED BY <2>1, <2>3
<1>10. PICK w : w = Spread(Read, H)
    OBVIOUS
<1>11. w = FlattenSeq(rs) /\ Len(rs) = n /\ \A k \in 1 .. n : rs[k] = Spread(Read, ss[k])
    BY <1>2, <1>9, <1>10 DEF Parts
<1>12. \A k \in 1 .. n : GroupRead(rs[k], s, G, me, own[k])
    BY <1>2, <1>11 DEF GroupIs
<1>13. w \in Seq(Notes) /\ Aware(w, s)
    <2>1. \A k \in 1 .. Len(rs) : Aware(rs[k], s)
        BY <1>11, <1>12 DEF GroupRead
    <2> QED BY <1>11, <2>1, AwareFlatten
<1>14. Ordered(w, NoteOrder)
    <2>1. \A k \in 1 .. Len(rs) : Ordered(rs[k], NoteOrder)
        BY <1>11, <1>12 DEF GroupRead
    <2>2. ASSUME NEW k \in 1 .. Len(rs), NEW l \in 1 .. Len(rs), k < l,
                 NEW i \in 1 .. Len(rs[k]), NEW j \in 1 .. Len(rs[l])
          PROVE  <<rs[k][i], rs[l][j]>> \in NoteOrder
        <3>1. k \in 1 .. n /\ l \in 1 .. n
            BY <1>11
        <3>2. PICK x, y, f, g : x = rs[k][i] /\ y = rs[l][j] /\ f = own[k] /\ g = own[l]
            OBVIOUS
        <3>3. /\ x.src \in PlacesOf(G[f]) \cup Gap(G, me, f)
              /\ y.src \in PlacesOf(G[g]) \cup Gap(G, me, g)
            BY <1>12, <3>1, <3>2 DEF GroupRead
        <3>4. x \in Notes /\ y \in Notes
            <4>1. rs[k] \in Seq(Notes) /\ rs[l] \in Seq(Notes)
                BY ElementOfSeq
            <4> QED BY <3>2, <4>1, ElementOfSeq
        <3>5. f \in O /\ f \in 1 .. Len(G) /\ g \in 1 .. Len(G) /\ f < g
            BY <1>2, <2>2, <3>1, <3>2
        <3>6. x.src < y.src
            <4>1. Len(G) \in Nat
                BY LenProperties DEF Grouped
            <4>2. f \in 1 .. Len(G) + 1 /\ g \in 1 .. Len(G) + 1
                BY <3>5, <4>1
            <4>3. CASE x.src \in PlacesOf(G[f]) /\ y.src \in PlacesOf(G[g])
                BY <3>5, <4>3, GroupsApart
            <4>4. CASE x.src \in PlacesOf(G[f]) /\ y.src \in Gap(G, me, g)
                BY <1>1, <3>5, <4>2, <4>4, GapBefore
            <4>5. CASE x.src \in Gap(G, me, f) /\ y.src \in Gap(G, me, g)
                BY <1>1, <3>5, <4>2, <4>5, GapBefore
            <4>6. CASE x.src \in Gap(G, me, f) /\ y.src \in PlacesOf(G[g])
                <5>1. G[f] # <<>> /\ G[f] \in Seq(Rounds(s)) /\ Gap(G, me, f) \subseteq Nat
                    <6>1. G \in Seq(Seq(Rounds(s))) /\ G[f] # <<>>
                        BY <3>5 DEF Grouped
                    <6> QED BY <3>5, <4>2, <6>1, ElementOfSeq, GapBefore
                <5>2. 1 \in 1 .. Len(G[f])
                    BY <5>1, EmptySeq, LenProperties
                <5>3. PICK z : z = From(G[f][1])
                    OBVIOUS
                <5>4. z \in PlacesOf(G[f]) /\ z \in Nat
                    <6>1. z \in Nat /\ To(G[f][1]) \in Nat /\ z <= To(G[f][1])
                        BY <5>1, <5>2, <5>3, PlacesOfIs
                    <6>2. z \in From(G[f][1]) .. To(G[f][1])
                        BY <5>3, <6>1
                    <6> QED BY <5>2, <6>1, <6>2 DEF PlacesOf
                <5>5. x.src < z
                    BY <3>5, <4>2, <4>6, <5>4, GapBefore
                <5>6. z < y.src
                    BY <3>5, <4>6, <5>4, GroupsApart
                <5>7. x.src \in Nat /\ y.src \in Nat
                    BY <3>4 DEF Notes
                <5> QED BY <5>4, <5>5, <5>6, <5>7
            <4> QED BY <3>3, <4>3, <4>4, <4>5, <4>6
        <3>7. x.src \in Nat /\ y.src \in Nat
            BY <3>4 DEF Notes
        <3>8. x.src <= y.src /\ x # y
            BY <3>6, <3>7
        <3> QED BY <3>2, <3>4, <3>8 DEF NoteOrder
    <2> QED BY <1>11, <2>1, <2>2, OrderedFlatten
<1> QED BY <1>1, <1>4, <1>6, <1>7, <1>8, <1>10, <1>13, <1>14 DEF HistoryTold

\* The group inputs that the messages H carry.
LEMMA OwnCarry ==
    ASSUME NEW s, NEW G, NEW me, NEW tools,
           NEW own, NEW ss, Groupwise(ss, own, s, G, me, tools), NEW H, H = FlattenSeq(ss)
    PROVE  \E cs \in Seq(Seq(Notes)) :
              /\ Spread(Carried, H) = FlattenSeq(cs) /\ Len(cs) = Len(own)
              /\ \A k \in 1 .. Len(own) :
                    cs[k] = IF HasTold(G[own[k]], tools) THEN MergedGroupInput(G, me, own[k])
                            ELSE <<>>
<1>1. ss \in Seq(Seq(Msgs)) /\ Len(ss) = Len(own)
    BY DEF Groupwise
<1>2. PICK cs \in Seq(Seq(Notes)) : Parts(cs, Carried, ss)
    <2>1. PICK L : L = Carried
        OBVIOUS
    <2>2. Tells(L, Msgs, Notes)
        BY <2>1, ReadTells
    <2>3. \E cs \in Seq(Seq(Notes)) : Parts(cs, L, ss)
        BY <1>1, <2>2, SpreadParts
    <2> QED BY <2>1, <2>3
<1>3. Spread(Carried, H) = FlattenSeq(cs) /\ Len(cs) = Len(own)
    BY <1>1, <1>2 DEF Parts
<1>4. ASSUME NEW k \in 1 .. Len(own)
      PROVE  cs[k] = IF HasTold(G[own[k]], tools) THEN MergedGroupInput(G, me, own[k]) ELSE <<>>
    <2>1. GroupIs(ss[k], s, G, me, tools, own[k]) /\ cs[k] = Spread(Carried, ss[k])
        BY <1>1, <1>2 DEF Groupwise, Parts
    <2> QED BY <2>1 DEF GroupIs
<1> QED BY <1>3, <1>4

-----------------------------------------------------------------------------
(* All that the messages carry.                                             *)

\* w tells the places X of s, each element once, but not the empty inputs that woke an agent.
TellsOnce(w, s, X) ==
    /\ w \in Seq(Notes) /\ \A p, q \in 1 .. Len(w) : p # q => w[p] # w[q]
    /\ \A p \in 1 .. Len(w) : w[p].src \in X /\ ~Wakes(s[w[p].src])
    /\ \A x \in X : ~Wakes(s[x]) => \E p \in 1 .. Len(w) : w[p].src = x

LEMMA CollectedOnce ==
    ASSUME NEW s, NEW w, NEW X, Collects(w, s, X)
    PROVE  TellsOnce(w, s, X)
<1>1. w \in Seq(Notes) /\ Ordered(w, NoteOrder)
    BY DEF Collects
<1>2. ASSUME NEW p \in 1 .. Len(w), NEW q \in 1 .. Len(w), p # q PROVE w[p] # w[q]
    <2>1. Len(w) \in Nat /\ p \in Nat /\ q \in Nat
        BY <1>1, LenProperties
    <2>2. p < q \/ q < p
        BY <1>2, <2>1
    <2>3. <<w[p], w[q]>> \in NoteOrder \/ <<w[q], w[p]>> \in NoteOrder
        BY <1>1, <2>2 DEF Ordered
    <2> QED BY <2>3 DEF NoteOrder
<1> QED BY <1>1, <1>2 DEF Collects, TellsOnce

LEMMA NothingOnce ==
    ASSUME NEW s PROVE TellsOnce(<<>>, s, {})
<1>1. <<>> \in Seq(Notes) /\ Len(<<>>) = 0
    BY EmptySeq
<1> QED BY <1>1 DEF TellsOnce

LEMMA OnceConcat ==
    ASSUME NEW s, NEW v, NEW w, NEW X, NEW Y, TellsOnce(v, s, X), TellsOnce(w, s, Y),
           X \cap Y = {}
    PROVE  TellsOnce(v \o w, s, X \cup Y)
<1>1. PICK m, n, u : m = Len(v) /\ n = Len(w) /\ u = v \o w
    OBVIOUS
<1>2. v \in Seq(Notes) /\ w \in Seq(Notes) /\ m \in Nat /\ n \in Nat
    BY <1>1, LenProperties DEF TellsOnce
<1>3. /\ u \in Seq(Notes) /\ Len(u) = m + n
      /\ \A p \in 1 .. m : u[p] = v[p]
      /\ \A p \in 1 .. n : u[m + p] = w[p]
    BY <1>1, <1>2
<1>4. ASSUME NEW p \in 1 .. m + n
      PROVE  \/ p \in 1 .. m /\ u[p] = v[p]
             \/ p - m \in 1 .. n /\ u[p] = w[p - m]
    <2>1. CASE p <= m
        BY <1>2, <1>3, <2>1
    <2>2. CASE ~(p <= m)
        <3>1. PICK i : i = p - m
            OBVIOUS
        <3>2. i \in 1 .. n /\ m + i = p
            BY <1>2, <2>2, <3>1
        <3> QED BY <1>3, <3>1, <3>2
    <2> QED BY <2>1, <2>2
<1>5. \A p \in 1 .. m : v[p].src \in X /\ ~Wakes(s[v[p].src])
    BY <1>1 DEF TellsOnce
<1>6. \A p \in 1 .. n : w[p].src \in Y /\ ~Wakes(s[w[p].src])
    BY <1>1 DEF TellsOnce
<1>7. ASSUME NEW p \in 1 .. m + n, NEW q \in 1 .. m + n, p # q PROVE u[p] # u[q]
    <2>1. CASE p \in 1 .. m /\ u[p] = v[p] /\ q \in 1 .. m /\ u[q] = v[q]
        BY <1>1, <1>7, <2>1 DEF TellsOnce
    <2>2. CASE p - m \in 1 .. n /\ u[p] = w[p - m] /\ q - m \in 1 .. n /\ u[q] = w[q - m]
        <3>1. p - m # q - m
            BY <1>2, <1>7
        <3> QED BY <1>1, <2>2, <3>1 DEF TellsOnce
    <2>3. CASE p \in 1 .. m /\ u[p] = v[p] /\ q - m \in 1 .. n /\ u[q] = w[q - m]
        BY <1>5, <1>6, <2>3
    <2>4. CASE p - m \in 1 .. n /\ u[p] = w[p - m] /\ q \in 1 .. m /\ u[q] = v[q]
        BY <1>5, <1>6, <2>4
    <2> QED BY <1>4, <2>1, <2>2, <2>3, <2>4
<1>8. ASSUME NEW p \in 1 .. m + n PROVE u[p].src \in X \cup Y /\ ~Wakes(s[u[p].src])
    BY <1>4, <1>5, <1>6
<1>9. ASSUME NEW x \in X \cup Y, ~Wakes(s[x]) PROVE \E p \in 1 .. m + n : u[p].src = x
    <2>1. CASE x \in X
        <3>1. PICK p \in 1 .. m : v[p].src = x
            BY <1>1, <1>9, <2>1 DEF TellsOnce
        <3>2. p \in 1 .. m + n
            BY <1>2
        <3> QED BY <1>3, <3>1, <3>2
    <2>2. CASE x \in Y
        <3>1. PICK p \in 1 .. n : w[p].src = x
            BY <1>1, <1>9, <2>2 DEF TellsOnce
        <3>2. m + p \in 1 .. m + n
            BY <1>2
        <3> QED BY <1>3, <3>1, <3>2
    <2> QED BY <2>1, <2>2
<1>10. TellsOnce(u, s, X \cup Y)
    BY <1>3, <1>7, <1>8, <1>9 DEF TellsOnce
<1> QED BY <1>1, <1>10

\* The lists ws tell the places X[1], X[2], ..., of which no two meet.
OnceEach(ws, s, X) ==
    /\ \A k \in 1 .. Len(ws) : TellsOnce(ws[k], s, X[k])
    /\ \A k, l \in 1 .. Len(ws) : k # l => X[k] \cap X[l] = {}

LEMMA OnceFlatten ==
    ASSUME NEW s, NEW ws \in Seq(Seq(Notes)), NEW X, OnceEach(ws, s, X),
           NEW F, F = FlattenSeq(ws), NEW U, U = AllOf(X, Len(ws))
    PROVE  TellsOnce(F, s, U)
<1>1. PICK n : n = Len(ws)
    OBVIOUS
<1>2. /\ \A k \in 1 .. n : TellsOnce(ws[k], s, X[k])
      /\ \A k, l \in 1 .. n : k # l => X[k] \cap X[l] = {}
    BY <1>1 DEF OnceEach
<1>3. U = UNION {X[k] : k \in 1 .. n}
    BY <1>1 DEF AllOf
<1>4. F \in Seq(Notes)
    BY FlattenTyped
<1>5. PICK b, o : Places(b, o, ws, F)
    BY FlattenPlaces
<1>6. ASSUME NEW p \in 1 .. Len(F)
      PROVE  /\ b[p] \in 1 .. n /\ o[p] \in 1 .. Len(ws[b[p]]) /\ F[p] = ws[b[p]][o[p]]
             /\ F[p].src \in X[b[p]] /\ ~Wakes(s[F[p].src])
    <2>1. PICK k, i : k = b[p] /\ i = o[p]
        OBVIOUS
    <2>2. k \in 1 .. n /\ i \in 1 .. Len(ws[k]) /\ F[p] = ws[k][i]
        BY <1>1, <1>5, <2>1 DEF Places
    <2>3. ws[k][i].src \in X[k] /\ ~Wakes(s[ws[k][i].src])
        BY <1>2, <2>2 DEF TellsOnce
    <2> QED BY <2>1, <2>2, <2>3
<1>7. ASSUME NEW p \in 1 .. Len(F), NEW q \in 1 .. Len(F), p # q PROVE F[p] # F[q]
    <2>1. CASE b[p] # b[q]
        <3>1. X[b[p]] \cap X[b[q]] = {}
            BY <1>2, <1>6, <2>1
        <3>2. F[p].src \in X[b[p]] /\ F[q].src \in X[b[q]]
            BY <1>6
        <3> QED BY <3>1, <3>2
    <2>2. CASE b[p] = b[q]
        <3>1. PICK k, i, j : k = b[p] /\ i = o[p] /\ j = o[q]
            OBVIOUS
        <3>2. /\ k \in 1 .. n /\ i \in 1 .. Len(ws[k]) /\ j \in 1 .. Len(ws[k])
              /\ F[p] = ws[k][i] /\ F[q] = ws[k][j]
            BY <1>6, <2>2, <3>1
        <3>3. i # j
            <4>1. p \in Nat /\ q \in Nat /\ i \in Nat /\ j \in Nat
                BY <1>4, <3>2, LenProperties
            <4>2. p < q \/ q < p
                BY <1>7, <4>1
            <4>3. o[p] < o[q] \/ o[q] < o[p]
                <5>1. k \in Nat
                    BY <3>2
                <5>2. ~(b[p] < b[q]) /\ ~(b[q] < b[p])
                    BY <2>2, <3>1, <5>1
                <5> QED BY <1>5, <4>2, <5>2 DEF Places
            <4> QED BY <3>1, <4>1, <4>3
        <3>4. ws[k][i] # ws[k][j]
            BY <1>2, <3>2, <3>3 DEF TellsOnce
        <3> QED BY <3>2, <3>4
    <2> QED BY <2>1, <2>2
<1>8. ASSUME NEW p \in 1 .. Len(F) PROVE F[p].src \in U /\ ~Wakes(s[F[p].src])
    <2>1. PICK x, k : x = F[p].src /\ k = b[p]
        OBVIOUS
    <2>2. k \in 1 .. n /\ x \in X[k] /\ ~Wakes(s[x])
        BY <1>6, <2>1
    <2>3. x \in U
        BY <1>3, <2>2
    <2> QED BY <2>1, <2>2, <2>3
<1>9. ASSUME NEW x \in U, ~Wakes(s[x]) PROVE \E p \in 1 .. Len(F) : F[p].src = x
    <2>1. PICK k \in 1 .. n : x \in X[k]
        BY <1>3
    <2>2. PICK i \in 1 .. Len(ws[k]) : ws[k][i].src = x
        BY <1>2, <1>9, <2>1 DEF TellsOnce
    <2>3. PICK p \in 1 .. Len(F) : b[p] = k /\ o[p] = i
        BY <1>1, <1>5, <2>2 DEF Places
    <2> QED BY <1>6, <2>2, <2>3
<1> QED BY <1>4, <1>7, <1>8, <1>9 DEF TellsOnce

\* The places of the groups of others.
Others(G, me) == UNION {PlacesOf(G[h]) : h \in (1 .. Len(G)) \ OwnGroups(G, me)}

LEMMA EveryOther ==
    ASSUME NEW s, NEW c, NEW G, Grouped(G, s, c), NEW me, NEW h \in 1 .. Len(G),
           h \notin OwnGroups(G, me)
    PROVE  h \in Since(G, me, Len(G) + 1) \/ \E g \in OwnGroups(G, me) : h \in Since(G, me, g)
<1>1. Len(G) \in Nat /\ DOMAIN G = 1 .. Len(G)
    BY LenProperties DEF Grouped
<1>2. PICK T, O : O = OwnGroups(G, me) /\ T = {g \in O : g > h}
    OBVIOUS
<1>3. O \subseteq 1 .. Len(G) /\ O \subseteq Nat /\ h \in Nat /\ h \notin O
    BY <1>1, <1>2 DEF OwnGroups
<1>4. CASE T = {}
    <2>1. \A f \in O : f < h
        BY <1>2, <1>3, <1>4
    <2>2. h < Len(G) + 1
        BY <1>1
    <2> QED BY <1>2, <2>1, <2>2 DEF Since
<1>5. CASE T # {}
    <2>1. T \subseteq Nat
        BY <1>2, <1>3
    <2>2. PICK g \in T : \A f \in T : g <= f
        BY <1>5, <2>1, Least
    <2>3. g \in O /\ h < g /\ g \in Nat
        BY <1>2, <1>3, <2>2
    <2>4. ASSUME NEW f \in O, f < g PROVE f < h
        <3>1. f \notin T
            BY <1>3, <2>2, <2>3, <2>4
        <3> QED BY <1>2, <1>3, <3>1
    <2> QED BY <1>2, <2>3, <2>4 DEF Since
<1> QED BY <1>4, <1>5

LEMMA OthersAreGaps ==
    ASSUME NEW s, Stamp(s), NEW c, NEW G, Grouped(G, s, c), NEW me, NEW x
    PROVE  x \in Others(G, me) <=> \/ x \in Gap(G, me, Len(G) + 1)
                                   \/ \E g \in OwnGroups(G, me) : x \in Gap(G, me, g)
<1>1. Len(G) \in Nat /\ DOMAIN G = 1 .. Len(G)
    BY LenProperties DEF Grouped
<1>2. OwnGroups(G, me) \subseteq 1 .. Len(G)
    BY <1>1 DEF OwnGroups
<1>3. ASSUME x \in Others(G, me)
      PROVE  x \in Gap(G, me, Len(G) + 1) \/ \E g \in OwnGroups(G, me) : x \in Gap(G, me, g)
    <2>1. PICK h \in 1 .. Len(G) : h \notin OwnGroups(G, me) /\ x \in PlacesOf(G[h])
        BY <1>3 DEF Others
    <2>2. h \in Since(G, me, Len(G) + 1) \/ \E g \in OwnGroups(G, me) : h \in Since(G, me, g)
        BY <2>1, EveryOther
    <2> QED BY <2>1, <2>2 DEF Gap
<1>4. ASSUME NEW g \in 1 .. Len(G) + 1, NEW h \in Since(G, me, g)
      PROVE  h \in (1 .. Len(G)) \ OwnGroups(G, me)
    <2>1. h \in 1 .. Len(G) /\ h < g /\ \A f \in OwnGroups(G, me) : f < g => f < h
        BY DEF Since
    <2>2. h \notin OwnGroups(G, me)
        <3>1. ~(h < h)
            BY <2>1
        <3> QED BY <2>1, <3>1
    <2> QED BY <2>1, <2>2
<1>5. ASSUME NEW g \in 1 .. Len(G) + 1, x \in Gap(G, me, g) PROVE x \in Others(G, me)
    <2>1. PICK h \in Since(G, me, g) : x \in PlacesOf(G[h])
        BY <1>5 DEF Gap
    <2> QED BY <1>4, <2>1 DEF Others
<1>6. Len(G) + 1 \in 1 .. Len(G) + 1 /\ OwnGroups(G, me) \subseteq 1 .. Len(G) + 1
    BY <1>1, <1>2
<1> QED BY <1>3, <1>5, <1>6

\* The gap before the agent's group at place k, if its group input is carried (or not).
GapIf(G, me, own, tools, v) ==
    [k \in 1 .. Len(own) |-> IF HasTold(G[own[k]], tools) = v THEN Gap(G, me, own[k]) ELSE {}]

InputIf(ws, G, me, own, tools, v) ==
    /\ ws \in Seq(Seq(Notes)) /\ Len(ws) = Len(own)
    /\ \A k \in 1 .. Len(own) :
          ws[k] = IF HasTold(G[own[k]], tools) = v THEN MergedGroupInput(G, me, own[k]) ELSE <<>>

\* The agent's groups g have their own gaps.
OwnList(own, G, me) ==
    /\ Lists(own, OwnGroups(G, me)) /\ Len(own) \in Nat
    /\ \A k \in 1 .. Len(own) : own[k] \in OwnGroups(G, me) /\ own[k] \in 1 .. Len(G)

LEMMA GapsApart ==
    ASSUME NEW s, Stamp(s), NEW c, NEW G, Grouped(G, s, c), NEW me,
           NEW f \in OwnGroups(G, me), NEW g \in 1 .. Len(G) + 1, f < g
    PROVE  Gap(G, me, f) \cap Gap(G, me, g) = {}
<1>1. Len(G) \in Nat /\ DOMAIN G = 1 .. Len(G)
    BY LenProperties DEF Grouped
<1>2. f \in 1 .. Len(G) + 1
    BY <1>1 DEF OwnGroups
<1>3. Gap(G, me, f) \subseteq Nat
    BY <1>2, GapBefore
<1>4. \A x \in Gap(G, me, f), y \in Gap(G, me, g) : x < y
    BY GapBefore
<1>5. \A x \in Nat : ~(x < x)
    OBVIOUS
<1> QED BY <1>3, <1>4, <1>5

LEMMA InputOnce ==
    ASSUME NEW s, Sound(s), expired \subseteq Nat \ {0}, NEW c, NEW G, Grouped(G, s, c),
           NEW me, NEW tools, NEW own, OwnList(own, G, me), NEW v \in BOOLEAN,
           NEW ws, InputIf(ws, G, me, own, tools, v)
    PROVE  TellsOnce(FlattenSeq(ws), s, AllOf(GapIf(G, me, own, tools, v), Len(own)))
<1>1. PICK n, X : n = Len(own) /\ X = GapIf(G, me, own, tools, v)
    OBVIOUS
<1>2. /\ n \in Nat /\ ws \in Seq(Seq(Notes)) /\ Len(ws) = n
      /\ \A k \in 1 .. n : own[k] \in OwnGroups(G, me) /\ own[k] \in 1 .. Len(G)
    BY <1>1 DEF OwnList, InputIf
<1>3. Len(G) \in Nat /\ Stamp(s)
    BY LenProperties DEF Grouped, Sound
<1>4. \A k \in 1 .. n : own[k] \in 1 .. Len(G) + 1
    BY <1>2, <1>3
<1>5. \A k \in 1 .. n : X[k] = IF HasTold(G[own[k]], tools) = v THEN Gap(G, me, own[k]) ELSE {}
    BY <1>1 DEF GapIf
<1>6. ASSUME NEW k \in 1 .. n PROVE TellsOnce(ws[k], s, X[k])
    <2>1. CASE HasTold(G[own[k]], tools) = v
        <3>1. ws[k] = MergedGroupInput(G, me, own[k]) /\ X[k] = Gap(G, me, own[k])
            BY <1>1, <1>5, <2>1 DEF InputIf
        <3>2. Collects(MergedGroupInput(G, me, own[k]), s, Gap(G, me, own[k]))
            BY <1>4, MergedCollects
        <3> QED BY <3>1, <3>2, CollectedOnce
    <2>2. CASE HasTold(G[own[k]], tools) # v
        <3>1. ws[k] = <<>> /\ X[k] = {}
            BY <1>1, <1>5, <2>2 DEF InputIf
        <3> QED BY <3>1, NothingOnce
    <2> QED BY <2>1, <2>2
<1>7. ASSUME NEW k \in 1 .. n, NEW l \in 1 .. n, k < l PROVE X[k] \cap X[l] = {}
    <2>1. own[k] < own[l]
        BY <1>1, <1>7 DEF OwnList, Lists
    <2>2. Gap(G, me, own[k]) \cap Gap(G, me, own[l]) = {}
        BY <1>2, <1>3, <1>4, <2>1, GapsApart
    <2> QED BY <1>5, <2>2
<1>8. OnceEach(ws, s, X)
    <2>1. ASSUME NEW k \in 1 .. n, NEW l \in 1 .. n, k # l PROVE X[k] \cap X[l] = {}
        <3>1. k < l \/ l < k
            BY <1>2, <2>1
        <3>2. CASE k < l
            BY <1>7, <3>2
        <3>3. CASE l < k
            <4>1. X[l] \cap X[k] = {}
                BY <1>7, <3>3
            <4> QED BY <4>1
        <3> QED BY <3>1, <3>2, <3>3
    <2> QED BY <1>2, <1>6, <2>1 DEF OnceEach
<1> QED BY <1>1, <1>2, <1>8, OnceFlatten

\* Whatever is carried by a message of the history or by the current input.
LEMMA AllOnce ==
    ASSUME NEW s, Sound(s), expired \subseteq Nat \ {0}, NEW c, NEW G, Grouped(G, s, c),
           NEW me, NEW tools, NEW own, OwnList(own, G, me),
           NEW cs, InputIf(cs, G, me, own, tools, TRUE),
           NEW ls, InputIf(ls, G, me, own, tools, FALSE),
           NEW e, e = MergedGroupInput(G, me, Len(G) + 1)
    PROVE  TellsOnce(FlattenSeq(cs) \o (e \o FlattenSeq(ls)), s, Others(G, me))
<1>1. PICK n, X, Y, Z, M : /\ n = Len(own) /\ X = AllOf(GapIf(G, me, own, tools, TRUE), n)
                           /\ Y = Gap(G, me, Len(G) + 1) /\ M = Len(G)
                           /\ Z = AllOf(GapIf(G, me, own, tools, FALSE), n)
    OBVIOUS
<1>2. M \in Nat /\ Stamp(s) /\ M + 1 \in 1 .. M + 1
    BY <1>1, LenProperties DEF Grouped, Sound
<1>3. TellsOnce(FlattenSeq(cs), s, X)
    BY <1>1, InputOnce
<1>4. TellsOnce(FlattenSeq(ls), s, Z)
    BY <1>1, InputOnce
<1>5. TellsOnce(e, s, Y)
    <2>1. Collects(e, s, Y)
        BY <1>1, <1>2, MergedCollects
    <2> QED BY <2>1, CollectedOnce
<1>6. \A k \in 1 .. n : own[k] \in OwnGroups(G, me) /\ own[k] \in 1 .. M
    BY <1>1 DEF OwnList
<1>7. \A x : x \in X <=> \E k \in 1 .. n : HasTold(G[own[k]], tools) /\ x \in Gap(G, me, own[k])
    BY <1>1 DEF AllOf, GapIf
<1>8. \A x : x \in Z <=> \E k \in 1 .. n : ~HasTold(G[own[k]], tools) /\ x \in Gap(G, me, own[k])
    <2>1. \A gr : HasTold(gr, tools) \in BOOLEAN
        BY DEF HasTold
    <2> QED BY <1>1, <2>1 DEF AllOf, GapIf
<1>9. \A k \in 1 .. n : Gap(G, me, own[k]) \cap Y = {}
    <2> SUFFICES ASSUME NEW k \in 1 .. n PROVE Gap(G, me, own[k]) \cap Y = {}
        OBVIOUS
    <2>1. own[k] < M + 1
        BY <1>2, <1>6
    <2> QED BY <1>1, <1>2, <1>6, <2>1, GapsApart
<1>10. \A k, l \in 1 .. n : k # l => Gap(G, me, own[k]) \cap Gap(G, me, own[l]) = {}
    <2>1. ASSUME NEW k \in 1 .. n, NEW l \in 1 .. n, k < l
          PROVE  Gap(G, me, own[k]) \cap Gap(G, me, own[l]) = {}
        <3>1. own[k] < own[l]
            BY <1>1, <2>1 DEF OwnList, Lists
        <3>2. own[l] \in 1 .. M + 1
            BY <1>2, <1>6
        <3> QED BY <1>1, <1>2, <1>6, <3>1, <3>2, GapsApart
    <2> SUFFICES ASSUME NEW k \in 1 .. n, NEW l \in 1 .. n, k # l
                 PROVE  Gap(G, me, own[k]) \cap Gap(G, me, own[l]) = {}
        OBVIOUS
    <2>2. k < l \/ l < k
        <3>1. k \in Nat /\ l \in Nat
            BY <1>1 DEF OwnList
        <3> QED BY <3>1
    <2>3. CASE l < k
        <3>1. Gap(G, me, own[l]) \cap Gap(G, me, own[k]) = {}
            BY <2>1, <2>3
        <3> QED BY <3>1
    <2> QED BY <2>1, <2>2, <2>3
<1>11. Y \cap Z = {}
    BY <1>8, <1>9
<1>12. X \cap (Y \cup Z) = {}
    <2>1. ASSUME NEW x, x \in X, x \in Y PROVE FALSE
        BY <1>7, <1>9, <2>1
    <2>2. ASSUME NEW x, x \in X, x \in Z PROVE FALSE
        <3>1. PICK k \in 1 .. n : HasTold(G[own[k]], tools) /\ x \in Gap(G, me, own[k])
            BY <1>7, <2>2
        <3>2. PICK l \in 1 .. n : ~HasTold(G[own[l]], tools) /\ x \in Gap(G, me, own[l])
            BY <1>8, <2>2
        <3>3. k # l
            BY <3>1, <3>2
        <3> QED BY <1>10, <3>1, <3>2, <3>3
    <2> QED BY <2>1, <2>2
<1>13. X \cup (Y \cup Z) = Others(G, me)
    <2>1. ASSUME NEW x, x \in Others(G, me) PROVE x \in X \cup (Y \cup Z)
        <3>1. x \in Y \/ \E g \in OwnGroups(G, me) : x \in Gap(G, me, g)
            BY <1>1, <1>2, <2>1, OthersAreGaps
        <3>2. ASSUME NEW g \in OwnGroups(G, me), x \in Gap(G, me, g) PROVE x \in X \cup Z
            <4>1. PICK k \in 1 .. n : own[k] = g
                BY <1>1 DEF OwnList, Lists
            <4> QED BY <1>7, <1>8, <3>2, <4>1
        <3> QED BY <3>1, <3>2
    <2>2. ASSUME NEW x, x \in X \cup (Y \cup Z) PROVE x \in Others(G, me)
        <3>1. x \in Y \/ \E k \in 1 .. n : x \in Gap(G, me, own[k])
            BY <1>7, <1>8, <2>2
        <3>2. x \in Y \/ \E g \in OwnGroups(G, me) : x \in Gap(G, me, g)
            BY <1>6, <3>1
        <3> QED BY <1>1, <1>2, <3>2, OthersAreGaps
    <2> QED BY <2>1, <2>2
<1>14. TellsOnce(e \o FlattenSeq(ls), s, Y \cup Z)
    BY <1>4, <1>5, <1>11, OnceConcat
<1>15. TellsOnce(FlattenSeq(cs) \o (e \o FlattenSeq(ls)), s, X \cup (Y \cup Z))
    BY <1>3, <1>12, <1>14, OnceConcat
<1> QED BY <1>13, <1>15

-----------------------------------------------------------------------------
(* The history of the session.                                              *)

\* A history as finished and paused tasks leave it.
Lawful(h) ==
    /\ h \in Seq(Artifacts) /\ Paired(h)
    /\ h # <<>> => h[1].kind = "input"
    /\ \A i \in 1 .. Len(h) : Shaped(h[i]) /\ Distinct(h[i].calls)
    /\ \A i \in 1 .. Len(h) : h[i].kind = "change" => i = Len(h) \/ h[i + 1].kind = "input"

\* The artifacts a and b differ in their places only.
Same(a, b) ==
    /\ a.kind = b.kind /\ a.owner = b.owner /\ a.input = b.input /\ a.wake = b.wake
    /\ a.calls = b.calls /\ a.call = b.call /\ a.why = b.why

StampOf(s, h) ==
    /\ s \in Seq(Artifacts) /\ Len(s) = Len(h) /\ Len(h) \in Nat
    /\ \A i \in 1 .. Len(h) : s[i].src = i /\ Same(s[i], h[i])

LEMMA StampedIs ==
    ASSUME NEW h \in Seq(Artifacts), NEW s, s = Stamped(h)
    PROVE  StampOf(s, h)
<1>1. PICK n : n = Len(h)
    OBVIOUS
<1>2. n \in Nat /\ DOMAIN h = 1 .. n
    BY <1>1, LenProperties
<1>3. ASSUME NEW i \in 1 .. n
      PROVE  s[i] \in Artifacts /\ s[i].src = i /\ Same(s[i], h[i])
    <2>1. PICK a, b : a = h[i] /\ b = [a EXCEPT !.src = i]
        OBVIOUS
    <2>2. a \in Artifacts /\ i \in Nat
        BY <1>1, <1>2, <2>1, ElementOfSeq
    <2>3. b \in Artifacts /\ b.src = i /\ Same(b, a)
        BY <2>1, <2>2 DEF Artifacts, Same
    <2>4. s[i] = b
        BY <1>2, <2>1 DEF Stamped
    <2> QED BY <2>1, <2>3, <2>4
<1>4. s \in [1 .. n -> Artifacts]
    BY <1>2, <1>3 DEF Stamped
<1>5. s \in Seq(Artifacts) /\ Len(s) = n
    BY <1>2, <1>4, ListOfLength
<1> QED BY <1>1, <1>2, <1>3, <1>5 DEF StampOf

LEMMA StampSound ==
    ASSUME NEW h, Lawful(h), NEW s, StampOf(s, h)
    PROVE  Sound(s)
<1>1. PICK n : n = Len(h)
    OBVIOUS
<1>2. /\ s \in Seq(Artifacts) /\ Len(s) = n /\ n \in Nat
      /\ \A i \in 1 .. n : s[i].src = i /\ Same(s[i], h[i])
    BY <1>1 DEF StampOf
<1>3. \A i \in 1 .. n : /\ s[i].kind = h[i].kind /\ s[i].calls = h[i].calls
                        /\ s[i].call = h[i].call
    BY <1>2 DEF Same
<1>4. \A i \in 1 .. n : Shaped(h[i]) /\ Distinct(h[i].calls)
    BY <1>1 DEF Lawful
<1>5. \A i \in 1 .. n : Shaped(s[i]) /\ Distinct(s[i].calls)
    BY <1>3, <1>4 DEF Shaped
<1>6. Paired(s)
    <2>1. /\ \A i \in 1 .. n : \A k \in Executed(h[i].calls) :
               i + k <= n /\ h[i + k].kind = "result" /\ h[i + k].call = h[i].calls[k].id
          /\ \A j \in 1 .. n : h[j].kind = "result" =>
               \E i \in 1 .. (j - 1) : j - i \in Executed(h[i].calls)
        BY <1>1 DEF Lawful, Paired
    <2>2. ASSUME NEW i \in 1 .. n, NEW k \in Executed(s[i].calls)
          PROVE  i + k <= n /\ s[i + k].kind = "result" /\ s[i + k].call = s[i].calls[k].id
        <3>1. s[i].calls \in Seq(Calls)
            <4>1. s[i] \in Artifacts
                BY <1>2, ElementOfSeq
            <4> QED BY <4>1 DEF Artifacts
        <3>2. k \in Nat /\ k >= 1
            BY <3>1, ExecutedIs
        <3>3. k \in Executed(h[i].calls)
            BY <1>3
        <3>4. i + k <= n /\ h[i + k].kind = "result" /\ h[i + k].call = h[i].calls[k].id
            BY <2>1, <3>3
        <3>5. PICK j : j = i + k
            OBVIOUS
        <3>6. j \in 1 .. n
            BY <1>2, <3>2, <3>4, <3>5
        <3> QED BY <1>3, <3>4, <3>5, <3>6
    <2>3. ASSUME NEW j \in 1 .. n, s[j].kind = "result"
          PROVE  \E i \in 1 .. (j - 1) : j - i \in Executed(s[i].calls)
        <3>1. PICK i \in 1 .. j - 1 : j - i \in Executed(h[i].calls)
            BY <1>3, <2>1, <2>3
        <3>2. i \in 1 .. n
            BY <1>2
        <3> QED BY <1>3, <3>1, <3>2
    <2> QED BY <1>2, <2>2, <2>3 DEF Paired
<1>7. ASSUME NEW i \in 1 .. n, s[i].kind = "change" PROVE i = n \/ s[i + 1].kind = "input"
    <2>1. i = n \/ h[i + 1].kind = "input"
        BY <1>1, <1>3, <1>7 DEF Lawful
    <2>2. i = n \/ i + 1 \in 1 .. n
        BY <1>2
    <2> QED BY <1>3, <2>1, <2>2
<1> QED BY <1>2, <1>5, <1>6, <1>7 DEF Sound, Stamp

StartsAt(i, j) ==
    /\ j \in 1 .. i /\ history[j].kind = "input"
    /\ \A k \in (j + 1) .. i : history[k].kind # "input"

LEMMA RoundStartIs ==
    ASSUME Lawful(history), NEW i \in 1 .. Len(history)
    PROVE  StartsAt(i, RoundStart(i)) /\ \A j : StartsAt(i, j) => RoundStart(i) = j
<1>1. history \in Seq(Artifacts) /\ Len(history) \in Nat /\ i \in Nat /\ i >= 1
    BY LenProperties DEF Lawful
<1>2. history # <<>>
    BY <1>1, EmptySeq
<1>3. PICK T : T = {j \in 1 .. i : history[j].kind = "input"}
    OBVIOUS
<1>4. 1 \in T /\ T \subseteq 1 .. i
    BY <1>1, <1>2, <1>3 DEF Lawful
<1>5. PICK m \in T : \A j \in T : j <= m
    BY <1>1, <1>4, Greatest
<1>6. StartsAt(i, m)
    <2>1. m \in 1 .. i /\ history[m].kind = "input" /\ m \in Nat
        BY <1>3, <1>4, <1>5
    <2>2. ASSUME NEW k \in m + 1 .. i PROVE history[k].kind # "input"
        <3>1. k \in 1 .. i /\ ~(k <= m)
            BY <1>1, <2>1
        <3> QED BY <1>3, <1>5, <3>1
    <2> QED BY <2>1, <2>2 DEF StartsAt
<1>7. ASSUME NEW j, NEW k, StartsAt(i, j), StartsAt(i, k) PROVE j = k
    <2>1. /\ j \in 1 .. i /\ k \in 1 .. i
          /\ history[j].kind = "input" /\ history[k].kind = "input"
          /\ \A l \in (j + 1) .. i : history[l].kind # "input"
          /\ \A l \in (k + 1) .. i : history[l].kind # "input"
        BY <1>7 DEF StartsAt
    <2>2. ~(j < k)
        <3>1. j < k => k \in j + 1 .. i
            BY <1>1, <2>1
        <3> QED BY <2>1, <3>1
    <2>3. ~(k < j)
        <3>1. k < j => j \in k + 1 .. i
            BY <1>1, <2>1
        <3> QED BY <2>1, <3>1
    <2> QED BY <1>1, <2>1, <2>2, <2>3
<1>8. RoundStart(i) = CHOOSE j \in 1 .. i : StartsAt(i, j)
    BY DEF RoundStart, StartsAt
<1>9. m \in 1 .. i
    BY <1>6 DEF StartsAt
<1>10. StartsAt(i, RoundStart(i))
    BY <1>6, <1>8, <1>9
<1> QED BY <1>7, <1>10

\* The history h with its places is s, cut into the groups G for an agent that processes c.
LEMMA PlaceOwner ==
    ASSUME Lawful(history), NEW s, StampOf(s, history), NEW c, NEW G, Grouped(G, s, c),
           NEW g \in 1 .. Len(G), NEW k \in 1 .. Len(G[g]),
           NEW i \in From(G[g][k]) .. To(G[g][k])
    PROVE  /\ i \in 1 .. Len(history) /\ RoundStart(i) = From(G[g][k])
           /\ history[RoundStart(i)].owner = G[g][1][1].owner
           /\ Latest(s, RoundStart(i), c)
<1>1. PICK r, f, e, n : r = G[g][k] /\ f = From(r) /\ e = To(r) /\ n = Len(history)
    OBVIOUS
<1>2. Sound(s) /\ Stamp(s)
    BY StampSound DEF Sound
<1>3. /\ Len(s) = n /\ n \in Nat /\ \A j \in 1 .. n : Same(s[j], history[j])
    BY <1>1 DEF StampOf
<1>4. r \in Rounds(s)
    <2>1. G \in Seq(Seq(Rounds(s)))
        BY DEF Grouped
    <2>2. G[g] \in Seq(Rounds(s))
        BY <2>1, ElementOfSeq
    <2> QED BY <1>1, <2>2, ElementOfSeq
<1>5. /\ f \in 1 .. n /\ e \in f .. n /\ s[f].kind = "input"
      /\ \A j \in f + 1 .. e : s[j].kind # "input"
    BY <1>1, <1>2, <1>3, <1>4, RoundPlaces
<1>6. i \in 1 .. n /\ f \in 1 .. i /\ i <= e /\ i \in Nat
    BY <1>1, <1>3, <1>5
<1>7. StartsAt(i, f)
    <2>1. history[f].kind = "input"
        BY <1>3, <1>5 DEF Same
    <2>2. ASSUME NEW j \in f + 1 .. i PROVE history[j].kind # "input"
        <3>1. j \in f + 1 .. e /\ j \in 1 .. n
            BY <1>3, <1>5, <1>6
        <3> QED BY <1>3, <1>5, <3>1 DEF Same
    <2> QED BY <1>6, <2>1, <2>2 DEF StartsAt
<1>8. RoundStart(i) = f
    BY <1>1, <1>6, <1>7, RoundStartIs
<1>9. history[f].owner = G[g][1][1].owner
    <2>1. r[1] = s[f]
        BY <1>1, <1>2, <1>4, ShapedRound
    <2>2. r[1].owner = G[g][1][1].owner
        BY <1>1 DEF Grouped
    <2>3. s[f].owner = history[f].owner
        BY <1>3, <1>5 DEF Same
    <2> QED BY <2>1, <2>2, <2>3
<1>10. Latest(s, f, c)
    BY <1>1 DEF Grouped
<1> QED BY <1>1, <1>6, <1>8, <1>9, <1>10

LEMMA CurrentPlaces ==
    ASSUME Lawful(history), NEW s, StampOf(s, history), NEW t, NEW G, Grouped(G, s, t.input),
           NEW i
    PROVE  i \in Current(t) <=> \E g \in 1 .. Len(G) : i \in PlacesOf(G[g])
<1>1. PICK n : n = Len(history)
    OBVIOUS
<1>2. /\ Len(s) = n /\ n \in Nat /\ \A j \in 1 .. n : Same(s[j], history[j])
      /\ DOMAIN history = 1 .. n
    BY <1>1, LenProperties DEF StampOf, Lawful
<1>3. Stamp(s)
    BY StampSound DEF Sound
<1>4. ASSUME NEW r \in 1 .. n
      PROVE  Latest(s, r, t.input) <=> /\ history[r].input # t.input
                                       /\ \A j \in (r + 1) .. n : history[j].kind = "input" =>
                                             history[j].input # history[r].input
    <2>1. s[r].input = history[r].input
        BY <1>2 DEF Same
    <2>2. \A j \in r + 1 .. n : s[j].kind = history[j].kind /\ s[j].input = history[j].input
        <3> SUFFICES ASSUME NEW j \in r + 1 .. n
                     PROVE  s[j].kind = history[j].kind /\ s[j].input = history[j].input
            OBVIOUS
        <3>1. j \in 1 .. n
            BY <1>2
        <3> QED BY <1>2, <3>1 DEF Same
    <2> QED BY <1>2, <2>1, <2>2 DEF Latest
<1>5. ASSUME i \in Current(t) PROVE \E g \in 1 .. Len(G) : i \in PlacesOf(G[g])
    <2>1. PICK r : r = RoundStart(i)
        OBVIOUS
    <2>2. /\ i \in 1 .. n /\ history[r].input # t.input
          /\ \A j \in (r + 1) .. n : history[j].kind = "input" =>
                 history[j].input # history[r].input
        BY <1>1, <1>2, <1>5, <2>1 DEF Current
    <2>3. /\ r \in 1 .. i /\ history[r].kind = "input"
          /\ \A k \in (r + 1) .. i : history[k].kind # "input"
        BY <1>1, <2>1, <2>2, RoundStartIs DEF StartsAt
    <2>4. r \in 1 .. n /\ i \in Nat /\ r \in Nat
        BY <1>2, <2>2, <2>3
    <2>5. s[r].kind = "input" /\ Latest(s, r, t.input)
        BY <1>2, <1>4, <2>2, <2>3, <2>4 DEF Same
    <2>12. PICK g \in 1 .. Len(G) : \E k \in 1 .. Len(G[g]) : From(G[g][k]) = r
        BY <1>2, <2>4, <2>5 DEF Grouped
    <2>6. PICK k \in 1 .. Len(G[g]) : From(G[g][k]) = r
        BY <2>12
    <2>7. PICK q, e : q = G[g][k] /\ e = To(q)
        OBVIOUS
    <2>8. q \in Rounds(s)
        <3>1. G \in Seq(Seq(Rounds(s)))
            BY DEF Grouped
        <3>2. G[g] \in Seq(Rounds(s))
            BY <3>1, ElementOfSeq
        <3> QED BY <2>7, <3>2, ElementOfSeq
    <2>9. e \in r .. n /\ (e = n \/ s[e + 1].kind = "input")
        BY <1>2, <1>3, <2>6, <2>7, <2>8, RoundPlaces
    <2>10. i <= e
        <3>1. SUFFICES ASSUME e < i PROVE FALSE
            BY <1>2, <2>4, <2>9
        <3>2. e # n /\ e + 1 \in r + 1 .. i /\ e + 1 \in 1 .. n
            BY <1>2, <2>2, <2>4, <2>9, <3>1
        <3>3. s[e + 1].kind = "input" /\ history[e + 1].kind # "input"
            BY <2>3, <2>9, <3>2
        <3> QED BY <1>2, <3>2, <3>3 DEF Same
    <2>11. i \in From(G[g][k]) .. To(G[g][k])
        BY <1>2, <2>3, <2>4, <2>6, <2>7, <2>9, <2>10
    <2> QED BY <2>11 DEF PlacesOf
<1>6. ASSUME NEW g \in 1 .. Len(G), i \in PlacesOf(G[g]) PROVE i \in Current(t)
    <2>1. PICK k \in 1 .. Len(G[g]) : i \in From(G[g][k]) .. To(G[g][k])
        BY <1>6 DEF PlacesOf
    <2>2. i \in 1 .. n /\ Latest(s, RoundStart(i), t.input)
        BY <1>1, <2>1, PlaceOwner
    <2>3. RoundStart(i) \in 1 .. i
        BY <1>1, <2>2, RoundStartIs DEF StartsAt
    <2>4. RoundStart(i) \in 1 .. n
        BY <1>2, <2>2, <2>3
    <2> QED BY <1>1, <1>2, <1>4, <2>2, <2>4 DEF Current
<1> QED BY <1>5, <1>6

-----------------------------------------------------------------------------
(* A task and what it has exchanged with the model and its tools.           *)

\* p is the last message of the model in a; what stands behind it are its results.
LastMessage(a, p) ==
    /\ p \in 1 .. Len(a) /\ a[p].kind # "result"
    /\ \A i \in p + 1 .. Len(a) :
          /\ a[i].kind = "result" /\ i - p \in Executed(a[p].calls)
          /\ a[i].call = a[p].calls[i - p].id

\* What stands before the last message is answered, by calls with lesser numbers.
Before(a, p) ==
    /\ \A i \in 1 .. p - 1 : \A k \in Executed(a[i].calls) :
          i + k < p /\ a[i + k].kind = "result" /\ a[i + k].call = a[i].calls[k].id
    /\ \A j \in 1 .. p - 1 : a[j].kind = "result" =>
          \E i \in 1 .. (j - 1) : j - i \in Executed(a[i].calls)
    /\ \A i \in 1 .. p - 1 : \A k \in 1 .. Len(a[p].calls) : a[i].call < a[p].calls[k].id

\* An exchange whose calls have numbers up to top.
Exchange(a, top) ==
    /\ a \in Seq(Artifacts)
    /\ \A i \in 1 .. Len(a) : /\ a[i].kind \in {"tool_call", "response", "result"}
                              /\ Shaped(a[i]) /\ Distinct(a[i].calls) /\ a[i].call <= top
                              /\ \A k \in 1 .. Len(a[i].calls) : a[i].calls[k].id \in 1 .. top
    /\ a # <<>> => \E p : LastMessage(a, p) /\ Before(a, p)

Tasks == [input : Nat, wake : BOOLEAN, owner : Agents, artifacts : Seq(Artifacts)]

Busy(t, top) == t \in Tasks /\ Exchange(t.artifacts, top)

LEMMA AskedIs ==
    ASSUME NEW t, NEW top \in Nat, Busy(t, top), NEW p, LastMessage(t.artifacts, p)
    PROVE  Asked(t) = t.artifacts[p].calls
<1>1. PICK a, S, K : /\ a = t.artifacts /\ S = {x \in Range(a) : x.kind # "result"}
                     /\ K = Keep(a, S)
    OBVIOUS
<1>2. a \in Seq(Artifacts) /\ Len(a) \in Nat /\ DOMAIN a = 1 .. Len(a)
    BY <1>1, LenProperties DEF Busy, Exchange
<1>3. p \in 1 .. Len(a) /\ a[p].kind # "result" /\ \A i \in p + 1 .. Len(a) : a[i].kind = "result"
    BY <1>1 DEF LastMessage
<1>4. \A i \in 1 .. Len(a) : a[i] \in S <=> a[i].kind # "result"
    BY <1>1, <1>2 DEF Range
<1>5. PICK f : Picks(f, a, S, K)
    BY <1>1, <1>2, KeepPlaces
<1>6. K \in Seq(Artifacts) /\ Len(K) \in Nat
    BY <1>1, <1>2, KeepTyped, LenProperties
<1>7. PICK q \in 1 .. Len(K) : f[q] = p
    BY <1>3, <1>4, <1>5 DEF Picks
<1>8. q = Len(K)
    <2>1. SUFFICES ASSUME q < Len(K) PROVE FALSE
        BY <1>6
    <2>2. PICK l, y : l = Len(K) /\ y = f[l]
        OBVIOUS
    <2>3. l \in 1 .. Len(K) /\ q < l
        BY <1>6, <2>1, <2>2
    <2>4. y \in 1 .. Len(a) /\ K[l] = a[y] /\ K[l] \in S /\ p < y
        BY <1>5, <1>7, <2>2, <2>3 DEF Picks
    <2>5. a[y].kind # "result"
        BY <1>4, <2>4
    <2>6. y \in p + 1 .. Len(a)
        BY <1>2, <1>3, <2>4
    <2> QED BY <1>3, <2>5, <2>6
<1>9. K[Len(K)] = a[p]
    BY <1>5, <1>7, <1>8 DEF Picks
<1> QED BY <1>1, <1>9 DEF Asked, LastOf

\* The calls that wait are those behind the results.
LEMMA WaitingIs ==
    ASSUME NEW t, NEW top \in Nat, Busy(t, top), NEW a, a = t.artifacts,
           NEW p, LastMessage(a, p), Before(a, p)
    PROVE  /\ Asked(t) = a[p].calls /\ a[p].calls \in Seq(Calls) /\ a # <<>>
           /\ \A k : k \in Waiting(t) <=> k \in Executed(a[p].calls) /\ p + k > Len(a)
<1>1. PICK c, n : c = a[p].calls /\ n = Len(a)
    OBVIOUS
<1>2. /\ a \in Seq(Artifacts) /\ n \in Nat /\ DOMAIN a = 1 .. n
      /\ \A i \in 1 .. n : Shaped(a[i]) /\ Distinct(a[i].calls)
                           /\ \A k \in 1 .. Len(a[i].calls) : a[i].calls[k].id \in 1 .. top
    BY <1>1, LenProperties DEF Busy, Exchange
<1>3. /\ p \in 1 .. n /\ a[p].kind # "result"
      /\ \A i \in p + 1 .. n : /\ a[i].kind = "result" /\ i - p \in Executed(c)
                               /\ a[i].call = c[i - p].id
    BY <1>1 DEF LastMessage
<1>4. \A i \in 1 .. p - 1 : \A k \in 1 .. Len(c) : a[i].call < c[k].id
    BY <1>1 DEF Before
<1>5. c \in Seq(Calls) /\ a[p].call = 0 /\ a # <<>>
    <2>1. a[p] \in Artifacts
        BY <1>2, <1>3, ElementOfSeq
    <2>2. a[p].call = 0
        BY <1>2, <1>3 DEF Shaped
    <2>3. a # <<>>
        BY <1>1, <1>3
    <2> QED BY <1>1, <2>1, <2>2, <2>3 DEF Artifacts
<1>6. Asked(t) = c
    BY <1>1, AskedIs
<1>7. \A k \in Executed(c) : k \in Nat /\ k >= 1 /\ k \in 1 .. Len(c)
    <2>1. Len(c) \in Nat
        BY <1>5, LenProperties
    <2> QED BY <1>5, <2>1, ExecutedIs
<1>8. \A k \in 1 .. Len(c) : c[k].id \in Nat /\ c[k].id > 0
    <2>1. \A k \in 1 .. Len(c) : c[k].id \in 1 .. top
        BY <1>1, <1>2, <1>3
    <2> QED BY <2>1
<1>9. Distinct(c)
    BY <1>1, <1>2, <1>3
<1>10. ASSUME NEW k \in Executed(c)
       PROVE  c[k].id \in Results(t) <=> p + k <= n
    <2>1. k \in Nat /\ k >= 1 /\ k \in 1 .. Len(c)
        BY <1>7
    <2>2. ASSUME p + k <= n PROVE c[k].id \in Results(t)
        <3>1. PICK i : i = p + k
            OBVIOUS
        <3>2. i \in p + 1 .. n /\ i \in 1 .. n /\ i - p = k
            BY <1>2, <1>3, <2>1, <2>2, <3>1
        <3>3. a[i].call = c[k].id
            BY <1>3, <3>2
        <3> QED BY <1>2, <3>2, <3>3 DEF Results
    <2>3. ASSUME c[k].id \in Results(t) PROVE p + k <= n
        <3>1. PICK i \in 1 .. n : a[i].call = c[k].id
            BY <1>2, <2>3 DEF Results
        <3>2. c[k].id \in Nat /\ c[k].id > 0
            BY <1>8, <2>1
        <3>3. ~(i < p)
            <4>1. SUFFICES ASSUME i < p PROVE FALSE
                OBVIOUS
            <4>2. i \in 1 .. p - 1
                BY <1>2, <1>3, <4>1
            <4>3. a[i].call < c[k].id
                BY <1>4, <2>1, <4>2
            <4> QED BY <3>1, <3>2, <4>3
        <3>4. i # p
            BY <1>5, <3>1, <3>2
        <3>5. i \in p + 1 .. n
            BY <1>2, <1>3, <3>3, <3>4
        <3>6. PICK l : l = i - p
            OBVIOUS
        <3>7. l \in 1 .. Len(c) /\ c[l].id = c[k].id
            BY <1>3, <1>7, <3>1, <3>5, <3>6
        <3>8. l = k
            BY <1>9, <2>1, <3>7 DEF Distinct
        <3> QED BY <1>2, <1>3, <3>5, <3>6, <3>8
    <2> QED BY <2>2, <2>3
<1>11. ASSUME NEW k PROVE k \in Waiting(t) <=> k \in Executed(c) /\ p + k > n
    <2>1. k \in Waiting(t) <=> k \in Executed(c) /\ c[k].id \notin Results(t)
        BY <1>5, <1>6 DEF Waiting
    <2>2. k \in Executed(c) => (p + k > n <=> ~(p + k <= n))
        BY <1>2, <1>3, <1>7
    <2> QED BY <1>10, <2>1, <2>2
<1> QED BY <1>1, <1>5, <1>6, <1>11

\* When no call waits, every call has its result.
LEMMA DonePaired ==
    ASSUME NEW t, NEW top \in Nat, Busy(t, top), Waiting(t) = {}
    PROVE  Paired(t.artifacts)
<1>1. PICK a, n : a = t.artifacts /\ n = Len(a)
    OBVIOUS
<1>2. a \in Seq(Artifacts) /\ n \in Nat
    BY <1>1, LenProperties DEF Busy, Exchange
<1>3. CASE a = <<>>
    <2>1. n = 0
        BY <1>1, <1>3
    <2> QED BY <1>1, <2>1 DEF Paired
<1>4. CASE a # <<>>
    <2>1. PICK p : LastMessage(a, p) /\ Before(a, p)
        BY <1>1, <1>4 DEF Busy, Exchange
    <2>2. PICK c : c = a[p].calls
        OBVIOUS
    <2>3. /\ p \in 1 .. n /\ a[p].kind # "result"
          /\ \A i \in p + 1 .. n : /\ a[i].kind = "result" /\ i - p \in Executed(c)
                                   /\ a[i].call = c[i - p].id
        BY <1>1, <2>1, <2>2 DEF LastMessage
    <2>4. c \in Seq(Calls) /\ \A k \in Executed(c) : ~(p + k > n)
        BY <1>1, <2>1, <2>2, WaitingIs
    <2>5. \A k \in Executed(c) : k \in Nat /\ k >= 1
        BY <2>4, ExecutedIs
    <2>6. ASSUME NEW i \in 1 .. n, NEW k \in Executed(a[i].calls)
          PROVE  i + k <= n /\ a[i + k].kind = "result" /\ a[i + k].call = a[i].calls[k].id
        <3>0. a[i].calls \in Seq(Calls) /\ k \in Nat /\ k >= 1
            <4>1. a[i] \in Artifacts
                BY <1>1, <1>2, ElementOfSeq
            <4>2. a[i].calls \in Seq(Calls)
                BY <4>1 DEF Artifacts
            <4> QED BY <4>2, ExecutedIs
        <3>1. CASE i < p
            <4>1. i \in 1 .. p - 1
                BY <1>2, <2>3, <3>1
            <4>2. i + k < p /\ a[i + k].kind = "result" /\ a[i + k].call = a[i].calls[k].id
                BY <2>1, <4>1 DEF Before
            <4> QED BY <1>2, <2>3, <3>0, <4>2
        <3>2. CASE i = p
            <4>1. PICK j : j = p + k
                OBVIOUS
            <4>2. j \in p + 1 .. n /\ j - p = k
                BY <1>2, <2>2, <2>3, <2>4, <3>0, <3>2, <4>1
            <4>3. a[j].kind = "result" /\ a[j].call = c[k].id
                BY <2>3, <4>2
            <4> QED BY <2>2, <3>2, <4>1, <4>2, <4>3
        <3>3. CASE i > p
            <4>1. i \in p + 1 .. n
                BY <1>2, <2>3, <3>3
            <4>2. Shaped(a[i])
                BY <1>1 DEF Busy, Exchange
            <4>3. a[i].calls = <<>>
                BY <2>3, <4>1, <4>2 DEF Shaped
            <4> QED BY <3>0, <4>3, ExecutedIs
        <3> QED BY <1>2, <2>3, <3>1, <3>2, <3>3
    <2>7. ASSUME NEW j \in 1 .. n, a[j].kind = "result"
          PROVE  \E i \in 1 .. (j - 1) : j - i \in Executed(a[i].calls)
        <3>1. CASE j < p
            <4>1. j \in 1 .. p - 1
                BY <1>2, <2>3, <3>1
            <4> QED BY <2>1, <2>7, <4>1 DEF Before
        <3>2. CASE j > p
            <4>1. j \in p + 1 .. n /\ p \in 1 .. j - 1
                BY <1>2, <2>3, <3>2
            <4> QED BY <2>2, <2>3, <4>1
        <3>3. j # p
            BY <2>3, <2>7
        <3> QED BY <1>2, <2>3, <3>1, <3>2, <3>3
    <2> QED BY <1>1, <2>6, <2>7 DEF Paired
<1> QED BY <1>3, <1>4

LEMMA PairedSame ==
    ASSUME NEW n \in Nat, NEW h \in Seq(Artifacts), Len(h) = n, Paired(h),
           NEW s \in Seq(Artifacts), Len(s) = n, \A i \in 1 .. n : Same(s[i], h[i])
    PROVE  Paired(s)
<1>1. \A i \in 1 .. n : /\ s[i].kind = h[i].kind /\ s[i].calls = h[i].calls
                        /\ s[i].call = h[i].call
    BY DEF Same
<1>2. /\ \A i \in 1 .. n : \A k \in Executed(h[i].calls) :
           i + k <= n /\ h[i + k].kind = "result" /\ h[i + k].call = h[i].calls[k].id
      /\ \A j \in 1 .. n : h[j].kind = "result" =>
           \E i \in 1 .. (j - 1) : j - i \in Executed(h[i].calls)
    BY DEF Paired
<1>3. ASSUME NEW i \in 1 .. n, NEW k \in Executed(s[i].calls)
      PROVE  i + k <= n /\ s[i + k].kind = "result" /\ s[i + k].call = s[i].calls[k].id
    <2>1. s[i].calls \in Seq(Calls)
        <3>1. s[i] \in Artifacts
            BY ElementOfSeq
        <3> QED BY <3>1 DEF Artifacts
    <2>2. k \in Nat /\ k >= 1
        BY <2>1, ExecutedIs
    <2>3. k \in Executed(h[i].calls)
        BY <1>1
    <2>4. i + k <= n /\ h[i + k].kind = "result" /\ h[i + k].call = h[i].calls[k].id
        BY <1>2, <2>3
    <2>5. PICK j : j = i + k
        OBVIOUS
    <2>6. j \in 1 .. n
        BY <2>2, <2>4, <2>5
    <2> QED BY <1>1, <2>4, <2>5, <2>6
<1>4. ASSUME NEW j \in 1 .. n, s[j].kind = "result"
      PROVE  \E i \in 1 .. (j - 1) : j - i \in Executed(s[i].calls)
    <2>1. PICK i \in 1 .. j - 1 : j - i \in Executed(h[i].calls)
        BY <1>1, <1>2, <1>4
    <2>2. i \in 1 .. n
        OBVIOUS
    <2> QED BY <1>1, <2>1, <2>2
<1> QED BY <1>3, <1>4 DEF Paired

\* The messages T tell the current input, which carries w, and its task.
TaskIs(T, w) ==
    /\ T \in Seq(Msgs) /\ Answers(T)
    /\ \A i \in 1 .. Len(T) : T[i].src = Len(history) + i
    /\ Spread(Carried, T) = w
    /\ \E own \in Seq(Notes) : /\ Spread(Read, T) = w \o own
                               /\ \A i \in 1 .. Len(own) : own[i].src > Len(history)

LEMMA InputIs ==
    ASSUME NEW t \in Tasks
    PROVE  LET a == InputArtifact(t)
           IN  /\ a \in Artifacts /\ a.kind = "input" /\ a.calls = <<>> /\ Shaped(a)
               /\ a.call = 0 /\ a.owner = t.owner /\ a.input = t.input /\ a.wake = t.wake
<1>1. t.input \in Nat /\ t.wake \in BOOLEAN /\ t.owner \in Agents
    BY DEF Tasks
<1>2. <<>> \in Seq(Calls)
    BY EmptySeq
<1> QED BY <1>1, <1>2 DEF InputArtifact, Artifact, Artifacts, Kinds, Shaped

LEMMA TaskTold ==
    ASSUME history \in Seq(Artifacts), NEW top \in Nat, NEW t, Busy(t, top), Waiting(t) = {},
           NEW w \in Seq(Notes),
           w = CurrentGroupInput(GroupsFor(t), t.owner, AvailableTools(t))
    PROVE  TaskIs(TaskMessages(t), w)
<1>1. PICK N, a, x, h, S, T : /\ N = Len(history) /\ a = t.artifacts /\ x = InputArtifact(t)
                              /\ h = history \o TaskArtifacts(t) /\ S = Stamped(h)
                              /\ T = TaskMessages(t)
    OBVIOUS
<1>2. PICK m, n : m = Len(a) /\ n = N + 1
    OBVIOUS
<1>3. a \in Seq(Artifacts) /\ m \in Nat /\ N \in Nat /\ n \in Nat /\ n >= 1 /\ t \in Tasks
    BY <1>1, <1>2, LenProperties DEF Busy, Exchange
<1>4. x \in Artifacts /\ x.kind = "input" /\ x.calls = <<>>
    BY <1>1, <1>3, InputIs
<1>5. PICK b : b = <<x>> \o a
    OBVIOUS
<1>6. b \in Seq(Artifacts) /\ Len(b) = m + 1 /\ b[1] = x /\ \A i \in 1 .. m : b[i + 1] = a[i]
    BY <1>2, <1>3, <1>4, <1>5
<1>7. h = history \o b
    BY <1>1, <1>5 DEF TaskArtifacts
<1>8. /\ h \in Seq(Artifacts) /\ Len(h) = n + m
      /\ h[n] = x /\ \A i \in 1 .. m : h[n + i] = a[i]
    <2>0. PICK M : M = m + 1 /\ M \in Nat
        BY <1>3
    <2>6. Len(b) = M
        BY <1>6, <2>0
    <2>7. /\ h \in Seq(Artifacts) /\ Len(h) = N + M /\ \A i \in 1 .. M : h[N + i] = b[i]
        <3>1. PICK H : H = history /\ H \in Seq(Artifacts) /\ Len(H) = N
            BY <1>1
        <3>2. b \in Seq(Artifacts) /\ h = H \o b /\ Len(b) = M
            BY <1>6, <1>7, <2>6, <3>1
        <3>3. h \in Seq(Artifacts)
            BY <3>1, <3>2, ConcatProperties
        <3>4. Len(h) = N + M
            BY <3>1, <3>2, ConcatProperties
        <3>5. ASSUME NEW i \in 1 .. M PROVE h[N + i] = b[i]
            <4>1. PICK j : j = N + i
                OBVIOUS
            <4>2. j \in 1 .. Len(H) + Len(b) /\ j > Len(H) /\ j - Len(H) = i
                BY <1>3, <2>0, <3>1, <3>2, <4>1
            <4>3. (H \o b)[j] = b[j - Len(H)]
                BY <3>1, <3>2, <4>2, ConcatProperties
            <4> QED BY <3>2, <4>1, <4>2, <4>3
        <3> QED BY <3>3, <3>4, <3>5
    <2>1. h \in Seq(Artifacts) /\ Len(h) = N + (m + 1)
        BY <2>0, <2>7
    <2>2. \A i \in 1 .. m + 1 : h[N + i] = b[i]
        BY <2>0, <2>7
    <2>3. h[N + 1] = x
        BY <1>3, <1>6, <2>2
    <2>4. ASSUME NEW i \in 1 .. m PROVE h[n + i] = a[i]
        <3>1. PICK j : j = i + 1
            OBVIOUS
        <3>2. j \in 1 .. m + 1 /\ N + j = n + i
            BY <1>2, <1>3, <3>1
        <3> QED BY <1>6, <2>2, <3>1, <3>2
    <2>5. N + (m + 1) = n + m
        BY <1>2, <1>3
    <2> QED BY <1>2, <2>1, <2>3, <2>4, <2>5
<1>9. /\ S \in Seq(Artifacts) /\ Len(S) = n + m
      /\ \A i \in 1 .. n + m : S[i].src = i /\ Same(S[i], h[i])
    <2>1. StampOf(S, h)
        BY <1>1, <1>8, StampedIs
    <2> QED BY <1>8, <2>1 DEF StampOf
<1>10. S[n] \in Artifacts /\ S[n].src = n /\ S[n].calls = <<>>
    <2>1. n \in 1 .. n + m
        BY <1>3
    <2>2. S[n] \in Artifacts
        BY <1>9, <2>1, ElementOfSeq
    <2> QED BY <1>4, <1>8, <1>9, <2>1, <2>2 DEF Same
<1>11. PICK q : q = [i \in 1 .. m |-> S[n + i]]
    OBVIOUS
<1>12. \A i \in 1 .. m : q[i] = S[n + i] /\ q[i].src = n + i /\ Same(q[i], a[i]) /\ q[i] \in Artifacts
    <2> SUFFICES ASSUME NEW i \in 1 .. m
                 PROVE  q[i] = S[n + i] /\ q[i].src = n + i /\ Same(q[i], a[i]) /\ q[i] \in Artifacts
        OBVIOUS
    <2>1. PICK j : j = n + i
        OBVIOUS
    <2>2. j \in 1 .. n + m /\ q[i] = S[j]
        BY <1>3, <1>11, <2>1
    <2>3. S[j] \in Artifacts
        BY <1>9, <2>2, ElementOfSeq
    <2> QED BY <1>8, <1>9, <2>1, <2>2, <2>3
<1>13. q \in Seq(Artifacts) /\ Len(q) = m
    <2>1. q \in [1 .. m -> Artifacts]
        BY <1>11, <1>12
    <2> QED BY <1>3, <2>1, ListOfLength
<1>14. Paired(q)
    <2>1. Paired(a)
        BY <1>1, DonePaired
    <2> QED BY <1>2, <1>3, <1>12, <1>13, <2>1, PairedSame
<1>15. \A i \in 1 .. m : ~Reports(q[i])
    <2>1. \A i \in 1 .. m : a[i].kind # "change"
        BY <1>1, <1>2 DEF Busy, Exchange
    <2> QED BY <1>12, <2>1 DEF Same, Reports
<1>16. PICK f : f = [i \in 1 .. (Len(S) - n) |-> ArtifactToMessages(S[n + i])]
    OBVIOUS
<1>17. Len(S) - n = m
    BY <1>3, <1>9
<1>18. \A i \in 1 .. m : f[i] = ArtifactToMessages(q[i])
    BY <1>12, <1>16, <1>17
<1>19. PICK rest : rest = FlattenSeq(f)
    OBVIOUS
<1>20. TellsAll(rest, q)
    <2>1. f = [i \in 1 .. m |-> f[i]]
        BY <1>16, <1>17
    <2>2. \A i \in 1 .. m - 1 : ~Reports(q[i])
        BY <1>3, <1>15
    <2> QED BY <1>3, <1>13, <1>18, <1>19, <2>1, <2>2, RestTold
<1>21. /\ rest \in Seq(Msgs) /\ Len(rest) = m
       /\ \A i \in 1 .. m : rest[i].src = n + i /\ rest[i].group = <<>>
    <2>1. /\ rest \in Seq(Msgs) /\ Len(rest) \in Nat /\ Len(rest) <= m
          /\ Len(rest) # m => Len(rest) = m - 1 /\ Reports(q[m])
          /\ \A i \in 1 .. Len(rest) : Says(rest[i], q[i])
        BY <1>13, <1>20 DEF TellsAll
    <2>2. Len(rest) = m
        <3>1. SUFFICES ASSUME Len(rest) # m PROVE FALSE
            OBVIOUS
        <3>2. m \in 1 .. m
            BY <1>3, <2>1, <3>1
        <3> QED BY <1>15, <2>1, <3>1, <3>2
    <2> QED BY <1>12, <2>1, <2>2 DEF Says
<1>22. Answers(rest)
    BY <1>13, <1>14, <1>20, SaidAnswers
<1>23. PICK y \in Msgs : /\ InputToMessages(S[n], w) = <<y>> /\ y.src = S[n].src /\ y.group = w
                         /\ y.calls = <<>> /\ y.role # "tool"
    BY <1>10, InputMessage
<1>24. T = <<y>> \o rest
    <2>1. T = InputToMessages(S[n], w) \o rest
        BY <1>1, <1>2, <1>16, <1>19 DEF TaskMessages
    <2> QED BY <1>23, <2>1
<1>25. Headed(T, y, rest)
    <2>1. \A i \in 1 .. Len(rest) : rest[i].group = <<>>
        BY <1>21
    <2> QED BY <1>21, <1>24, <2>1, HeadAndRest
<1>26. T \in Seq(Msgs) /\ Answers(T) /\ Spread(Carried, T) = w /\ Len(T) = m + 1
    <2>1. Answers(T)
        BY <1>21, <1>22, <1>23, <1>25, HeadedAnswers
    <2> QED BY <1>21, <1>23, <1>25, <2>1 DEF Headed
<1>27. ASSUME NEW i \in 1 .. Len(T) PROVE T[i].src = N + i
    <2>1. CASE i = 1
        <3>1. T[1] = y
            BY <1>25 DEF Headed
        <3> QED BY <1>2, <1>10, <1>23, <2>1, <3>1
    <2>2. CASE i # 1
        <3>1. PICK j : j = i - 1
            OBVIOUS
        <3>2. j \in 1 .. m /\ j + 1 = i /\ n + j = N + i
            BY <1>2, <1>3, <1>26, <2>2, <3>1
        <3>3. T[i] = rest[j]
            BY <1>21, <1>25, <3>2 DEF Headed
        <3> QED BY <1>21, <3>2, <3>3
    <2> QED BY <2>1, <2>2
<1>28. PICK own \in Seq(Notes) : /\ Spread(Read, T) = w \o own /\ Len(own) = Len(T)
                                 /\ \A i \in 1 .. Len(T) : own[i] = Noted(T[i])
    BY <1>23, <1>25 DEF Headed
<1>29. \A i \in 1 .. Len(own) : own[i].src > N
    <2> SUFFICES ASSUME NEW i \in 1 .. Len(T) PROVE own[i].src > N
        BY <1>28
    <2>1. own[i].src = N + i
        <3>1. own[i] = Noted(T[i]) /\ T[i].src = N + i
            BY <1>27, <1>28
        <3>2. Noted(T[i]).src = T[i].src
            BY DEF Noted
        <3> QED BY <3>1, <3>2
    <2>2. i \in Nat /\ i >= 1
        BY <1>3, <1>26
    <2> QED BY <1>3, <2>1, <2>2
<1>30. TaskIs(T, w)
    BY <1>1, <1>26, <1>27, <1>28, <1>29 DEF TaskIs
<1> QED BY <1>1, <1>30

-----------------------------------------------------------------------------
(* All messages that are built.                                             *)

LEMMA GroupsForIs ==
    ASSUME Lawful(history), NEW t, NEW s, s = Stamped(history)
    PROVE  Sound(s) /\ StampOf(s, history) /\ Grouped(GroupsFor(t), s, t.input)
<1>1. StampOf(s, history)
    BY StampedIs DEF Lawful
<1>2. Sound(s) /\ Stamp(s)
    BY <1>1, StampSound DEF Sound
<1>3. PICK rs, F, c : /\ rs = SplitHistoryRounds(s) /\ c = t.input
                      /\ F = FilterLatestHistoryRounds(rs, c)
    OBVIOUS
<1>4. /\ rs \in Seq(Rounds(s)) /\ Rising(rs)
      /\ \A i \in 1 .. Len(s) : s[i].kind = "input" => \E k \in 1 .. Len(rs) : From(rs[k]) = i
    BY <1>2, <1>3, SplitIs
<1>5. /\ F \in Seq(Rounds(s)) /\ Rising(F)
      /\ \A k \in 1 .. Len(F) : Latest(s, From(F[k]), c)
      /\ \A i \in 1 .. Len(s) : s[i].kind = "input" /\ Latest(s, i, c) =>
             \E k \in 1 .. Len(F) : From(F[k]) = i
    BY <1>2, <1>3, <1>4, LatestIs
<1>6. Grouped(BuildHistoryRoundGroups(F), s, c)
    BY <1>2, <1>5, GroupsAre
<1>7. GroupsFor(t) = BuildHistoryRoundGroups(F)
    BY <1>3 DEF GroupsFor
<1> QED BY <1>1, <1>2, <1>3, <1>6, <1>7

\* The group inputs that no message of the history carries.
LEMMA LeftOver ==
    ASSUME NEW s, Sound(s), expired \subseteq Nat \ {0}, NEW c, NEW G, Grouped(G, s, c),
           NEW me, NEW tools, NEW own, OwnList(own, G, me), own = PlacesIn(G, OwnGroups(G, me)),
           NEW e, e = MergedGroupInput(G, me, Len(G) + 1)
    PROVE  \E ls : /\ InputIf(ls, G, me, own, tools, FALSE)
                   /\ CurrentGroupInput(G, me, tools) = e \o FlattenSeq(ls)
                   /\ e \o FlattenSeq(ls) \in Seq(Notes) /\ Aware(e \o FlattenSeq(ls), s)
<1>1. PICK n, M : n = Len(own) /\ M = Len(G)
    OBVIOUS
<1>2. /\ n \in Nat /\ M \in Nat /\ G \in Seq(Seq(Rounds(s)))
      /\ \A k \in 1 .. n : own[k] \in 1 .. M /\ own[k] \in 1 .. M + 1
      /\ own \in Seq(OwnGroups(G, me)) /\ M + 1 \in 1 .. M + 1
    <2>1. M \in Nat /\ G \in Seq(Seq(Rounds(s)))
        BY <1>1, LenProperties DEF Grouped
    <2>2. n \in Nat /\ \A k \in 1 .. n : own[k] \in 1 .. M
        BY <1>1 DEF OwnList
    <2>3. own \in Seq(OwnGroups(G, me))
        BY DEF OwnList, Lists
    <2> QED BY <2>1, <2>2, <2>3
<1>3. DOMAIN own = 1 .. n
    BY <1>1, <1>2, LenProperties
<1>4. PICK ls : ls = [k \in 1 .. n |-> IF \E j \in DOMAIN G[own[k]] : Told(G[own[k]][j], tools)
                                       THEN <<>> ELSE MergedGroupInput(G, me, own[k])]
    OBVIOUS
<1>5. ASSUME NEW k \in 1 .. n
      PROVE  /\ ls[k] = IF HasTold(G[own[k]], tools) = FALSE
                        THEN MergedGroupInput(G, me, own[k]) ELSE <<>>
             /\ ls[k] \in Seq(Notes) /\ Aware(ls[k], s)
    <2>1. PICK g : g = own[k]
        OBVIOUS
    <2>2. g \in 1 .. M /\ g \in 1 .. M + 1
        BY <1>2, <2>1
    <2>3. DOMAIN G[g] = 1 .. Len(G[g])
        <3>1. G[g] \in Seq(Rounds(s))
            BY <1>1, <1>2, <2>2, ElementOfSeq
        <3> QED BY <3>1, LenProperties
    <2>4. HasTold(G[g], tools) <=> \E j \in DOMAIN G[g] : Told(G[g][j], tools)
        BY <2>3 DEF HasTold
    <2>5. Collects(MergedGroupInput(G, me, g), s, Gap(G, me, g))
        BY <1>1, <2>2, MergedCollects
    <2>6. MergedGroupInput(G, me, g) \in Seq(Notes) /\ Aware(MergedGroupInput(G, me, g), s)
        BY <2>5 DEF Collects
    <2>7. <<>> \in Seq(Notes) /\ Aware(<<>>, s)
        BY EmptySeq DEF Aware
    <2>8. CASE HasTold(G[g], tools)
        BY <1>4, <2>1, <2>4, <2>7, <2>8
    <2>9. CASE ~HasTold(G[g], tools)
        BY <1>4, <2>1, <2>4, <2>6, <2>9
    <2> QED BY <2>8, <2>9
<1>6. ls \in Seq(Seq(Notes)) /\ Len(ls) = n
    <2>1. ls \in [1 .. n -> Seq(Notes)]
        BY <1>4, <1>5
    <2> QED BY <1>2, <2>1, ListOfLength
<1>7. InputIf(ls, G, me, own, tools, FALSE)
    BY <1>1, <1>5, <1>6 DEF InputIf
<1>8. CurrentGroupInput(G, me, tools) = e \o FlattenSeq(ls)
    BY <1>3, <1>4 DEF CurrentGroupInput
<1>9. e \in Seq(Notes) /\ Aware(e, s)
    <2>1. Collects(e, s, Gap(G, me, M + 1))
        BY <1>1, <1>2, MergedCollects
    <2> QED BY <2>1 DEF Collects
<1>10. FlattenSeq(ls) \in Seq(Notes) /\ Aware(FlattenSeq(ls), s)
    BY <1>5, <1>6, AwareFlatten
<1>11. e \o FlattenSeq(ls) \in Seq(Notes) /\ Aware(e \o FlattenSeq(ls), s)
    BY <1>9, <1>10, AwareConcat
<1> QED BY <1>7, <1>8, <1>11

\* The context of the task t: the messages H of the history and T of the task.
Scene(t, s, G, H, T, w) ==
    /\ Sound(s) /\ StampOf(s, history) /\ Grouped(G, s, t.input)
    /\ H = HistoryMessages(t) /\ HistoryTold(H, s, G, t.owner, AvailableTools(t))
    /\ T = TaskMessages(t) /\ TaskIs(T, w) /\ w \in Seq(Notes) /\ Aware(w, s)
    /\ TellsOnce(Spread(Carried, H) \o w, s, Others(G, t.owner))

LEMMA SceneIs ==
    ASSUME Lawful(history), expired \subseteq Nat \ {0}, NEW top \in Nat, NEW t, Busy(t, top),
           Waiting(t) = {}
    PROVE  \E s, G, H, T, w : Scene(t, s, G, H, T, w)
<1>1. PICK s, G, me, tools : /\ s = Stamped(history) /\ G = GroupsFor(t) /\ me = t.owner
                             /\ tools = AvailableTools(t)
    OBVIOUS
<1>2. PICK c : c = t.input
    OBVIOUS
<1>3. Sound(s) /\ StampOf(s, history) /\ Grouped(G, s, c) /\ Stamp(s)
    BY <1>1, <1>2, GroupsForIs DEF Sound
<1>4. PICK own, ss, H : /\ own = PlacesIn(G, OwnGroups(G, me))
                        /\ ss = [k \in DOMAIN own |-> GroupToMessages(G[own[k]], tools,
                                                        MergedGroupInput(G, me, own[k]))]
                        /\ H = FlattenSeq(ss)
    OBVIOUS
<1>5. Groupwise(ss, own, s, G, me, tools)
    BY <1>3, <1>4, OwnTold
<1>6. HistoryTold(H, s, G, me, tools)
    BY <1>3, <1>4, <1>5, AllOwnTold
<1>7. H = HistoryMessages(t)
    BY <1>1, <1>4 DEF HistoryMessages
<1>8. OwnList(own, G, me)
    BY <1>5 DEF Groupwise, OwnList
<1>9. PICK cs \in Seq(Seq(Notes)) :
          /\ Spread(Carried, H) = FlattenSeq(cs) /\ Len(cs) = Len(own)
          /\ \A k \in 1 .. Len(own) :
                cs[k] = IF HasTold(G[own[k]], tools) THEN MergedGroupInput(G, me, own[k])
                        ELSE <<>>
    BY <1>4, <1>5, OwnCarry
<1>10. InputIf(cs, G, me, own, tools, TRUE)
    <2>1. \A gr : HasTold(gr, tools) \in BOOLEAN
        BY DEF HasTold
    <2>2. \A k \in 1 .. Len(own) :
             cs[k] = IF HasTold(G[own[k]], tools) = TRUE THEN MergedGroupInput(G, me, own[k])
                     ELSE <<>>
        BY <1>9, <2>1
    <2> QED BY <1>9, <2>2 DEF InputIf
<1>11. PICK e : e = MergedGroupInput(G, me, Len(G) + 1)
    OBVIOUS
<1>12. PICK ls : /\ InputIf(ls, G, me, own, tools, FALSE)
                 /\ CurrentGroupInput(G, me, tools) = e \o FlattenSeq(ls)
                 /\ e \o FlattenSeq(ls) \in Seq(Notes) /\ Aware(e \o FlattenSeq(ls), s)
    BY <1>3, <1>4, <1>8, <1>11, LeftOver
<1>13. PICK w, T : w = e \o FlattenSeq(ls) /\ T = TaskMessages(t)
    OBVIOUS
<1>14. TellsOnce(FlattenSeq(cs) \o w, s, Others(G, me))
    BY <1>3, <1>8, <1>10, <1>11, <1>12, <1>13, AllOnce
<1>15. TaskIs(T, w)
    <2>1. w \in Seq(Notes) /\ w = CurrentGroupInput(GroupsFor(t), t.owner, AvailableTools(t))
        BY <1>1, <1>12, <1>13
    <2>2. history \in Seq(Artifacts)
        BY DEF Lawful
    <2> QED BY <1>13, <2>1, <2>2, TaskTold
<1>16. Scene(t, s, G, H, T, w)
    BY <1>1, <1>2, <1>3, <1>6, <1>7, <1>9, <1>12, <1>13, <1>14, <1>15 DEF Scene
<1> QED BY <1>16

LEMMA ReadingIs ==
    ASSUME NEW ms \in Seq(Msgs)
    PROVE  /\ Reading(ms) = Spread(Read, ms)
           /\ FlattenSeq([i \in DOMAIN ms |-> ms[i].group]) = Spread(Carried, ms)
<1>1. \A i \in DOMAIN ms : ms[i] \in Msgs
    BY ElementOfSeq, LenProperties
<1>2. \A i \in DOMAIN ms : /\ Read[ms[i]] = Append(ms[i].group, [src |-> ms[i].src,
                                              call |-> ms[i].call, stale |-> ms[i].stale])
                           /\ Carried[ms[i]] = ms[i].group
    BY <1>1, ReadTells DEF Noted
<1>3. Each(Read, ms) = [i \in DOMAIN ms |-> Append(ms[i].group, [src |-> ms[i].src,
                                              call |-> ms[i].call, stale |-> ms[i].stale])]
    BY <1>2 DEF Each
<1>4. Each(Carried, ms) = [i \in DOMAIN ms |-> ms[i].group]
    BY <1>2 DEF Each
<1> QED BY <1>3, <1>4 DEF Spread, Reading

LEMMA MessagesAre ==
    ASSUME NEW t, NEW s, NEW G, NEW H, NEW T, NEW w, Scene(t, s, G, H, T, w)
    PROVE  /\ Messages(t) = H \o T /\ H \o T \in Seq(Msgs) /\ Answers(H \o T)
           /\ Spread(Carried, H \o T) = Spread(Carried, H) \o w
           /\ Spread(Read, H \o T) = Spread(Read, H) \o Spread(Read, T)
           /\ Spread(Read, H) \in Seq(Notes) /\ Spread(Read, T) \in Seq(Notes)
           /\ H \in Seq(Msgs) /\ T \in Seq(Msgs)
<1>1. /\ H \in Seq(Msgs) /\ Answers(H) /\ T \in Seq(Msgs) /\ Answers(T)
      /\ H = HistoryMessages(t) /\ T = TaskMessages(t) /\ Spread(Carried, T) = w
    BY DEF Scene, HistoryTold, TaskIs
<1>2. Messages(t) = H \o T
    BY <1>1 DEF Messages
<1>3. H \o T \in Seq(Msgs) /\ Answers(H \o T)
    BY <1>1, AnswersConcat, ConcatProperties
<1>4. Spread(Carried, H \o T) = Spread(Carried, H) \o Spread(Carried, T)
    <2>1. PICK L : L = Carried
        OBVIOUS
    <2>2. Tells(L, Msgs, Notes) /\ H \in Seq(Msgs) /\ T \in Seq(Msgs)
        BY <1>1, <2>1, ReadTells
    <2>3. Spread(L, H \o T) = Spread(L, H) \o Spread(L, T)
        BY <2>2, SpreadConcat
    <2> QED BY <2>1, <2>3
<1>5. /\ Spread(Read, H \o T) = Spread(Read, H) \o Spread(Read, T)
      /\ Spread(Read, H) \in Seq(Notes) /\ Spread(Read, T) \in Seq(Notes)
    <2>1. PICK L : L = Read
        OBVIOUS
    <2>2. Tells(L, Msgs, Notes) /\ H \in Seq(Msgs) /\ T \in Seq(Msgs)
        BY <1>1, <2>1, ReadTells
    <2>3. Spread(L, H \o T) = Spread(L, H) \o Spread(L, T)
        BY <2>2, SpreadConcat
    <2>4. Spread(L, H) \in Seq(Notes) /\ Spread(L, T) \in Seq(Notes)
        BY <1>1, <2>2, SpreadTyped
    <2> QED BY <2>1, <2>3, <2>4
<1> QED BY <1>1, <1>2, <1>3, <1>4, <1>5

\* What every state of the session satisfies, as far as the contexts depend on it.
Recorded ==
    /\ Lawful(history) /\ expired \subseteq Nat \ {0}
    /\ \E top \in Nat : \A t \in task : Busy(t, top)

LEMMA BuiltScene ==
    ASSUME Recorded, NEW t \in Built
    PROVE  \E s, G, H, T, w : Scene(t, s, G, H, T, w)
<1>1. t \in task /\ Waiting(t) = {}
    BY DEF Built, AsksModel
<1>2. PICK top \in Nat : Busy(t, top)
    BY <1>1 DEF Recorded
<1>3. Lawful(history) /\ expired \subseteq Nat \ {0}
    BY DEF Recorded
<1> QED BY <1>1, <1>2, <1>3, SceneIs

LEMMA CallsAnswered ==
    ASSUME Recorded PROVE CallsAnsweredToSwitch
<1> SUFFICES ASSUME NEW t \in Built
             PROVE  LET ms == Messages(t)
                        answers(i) == Executed(ms[i].calls)
                    IN /\ \A i \in DOMAIN ms : \A k \in answers(i) :
                            /\ i + k <= Len(ms)
                            /\ ms[i + k].role = "tool" /\ ms[i + k].call = ms[i].calls[k].id
                       /\ \A j \in DOMAIN ms : ms[j].role = "tool" =>
                            \E i \in 1..(j - 1) : j - i \in answers(i)
    BY DEF CallsAnsweredToSwitch
<1>1. PICK s, G, H, T, w : Scene(t, s, G, H, T, w)
    BY BuiltScene
<1>2. PICK ms : ms = Messages(t)
    OBVIOUS
<1>3. ms \in Seq(Msgs) /\ Answers(ms)
    <2>1. Messages(t) = H \o T /\ H \o T \in Seq(Msgs) /\ Answers(H \o T)
        BY <1>1, MessagesAre
    <2> QED BY <1>2, <2>1
<1>4. DOMAIN ms = 1 .. Len(ms)
    BY <1>3, LenProperties
<1> QED BY <1>2, <1>3, <1>4 DEF Answers

LEMMA SameRoundIs ==
    ASSUME Lawful(history), NEW x \in 1 .. Len(history), NEW r \in 1 .. x - 1, SameRound(r, x)
    PROVE  r \in 1 .. Len(history) /\ \A j \in r + 1 .. x : history[j].kind # "input"
<1>1. Len(history) \in Nat
    BY LenProperties DEF Lawful
<1>2. r \in 1 .. Len(history) /\ r \in Nat /\ x \in Nat
    BY <1>1
<1>3. PICK j : j = RoundStart(x) /\ j = RoundStart(r)
    BY DEF SameRound
<1>4. j \in 1 .. r /\ \A k \in (j + 1) .. x : history[k].kind # "input"
    BY <1>2, <1>3, RoundStartIs DEF StartsAt
<1>5. \A k \in r + 1 .. x : k \in j + 1 .. x
    BY <1>2, <1>4
<1> QED BY <1>2, <1>4, <1>5

LEMMA NoneStale ==
    ASSUME Recorded PROVE NoStaleConclusion
<1> SUFFICES ASSUME NEW t \in Built
             PROVE  LET told == Reading(Messages(t))
                    IN  \A i \in DOMAIN told : \A r \in 1..(told[i].src - 1) :
                          /\ told[i].src <= Len(history)
                          /\ SameRound(r, told[i].src) /\ history[r].call \in expired
                          => \E j \in 1..(i - 1) : told[j].src = r /\ told[j].stale
    BY DEF NoStaleConclusion
<1>1. PICK s, G, H, T, w : Scene(t, s, G, H, T, w)
    BY BuiltScene
<1>2. PICK told, u, v : /\ told = Reading(Messages(t)) /\ u = Spread(Read, H)
                        /\ v = Spread(Read, T)
    OBVIOUS
<1>3. told = u \o v /\ u \in Seq(Notes) /\ v \in Seq(Notes)
    <2>1. PICK ms : ms = H \o T
        OBVIOUS
    <2>2. /\ Messages(t) = ms /\ ms \in Seq(Msgs) /\ Spread(Read, ms) = u \o v
          /\ u \in Seq(Notes) /\ v \in Seq(Notes)
        <3>1. /\ Messages(t) = H \o T /\ H \o T \in Seq(Msgs)
              /\ Spread(Read, H \o T) = Spread(Read, H) \o Spread(Read, T)
              /\ Spread(Read, H) \in Seq(Notes) /\ Spread(Read, T) \in Seq(Notes)
            BY <1>1, MessagesAre
        <3> QED BY <1>2, <2>1, <3>1
    <2>3. Reading(ms) = Spread(Read, ms)
        BY <2>2, ReadingIs
    <2> QED BY <1>2, <2>2, <2>3
<1>4. PICK n : n = Len(history)
    OBVIOUS
<1>5. /\ Len(s) = n /\ n \in Nat /\ \A j \in 1 .. n : Same(s[j], history[j])
      /\ Lawful(history)
    BY <1>1, <1>4 DEF Scene, StampOf, Recorded
<1>6. Aware(v, s)
    <2>1. PICK own \in Seq(Notes) : v = w \o own /\ \A i \in 1 .. Len(own) : own[i].src > n
        BY <1>1, <1>2, <1>4 DEF Scene, TaskIs
    <2>2. w \in Seq(Notes) /\ Aware(w, s)
        BY <1>1 DEF Scene
    <2>3. Aware(own, s)
        <3>1. \A i \in 1 .. Len(own) : own[i].src \notin 1 .. Len(s)
            BY <1>5, <2>1
        <3> QED BY <3>1 DEF Aware
    <2> QED BY <2>1, <2>2, <2>3, AwareConcat
<1>7. Aware(u, s)
    BY <1>1, <1>2 DEF Scene, HistoryTold
<1>8. told \in Seq(Notes) /\ Aware(told, s)
    BY <1>3, <1>6, <1>7, AwareConcat
<1>9. DOMAIN told = 1 .. Len(told) /\ \A i \in 1 .. Len(told) : told[i].src \in Nat
    <2>1. \A i \in 1 .. Len(told) : told[i] \in Notes
        BY <1>8, ElementOfSeq
    <2> QED BY <1>8, <2>1, LenProperties DEF Notes
<1>10. ASSUME NEW i \in 1 .. Len(told), NEW r \in 1 .. told[i].src - 1, told[i].src <= n,
              SameRound(r, told[i].src), history[r].call \in expired
       PROVE  \E j \in 1 .. i - 1 : told[j].src = r /\ told[j].stale
    <2>1. PICK x : x = told[i].src
        OBVIOUS
    <2>2. x \in 1 .. n /\ r \in 1 .. x - 1 /\ SameRound(r, x) /\ x \in Nat /\ r \in Nat
        BY <1>5, <1>9, <1>10, <2>1
    <2>3. r \in 1 .. n /\ \A j \in r + 1 .. x : history[j].kind # "input"
        BY <1>4, <1>5, <2>2, SameRoundIs
    <2>4. Rests(s, r, x)
        <3>1. \A j \in r + 1 .. x : j \in 1 .. n
            BY <1>5, <2>2, <2>3
        <3>2. \A j \in r + 1 .. x : s[j].kind # "input"
            BY <1>5, <2>3, <3>1 DEF Same
        <3>3. s[r].call \in expired
            BY <1>5, <1>10, <2>3 DEF Same
        <3> QED BY <2>2, <3>2, <3>3 DEF Rests
    <2> QED BY <1>5, <1>8, <2>1, <2>2, <2>4 DEF Aware
<1> QED BY <1>2, <1>4, <1>9, <1>10

\* A place is the agent's own if its round is.
Mine(i, me) == history[RoundStart(i)].owner = me

LEMMA OwnerIs ==
    ASSUME Lawful(history), NEW s, StampOf(s, history), NEW t, NEW G, Grouped(G, s, t.input),
           NEW me, NEW h \in 1 .. Len(G), NEW i \in PlacesOf(G[h])
    PROVE  /\ i \in 1 .. Len(history) /\ i \in Current(t)
           /\ Mine(i, me) <=> h \in OwnGroups(G, me)
<1>1. PICK k \in 1 .. Len(G[h]) : i \in From(G[h][k]) .. To(G[h][k])
    BY DEF PlacesOf
<1>2. i \in 1 .. Len(history) /\ history[RoundStart(i)].owner = G[h][1][1].owner
    BY <1>1, PlaceOwner
<1>3. i \in Current(t)
    BY CurrentPlaces
<1>4. h \in OwnGroups(G, me) <=> G[h][1][1].owner = me
    <2>1. DOMAIN G = 1 .. Len(G)
        BY LenProperties DEF Grouped
    <2> QED BY <2>1 DEF OwnGroups
<1> QED BY <1>2, <1>3, <1>4 DEF Mine

LEMMA OthersAre ==
    ASSUME Lawful(history), NEW s, StampOf(s, history), NEW t, NEW G, Grouped(G, s, t.input),
           NEW me
    PROVE  Others(G, me) = {i \in Current(t) : ~Mine(i, me)}
<1>1. ASSUME NEW i \in Others(G, me) PROVE i \in Current(t) /\ ~Mine(i, me)
    <2>1. PICK h \in 1 .. Len(G) : h \notin OwnGroups(G, me) /\ i \in PlacesOf(G[h])
        BY DEF Others
    <2> QED BY <2>1, OwnerIs
<1>2. ASSUME NEW i \in Current(t), ~Mine(i, me) PROVE i \in Others(G, me)
    <2>1. PICK h \in 1 .. Len(G) : i \in PlacesOf(G[h])
        BY CurrentPlaces
    <2>2. h \notin OwnGroups(G, me)
        BY <1>2, <2>1, OwnerIs
    <2> QED BY <2>1, <2>2 DEF Others
<1> QED BY <1>1, <1>2

LEMMA Counted ==
    ASSUME NEW n \in Nat, NEW f, \A i, j \in 1 .. n : i # j => f[i] # f[j]
    PROVE  Cardinality({f[i] : i \in 1 .. n}) = n
<1>1. PICK g, T : g = [i \in 1 .. n |-> f[i]] /\ T = {f[i] : i \in 1 .. n}
    OBVIOUS
<1>2. g \in [1 .. n -> T]
    BY <1>1
<1>3. IsInjective(g)
    BY <1>1 DEF IsInjective
<1>4. \A y \in T : \E i \in 1 .. n : g[i] = y
    BY <1>1
<1>5. g \in Bijection(1 .. n, T)
    BY <1>2, <1>3, <1>4 DEF Bijection, Injection, Surjection
<1>6. ExistsBijection(1 .. n, T)
    BY <1>5 DEF ExistsBijection
<1> QED BY <1>1, <1>6, FS_CountingElements

\* The messages that are built tell ever later artifacts, first those of the history.
Rises(ms, m, N) ==
    /\ m \in Nat /\ N \in Nat /\ Len(ms) \in Nat /\ m <= Len(ms)
    /\ \A i \in 1 .. m : ms[i].src \in 1 .. N
    /\ \A i \in 1 .. Len(ms) : i > m => ms[i].src > N
    /\ \A i, j \in 1 .. Len(ms) : i < j => ms[i].src < ms[j].src

\* The messages H of the history begin the messages ms.
RisesAfter(ms, H) ==
    Rises(ms, Len(H), Len(history)) /\ \A i \in 1 .. Len(H) : ms[i] = H[i]

LEMMA MessagesRise ==
    ASSUME NEW s, NEW t, NEW G, Grouped(G, s, t.input), Lawful(history), StampOf(s, history),
           NEW me, NEW tools, NEW H, HistoryTold(H, s, G, me, tools),
           NEW w, NEW T, TaskIs(T, w), NEW ms, ms = H \o T
    PROVE  RisesAfter(ms, H)
<1>1. PICK m, k, N : m = Len(H) /\ k = Len(T) /\ N = Len(history)
    OBVIOUS
<1>2. /\ H \in Seq(Msgs) /\ T \in Seq(Msgs) /\ m \in Nat /\ k \in Nat /\ N \in Nat
    BY <1>1, LenProperties DEF HistoryTold, TaskIs, Lawful
<1>3. /\ ms \in Seq(Msgs) /\ Len(ms) = m + k
      /\ \A i \in 1 .. m : ms[i] = H[i]
      /\ \A i \in 1 .. m + k : i > m => ms[i] = T[i - m]
    BY <1>1, <1>2
<1>4. ASSUME NEW i \in 1 .. m PROVE H[i].src \in 1 .. N
    <2>1. PICK g \in OwnGroups(G, me) : H[i].src \in PlacesOf(G[g])
        BY <1>1 DEF HistoryTold
    <2>2. g \in 1 .. Len(G)
        BY LenProperties DEF OwnGroups, Grouped
    <2>3. PICK x : x = H[i].src
        OBVIOUS
    <2>4. x \in 1 .. N
        BY <1>1, <2>1, <2>2, <2>3, OwnerIs
    <2> QED BY <2>3, <2>4
<1>5. ASSUME NEW i \in 1 .. m + k, i > m PROVE ms[i].src = N + (i - m) /\ ms[i].src > N
    <2>1. PICK j : j = i - m
        OBVIOUS
    <2>2. j \in 1 .. k /\ j \in Nat /\ j >= 1
        BY <1>2, <1>5, <2>1
    <2>3. T[j].src = N + j
        BY <1>1, <2>2 DEF TaskIs
    <2>4. ms[i] = T[j]
        BY <1>3, <1>5, <2>1
    <2> QED BY <1>2, <2>1, <2>2, <2>3, <2>4
<1>6. ASSUME NEW i \in 1 .. m + k, NEW j \in 1 .. m + k, i < j PROVE ms[i].src < ms[j].src
    <2>1. CASE j <= m
        <3>1. i \in 1 .. m /\ j \in 1 .. m
            BY <1>2, <1>6, <2>1
        <3>2. <<H[i], H[j]>> \in SrcOrder
            BY <1>1, <1>6, <3>1 DEF HistoryTold, Ordered
        <3>3. H[i].src < H[j].src
            BY <3>2 DEF SrcOrder
        <3> QED BY <1>3, <3>1, <3>3
    <2>2. CASE i <= m /\ j > m
        <3>1. i \in 1 .. m
            BY <1>2, <2>2
        <3>2. ms[i].src \in 1 .. N
            BY <1>3, <1>4, <3>1
        <3>3. ms[j].src > N /\ ms[j].src = N + (j - m)
            BY <1>5, <2>2
        <3>4. N + (j - m) \in Nat
            BY <1>2, <2>2
        <3>5. PICK x, y : x = ms[i].src /\ y = ms[j].src
            OBVIOUS
        <3>6. x \in 1 .. N /\ y > N /\ y \in Nat
            BY <3>2, <3>3, <3>4, <3>5
        <3>7. x < y
            BY <1>2, <3>6
        <3> QED BY <3>5, <3>7
    <2>3. CASE i > m
        <3>1. j > m
            BY <1>2, <1>6, <2>3
        <3>2. ms[i].src = N + (i - m) /\ ms[j].src = N + (j - m)
            BY <1>5, <2>3, <3>1
        <3>3. i \in Nat /\ j \in Nat /\ N + (i - m) < N + (j - m)
            BY <1>2, <1>6
        <3>4. PICK x, y : x = ms[i].src /\ y = ms[j].src
            OBVIOUS
        <3>5. x < y
            BY <3>2, <3>3, <3>4
        <3> QED BY <3>4, <3>5
    <2>4. i \in Nat /\ j \in Nat
        BY <1>2
    <2>5. j <= m \/ (i <= m /\ j > m) \/ i > m
        BY <1>2, <2>4
    <2> QED BY <2>1, <2>2, <2>3, <2>5
<1>7. m + k \in Nat /\ m <= m + k
    BY <1>2
<1>8. \A i \in 1 .. m : ms[i].src \in 1 .. N
    BY <1>3, <1>4
<1>9. Rises(ms, m, N)
    BY <1>2, <1>3, <1>5, <1>6, <1>7, <1>8 DEF Rises
<1> QED BY <1>1, <1>3, <1>9 DEF RisesAfter

\* The agent's rounds that no message tells were given up.
LEMMA UntoldExpired ==
    ASSUME Lawful(history), expired \subseteq Nat \ {0}, NEW s, StampOf(s, history), Sound(s),
           NEW t, NEW G, Grouped(G, s, t.input), NEW me, NEW tools,
           NEW H, HistoryTold(H, s, G, me, tools),
           NEW i \in Current(t), Mine(i, me), history[i].kind = "input",
           \A j \in 1 .. Len(H) : H[j].src # i
    PROVE  \E j \in Current(t) : SameRound(i, j) /\ history[j].call \in expired
<1>1. PICK g \in 1 .. Len(G) : i \in PlacesOf(G[g])
    BY CurrentPlaces
<1>2. g \in OwnGroups(G, me) /\ i \in 1 .. Len(history)
    BY <1>1, OwnerIs
<1>3. PICK k \in 1 .. Len(G[g]) : i \in From(G[g][k]) .. To(G[g][k])
    BY <1>1 DEF PlacesOf
<1>4. PICK r, f, e, n : r = G[g][k] /\ f = From(r) /\ e = To(r) /\ n = Len(history)
    OBVIOUS
<1>5. r \in Rounds(s) /\ Stamp(s)
    <2>1. G \in Seq(Seq(Rounds(s)))
        BY DEF Grouped
    <2>2. G[g] \in Seq(Rounds(s))
        BY <2>1, ElementOfSeq
    <2> QED BY <1>4, <2>2, ElementOfSeq DEF Sound
<1>6. RoundStart(i) = f
    BY <1>3, <1>4, PlaceOwner
<1>7. RoundStart(i) = i
    <2>1. Len(history) \in Nat
        BY LenProperties DEF Lawful
    <2>2. i \in 1 .. i /\ \A l \in i + 1 .. i : history[l].kind # "input"
        BY <1>2, <2>1
    <2>3. StartsAt(i, i)
        BY <2>2 DEF StartsAt
    <2> QED BY <1>2, <2>3, RoundStartIs
<1>8. GivenUp(r, tools)
    <2>1. ~Told(r, tools)
        <3>1. SUFFICES ASSUME Told(r, tools) PROVE FALSE
            OBVIOUS
        <3>2. PICK j \in 1 .. Len(H) : H[j].src = From(r)
            BY <1>2, <1>4, <3>1 DEF HistoryTold
        <3> QED BY <1>4, <1>6, <1>7, <3>2
    <2> QED BY <1>5, <2>1, ToldIs
<1>9. PICK l \in DOMAIN r : r[l].kind = "result" /\ r[l].call \in expired
    BY <1>8 DEF GivenUp, HasExpiredResult
<1>10. PICK j : j = f + l - 1
    OBVIOUS
<1>11. r[l] = s[j] /\ j \in f .. e
    <2>1. r \in Seq(Artifacts) /\ \A m \in 1 .. Len(r) : r[m] = s[f + m - 1] /\ f + m - 1 \in f .. e
        BY <1>4, <1>5, RoundIs
    <2>2. l \in 1 .. Len(r)
        BY <2>1, LenProperties
    <2> QED BY <1>10, <2>1, <2>2
<1>12. RoundStart(j) = f /\ j \in 1 .. n
    BY <1>4, <1>11, PlaceOwner
<1>13. j \in Current(t)
    <2>1. j \in PlacesOf(G[g])
        BY <1>4, <1>11 DEF PlacesOf
    <2> QED BY <2>1, CurrentPlaces
<1>14. history[j].call \in expired
    <2>1. Same(s[j], history[j])
        BY <1>4, <1>12 DEF StampOf
    <2> QED BY <1>9, <1>11, <2>1 DEF Same
<1>15. SameRound(i, j)
    BY <1>6, <1>12 DEF SameRound
<1> QED BY <1>13, <1>14, <1>15

\* What the messages carry, in terms of the history.
CarriedOnce(E, t, me) ==
    /\ IsInjective(E)
    /\ {E[k].src : k \in DOMAIN E}
         = {i \in {i \in Current(t) : ~Mine(i, me)} :
               ~(history[i].kind = "input" /\ history[i].wake)}

LEMMA CarriedAre ==
    ASSUME Lawful(history), NEW s, StampOf(s, history), NEW t, NEW G, Grouped(G, s, t.input),
           NEW me, NEW E, TellsOnce(E, s, Others(G, me))
    PROVE  CarriedOnce(E, t, me)
<1>1. PICK O : O = {i \in Current(t) : ~Mine(i, me)}
    OBVIOUS
<1>2. O = Others(G, me)
    BY <1>1, OthersAre
<1>3. DOMAIN E = 1 .. Len(E)
    BY LenProperties DEF TellsOnce
<1>4. IsInjective(E)
    BY <1>3 DEF TellsOnce, IsInjective
<1>5. \A i \in O : Wakes(s[i]) <=> history[i].kind = "input" /\ history[i].wake
    <2> SUFFICES ASSUME NEW i \in O
                 PROVE  Wakes(s[i]) <=> history[i].kind = "input" /\ history[i].wake
        OBVIOUS
    <2>1. i \in 1 .. Len(history)
        <3>1. i \in DOMAIN history
            BY <1>1 DEF Current
        <3> QED BY <3>1, LenProperties DEF Lawful
    <2>2. Same(s[i], history[i])
        BY <2>1 DEF StampOf
    <2> QED BY <2>2 DEF Same, Wakes
<1>6. ASSUME NEW k \in 1 .. Len(E)
      PROVE  E[k].src \in O /\ ~(history[E[k].src].kind = "input" /\ history[E[k].src].wake)
    <2>1. PICK x : x = E[k].src
        OBVIOUS
    <2>2. x \in O /\ ~Wakes(s[x])
        BY <1>2, <2>1 DEF TellsOnce
    <2> QED BY <1>5, <2>1, <2>2
<1>7. ASSUME NEW x \in O, ~(history[x].kind = "input" /\ history[x].wake)
      PROVE  \E k \in 1 .. Len(E) : E[k].src = x
    <2>1. ~Wakes(s[x])
        BY <1>5, <1>7
    <2> QED BY <1>2, <2>1 DEF TellsOnce
<1>8. {E[k].src : k \in DOMAIN E}
        = {i \in O : ~(history[i].kind = "input" /\ history[i].wake)}
    BY <1>3, <1>6, <1>7
<1> QED BY <1>1, <1>4, <1>8 DEF CarriedOnce

LEMMA NativeMine ==
    ASSUME Lawful(history), NEW s, StampOf(s, history), NEW t, NEW G, Grouped(G, s, t.input),
           NEW me, NEW tools, NEW H, HistoryTold(H, s, G, me, tools),
           NEW ms, Rises(ms, Len(H), Len(history)), \A i \in 1 .. Len(H) : ms[i] = H[i],
           NEW i \in 1 .. Len(ms), ms[i].src \in 1 .. Len(history)
    PROVE  ms[i].src \in Current(t) /\ Mine(ms[i].src, me)
<1>1. PICK x : x = ms[i].src
    OBVIOUS
<1>2. i \in 1 .. Len(H)
    <2>1. /\ Len(H) \in Nat /\ Len(history) \in Nat /\ Len(ms) \in Nat
          /\ i > Len(H) => x > Len(history)
        BY <1>1 DEF Rises
    <2>2. x \in 1 .. Len(history)
        BY <1>1
    <2> QED BY <2>1, <2>2
<1>3. PICK g \in OwnGroups(G, me) : x \in PlacesOf(G[g])
    BY <1>1, <1>2 DEF HistoryTold
<1>4. g \in 1 .. Len(G)
    BY LenProperties DEF OwnGroups, Grouped
<1> QED BY <1>1, <1>3, <1>4, OwnerIs

LEMMA AllToldOnce ==
    ASSUME Recorded PROVE ToldOnce
<1> SUFFICES ASSUME NEW t \in Built
             PROVE  LET ms       == Messages(t)
                        elements == FlattenSeq([i \in DOMAIN ms |-> ms[i].group])
                        own(i)   == history[RoundStart(i)].owner = t.owner
                        others   == {i \in Current(t) : ~own(i)}
                        native   == {ms[i].src : i \in DOMAIN ms} \cap DOMAIN history
                    IN /\ IsInjective(elements)
                       /\ {elements[k].src : k \in DOMAIN elements}
                            = {i \in others : ~(history[i].kind = "input" /\ history[i].wake)}
                       /\ Cardinality({ms[i].src : i \in DOMAIN ms}) = Len(ms)
                       /\ native \subseteq {i \in Current(t) : own(i)}
                       /\ \A i \in Current(t) :
                            own(i) /\ history[i].kind = "input" /\ i \notin native =>
                              \E j \in Current(t) : SameRound(i, j) /\ history[j].call \in expired
                       /\ InOrder(Reading(HistoryMessages(t)))
    BY DEF ToldOnce
<1>1. PICK s, G, H, T, w : Scene(t, s, G, H, T, w)
    BY BuiltScene
<1>2. PICK me, tools, ms, c : /\ me = t.owner /\ tools = AvailableTools(t) /\ ms = H \o T
                              /\ c = t.input
    OBVIOUS
<1>3. /\ Lawful(history) /\ expired \subseteq Nat \ {0} /\ Sound(s) /\ StampOf(s, history)
      /\ Grouped(G, s, t.input) /\ H = HistoryMessages(t) /\ HistoryTold(H, s, G, me, tools)
      /\ TaskIs(T, w) /\ TellsOnce(Spread(Carried, H) \o w, s, Others(G, me))
    BY <1>1, <1>2 DEF Scene, Recorded
<1>4. /\ Messages(t) = ms /\ ms \in Seq(Msgs)
      /\ Spread(Carried, ms) = Spread(Carried, H) \o w
    <2>1. /\ Messages(t) = H \o T /\ H \o T \in Seq(Msgs)
          /\ Spread(Carried, H \o T) = Spread(Carried, H) \o w
        BY <1>1, MessagesAre
    <2> QED BY <1>2, <2>1
<1>5. PICK E : E = Spread(Carried, ms)
    OBVIOUS
<1>6. FlattenSeq([i \in DOMAIN ms |-> ms[i].group]) = E /\ DOMAIN ms = 1 .. Len(ms)
      /\ DOMAIN history = 1 .. Len(history)
    BY <1>3, <1>4, <1>5, ReadingIs, LenProperties DEF Lawful
<1>7. TellsOnce(E, s, Others(G, me))
    BY <1>3, <1>4, <1>5
<1>8. CarriedOnce(E, t, me)
    <2>1. Lawful(history) /\ StampOf(s, history) /\ Grouped(G, s, t.input)
        BY <1>3
    <2> QED BY <2>1, <1>7, CarriedAre
<1>9. Rises(ms, Len(H), Len(history)) /\ \A i \in 1 .. Len(H) : ms[i] = H[i]
    <2>1. /\ Lawful(history) /\ StampOf(s, history) /\ Grouped(G, s, t.input)
          /\ HistoryTold(H, s, G, me, tools) /\ TaskIs(T, w) /\ ms = H \o T
        BY <1>2, <1>3
    <2>2. RisesAfter(ms, H)
        BY <2>1, MessagesRise
    <2> QED BY <2>2 DEF RisesAfter
<1>10. Cardinality({ms[i].src : i \in 1 .. Len(ms)}) = Len(ms)
    <2>1. PICK f, n : n = Len(ms) /\ f = [i \in 1 .. n |-> ms[i].src]
        OBVIOUS
    <2>2. n \in Nat /\ \A i, j \in 1 .. n : i < j => ms[i].src < ms[j].src
        BY <1>9, <2>1 DEF Rises
    <2>3. \A i \in 1 .. n : ms[i].src \in Nat
        <3>1. \A i \in 1 .. n : ms[i] \in Msgs
            BY <1>4, <2>1, ElementOfSeq
        <3> QED BY <3>1 DEF Msgs
    <2>4. ASSUME NEW i \in 1 .. n, NEW j \in 1 .. n, i # j PROVE f[i] # f[j]
        <3>1. PICK x, y : x = f[i] /\ y = f[j]
            OBVIOUS
        <3>2. x \in Nat /\ y \in Nat /\ x = ms[i].src /\ y = ms[j].src
            BY <2>1, <2>3, <3>1
        <3>3. i < j \/ j < i
            BY <2>2, <2>4
        <3>4. x < y \/ y < x
            BY <2>2, <3>2, <3>3
        <3>5. x # y
            BY <3>2, <3>4
        <3> QED BY <3>1, <3>5
    <2>5. Cardinality({f[i] : i \in 1 .. n}) = n
        BY <2>2, <2>4, Counted
    <2>6. {f[i] : i \in 1 .. n} = {ms[i].src : i \in 1 .. Len(ms)}
        BY <2>1
    <2> QED BY <2>1, <2>5, <2>6
<1>11. \A i \in 1 .. Len(ms) : ms[i].src \in 1 .. Len(history) =>
          ms[i].src \in Current(t) /\ Mine(ms[i].src, me)
    BY <1>3, <1>9, NativeMine
<1>12. ASSUME NEW i \in Current(t), Mine(i, me), history[i].kind = "input",
              i \notin {ms[j].src : j \in DOMAIN ms} \cap DOMAIN history
       PROVE  \E j \in Current(t) : SameRound(i, j) /\ history[j].call \in expired
    <2>1. i \in DOMAIN history
        BY DEF Current
    <2>2. \A j \in 1 .. Len(H) : H[j].src # i
        <3> SUFFICES ASSUME NEW j \in 1 .. Len(H), H[j].src = i PROVE FALSE
            OBVIOUS
        <3>1. j \in 1 .. Len(ms)
            BY <1>9 DEF Rises
        <3>2. ms[j].src = i
            BY <1>9
        <3> QED BY <1>6, <1>12, <2>1, <3>1, <3>2
    <2> QED BY <1>3, <1>12, <2>2, UntoldExpired
<1>13. InOrder(Reading(HistoryMessages(t)))
    <2>1. PICK u : u = Spread(Read, H)
        OBVIOUS
    <2>2. H \in Seq(Msgs) /\ u \in Seq(Notes) /\ Ordered(u, NoteOrder)
        BY <1>3, <2>1 DEF HistoryTold
    <2>3. Reading(H) = u
        BY <2>1, <2>2, ReadingIs
    <2>4. DOMAIN u = 1 .. Len(u)
        BY <2>2, LenProperties
    <2>5. ASSUME NEW i \in 1 .. Len(u), NEW j \in 1 .. Len(u), i < j PROVE u[i].src <= u[j].src
        <3>1. <<u[i], u[j]>> \in NoteOrder
            BY <2>2, <2>5 DEF Ordered
        <3> QED BY <3>1 DEF NoteOrder
    <2>6. InOrder(u)
        BY <2>4, <2>5 DEF InOrder
    <2> QED BY <1>3, <2>3, <2>6
<1>14. \A i : Mine(i, me) <=> history[RoundStart(i)].owner = t.owner
    BY <1>2 DEF Mine
<1>15. PICK O, N : /\ O = {i \in Current(t) : ~Mine(i, me)}
                   /\ N = {ms[i].src : i \in DOMAIN ms} \cap DOMAIN history
    OBVIOUS
<1>16. /\ {E[k].src : k \in DOMAIN E}
            = {i \in O : ~(history[i].kind = "input" /\ history[i].wake)}
       /\ IsInjective(E)
    BY <1>8, <1>15 DEF CarriedOnce
<1>17. O = {i \in Current(t) : ~(history[RoundStart(i)].owner = t.owner)}
    BY <1>14, <1>15
<1>18. N \subseteq {i \in Current(t) : history[RoundStart(i)].owner = t.owner}
    BY <1>6, <1>11, <1>14, <1>15
<1>19. \A i \in Current(t) :
          (history[RoundStart(i)].owner = t.owner /\ history[i].kind = "input" /\ i \notin N) =>
             \E j \in Current(t) : SameRound(i, j) /\ history[j].call \in expired
    BY <1>12, <1>14, <1>15
<1>20. Cardinality({ms[i].src : i \in DOMAIN ms}) = Len(ms)
    BY <1>6, <1>10
<1>21. Messages(t) = ms
    BY <1>4
<1> DEFINE told     == Messages(t)
           elements == FlattenSeq([i \in DOMAIN told |-> told[i].group])
<1>22. told = ms
    BY <1>21
<1> HIDE DEF told
<1>23. elements = E
    BY <1>6, <1>22
<1> HIDE DEF elements
<1>24. /\ IsInjective(elements)
       /\ {elements[k].src : k \in DOMAIN elements}
            = {i \in {i \in Current(t) : ~(history[RoundStart(i)].owner = t.owner)} :
                  ~(history[i].kind = "input" /\ history[i].wake)}
    BY <1>16, <1>17, <1>23
<1>25. Cardinality({told[i].src : i \in DOMAIN told}) = Len(told)
    BY <1>20, <1>22
<1>26. N = {told[i].src : i \in DOMAIN told} \cap DOMAIN history
    BY <1>15, <1>22
<1>27. /\ {told[i].src : i \in DOMAIN told} \cap DOMAIN history
            \subseteq {i \in Current(t) : history[RoundStart(i)].owner = t.owner}
       /\ \A i \in Current(t) :
            /\ history[RoundStart(i)].owner = t.owner /\ history[i].kind = "input"
            /\ i \notin {told[j].src : j \in DOMAIN told} \cap DOMAIN history
            => \E j \in Current(t) : SameRound(i, j) /\ history[j].call \in expired
    BY <1>18, <1>19, <1>26
<1> QED BY <1>13, <1>24, <1>25, <1>27 DEF told, elements

-----------------------------------------------------------------------------
(* The steps of the session.                                                *)

\* What a task leaves in the history before a change of control.
Leaves(a) ==
    /\ a \in Seq(Artifacts) /\ Paired(a)
    /\ \A i \in 1 .. Len(a) : Shaped(a[i]) /\ Distinct(a[i].calls) /\ a[i].kind # "change"

\* An artifact of the owner that makes no call and answers none.
Plainly(x) ==
    /\ x \in Artifacts /\ Shaped(x) /\ x.calls = <<>> /\ x.kind \notin {"result", "change"}

LEMMA LeavesOne ==
    ASSUME NEW x, Plainly(x)
    PROVE  Leaves(<<x>>)
<1>1. PICK a : a = <<x>>
    OBVIOUS
<1>2. a \in Seq(Artifacts) /\ Len(a) = 1 /\ a[1] = x
    BY <1>1 DEF Plainly
<1>3. \A i \in 1 .. Len(a) : i = 1 /\ a[i] = x
    BY <1>2
<1>4. Executed(x.calls) = {}
    BY DEF Plainly, Executed
<1>5. Paired(a)
    BY <1>3, <1>4 DEF Paired, Plainly
<1>6. Distinct(x.calls)
    BY DEF Distinct, Plainly
<1> QED BY <1>1, <1>2, <1>3, <1>5, <1>6 DEF Leaves, Plainly

LEMMA LeavesBoth ==
    ASSUME NEW a, NEW b, Leaves(a), Leaves(b)
    PROVE  Leaves(a \o b)
<1>1. PICK m, n, s : m = Len(a) /\ n = Len(b) /\ s = a \o b
    OBVIOUS
<1>2. a \in Seq(Artifacts) /\ b \in Seq(Artifacts) /\ m \in Nat /\ n \in Nat
    BY <1>1, LenProperties DEF Leaves
<1>3. /\ s \in Seq(Artifacts) /\ Len(s) = m + n
      /\ \A i \in 1 .. m : s[i] = a[i]
      /\ \A i \in 1 .. m + n : i > m => s[i] = b[i - m]
    BY <1>1, <1>2
<1>4. Paired(s)
    BY <1>1, <1>2, PairedConcat DEF Leaves
<1>5. ASSUME NEW i \in 1 .. m + n
      PROVE  Shaped(s[i]) /\ Distinct(s[i].calls) /\ s[i].kind # "change"
    <2>1. CASE i <= m
        <3>1. i \in 1 .. m
            BY <1>2, <2>1
        <3> QED BY <1>1, <1>3, <3>1 DEF Leaves
    <2>2. CASE i > m
        <3>1. PICK j : j = i - m
            OBVIOUS
        <3>2. j \in 1 .. n /\ s[i] = b[j]
            BY <1>2, <1>3, <2>2, <3>1
        <3> QED BY <1>1, <3>2 DEF Leaves
    <2> QED BY <1>2, <2>1, <2>2
<1> QED BY <1>1, <1>3, <1>4, <1>5 DEF Leaves

\* What a task leaves keeps the history lawful.
LEMMA LawfulLeaves ==
    ASSUME NEW h, Lawful(h), NEW q, Leaves(q), q # <<>>, q[1].kind = "input"
    PROVE  LET s == h \o q
           IN  Lawful(s) /\ s # <<>> /\ s[Len(s)].kind # "change"
<1>1. PICK m, n, s : m = Len(h) /\ n = Len(q) /\ s = h \o q
    OBVIOUS
<1>2. h \in Seq(Artifacts) /\ q \in Seq(Artifacts) /\ m \in Nat /\ n \in Nat /\ n >= 1
    <2>1. h \in Seq(Artifacts) /\ q \in Seq(Artifacts)
        BY DEF Leaves, Lawful
    <2> QED BY <1>1, <2>1
<1>3. /\ s \in Seq(Artifacts) /\ Len(s) = m + n
      /\ \A i \in 1 .. m : s[i] = h[i]
      /\ \A i \in 1 .. m + n : i > m => s[i] = q[i - m]
    BY <1>1, <1>2
<1>4. Paired(s)
    BY <1>1, <1>2, PairedConcat DEF Leaves, Lawful
<1>5. s[m + 1] = q[1] /\ s[m + 1].kind = "input"
    <2>1. PICK i : i = m + 1
        OBVIOUS
    <2>2. i \in 1 .. m + n /\ i > m /\ i - m = 1
        BY <1>2, <2>1
    <2> QED BY <1>3, <2>1, <2>2
<1>6. ASSUME NEW i \in 1 .. m + n
      PROVE  /\ Shaped(s[i]) /\ Distinct(s[i].calls)
             /\ s[i].kind = "change" => i <= m /\ s[i + 1].kind = "input"
    <2>1. CASE i < m
        <3>1. i \in 1 .. m /\ i + 1 \in 1 .. m /\ i # m
            BY <1>2, <2>1
        <3>2. Shaped(h[i]) /\ Distinct(h[i].calls)
              /\ (h[i].kind = "change" => h[i + 1].kind = "input")
            BY <1>1, <3>1 DEF Lawful
        <3> QED BY <1>3, <2>1, <3>1, <3>2
    <2>2. CASE i = m
        <3>1. i \in 1 .. m
            BY <1>2, <2>2
        <3>2. Shaped(h[i]) /\ Distinct(h[i].calls)
            BY <1>1, <3>1 DEF Lawful
        <3> QED BY <1>3, <1>5, <2>2, <3>1, <3>2
    <2>3. CASE i > m
        <3>1. PICK j : j = i - m
            OBVIOUS
        <3>2. j \in 1 .. n /\ s[i] = q[j]
            BY <1>2, <1>3, <2>3, <3>1
        <3> QED BY <1>1, <3>2 DEF Leaves
    <2> QED BY <1>2, <2>1, <2>2, <2>3
<1>7. s # <<>> /\ s[1].kind = "input"
    <2>1. s # <<>>
        BY <1>2, <1>3
    <2>2. CASE m = 0
        BY <1>5, <2>1, <2>2
    <2>3. CASE m # 0
        <3>1. 1 \in 1 .. m /\ h # <<>>
            BY <1>1, <1>2, <2>3
        <3> QED BY <1>3, <2>1, <3>1 DEF Lawful
    <2> QED BY <2>2, <2>3
<1>8. s[m + n].kind # "change"
    <2>1. PICK i : i = m + n
        OBVIOUS
    <2>2. i \in 1 .. m + n /\ ~(i <= m)
        BY <1>2, <2>1
    <2> QED BY <1>6, <2>1, <2>2
<1>9. Lawful(s)
    BY <1>3, <1>4, <1>6, <1>7 DEF Lawful
<1> QED BY <1>1, <1>3, <1>7, <1>8, <1>9

\* A change of control ends what a task leaves.
LEMMA LawfulChange ==
    ASSUME NEW h, Lawful(h), h # <<>>, h[Len(h)].kind # "change",
           NEW x \in Artifacts, Shaped(x), x.kind = "change"
    PROVE  Lawful(Append(h, x))
<1>1. PICK m, s : m = Len(h) /\ s = Append(h, x)
    OBVIOUS
<1>2. h \in Seq(Artifacts) /\ m \in Nat /\ m >= 1
    <2>1. h \in Seq(Artifacts)
        BY DEF Lawful
    <2> QED BY <1>1, <2>1
<1>3. /\ s \in Seq(Artifacts) /\ Len(s) = m + 1 /\ s = h \o <<x>>
      /\ \A i \in 1 .. m : s[i] = h[i]
      /\ s[m + 1] = x
    BY <1>1, <1>2
<1>4. x.calls = <<>> /\ x.kind # "result"
    BY DEF Shaped
<1>5. Paired(<<x>>) /\ Distinct(x.calls)
    <2>1. PICK a : a = <<x>>
        OBVIOUS
    <2>2. a \in Seq(Artifacts) /\ Len(a) = 1 /\ a[1] = x
        BY <2>1
    <2>3. \A i \in 1 .. Len(a) : i = 1 /\ a[i] = x
        BY <2>2
    <2>4. Executed(x.calls) = {}
        BY <1>4 DEF Executed
    <2>5. Paired(a)
        BY <1>4, <2>3, <2>4 DEF Paired
    <2> QED BY <1>4, <2>1, <2>5 DEF Distinct
<1>6. Paired(s)
    <2>1. <<x>> \in Seq(Artifacts)
        OBVIOUS
    <2> QED BY <1>2, <1>3, <1>5, <2>1, PairedConcat DEF Lawful
<1>7. ASSUME NEW i \in 1 .. m + 1
      PROVE  /\ Shaped(s[i]) /\ Distinct(s[i].calls)
             /\ s[i].kind = "change" => i = m + 1 \/ s[i + 1].kind = "input"
    <2>1. CASE i < m
        <3>1. i \in 1 .. m /\ i + 1 \in 1 .. m /\ i # m
            BY <1>2, <2>1
        <3>2. Shaped(h[i]) /\ Distinct(h[i].calls)
              /\ (h[i].kind = "change" => h[i + 1].kind = "input")
            BY <1>1, <3>1 DEF Lawful
        <3> QED BY <1>3, <3>1, <3>2
    <2>2. CASE i = m
        <3>1. i \in 1 .. m
            BY <1>2, <2>2
        <3>2. Shaped(h[i]) /\ Distinct(h[i].calls) /\ h[i].kind # "change"
            BY <1>1, <2>2, <3>1 DEF Lawful
        <3> QED BY <1>3, <3>1, <3>2
    <2>3. CASE i = m + 1
        BY <1>3, <1>5, <2>3
    <2> QED BY <1>2, <2>1, <2>2, <2>3
<1>8. s[1].kind = "input"
    <2>1. 1 \in 1 .. m
        BY <1>2
    <2> QED BY <1>3, <2>1 DEF Lawful
<1> QED BY <1>1, <1>3, <1>6, <1>7, <1>8 DEF Lawful

\* What is left of a task begins with its input.
LEMMA TaskLeaves ==
    ASSUME NEW t \in Tasks, NEW a, Leaves(a), NEW q, q = <<InputArtifact(t)>> \o a
    PROVE  Leaves(q) /\ q # <<>> /\ q[1].kind = "input"
<1>1. PICK x : x = InputArtifact(t)
    OBVIOUS
<1>2. x \in Artifacts /\ x.kind = "input" /\ x.calls = <<>> /\ Shaped(x)
    BY <1>1, InputIs
<1>3. Plainly(x)
    BY <1>2 DEF Plainly
<1>4. Leaves(<<x>>)
    BY <1>3, LeavesOne
<1>5. Leaves(<<x>> \o a)
    BY <1>4, LeavesBoth
<1>6. a \in Seq(Artifacts)
    BY DEF Leaves
<1>7. (<<x>> \o a)[1] = x /\ <<x>> \o a # <<>>
    BY <1>2, <1>6
<1> QED BY <1>1, <1>2, <1>5, <1>7

LEMMA BusyMore ==
    ASSUME NEW m \in Nat, NEW n \in Nat, m <= n, NEW t, Busy(t, m)
    PROVE  Busy(t, n)
<1>1. PICK a : a = t.artifacts
    OBVIOUS
<1>2. Exchange(a, m) /\ t \in Tasks
    BY <1>1 DEF Busy
<1>3. ASSUME NEW i \in 1 .. Len(a)
      PROVE  a[i].call <= n /\ \A k \in 1 .. Len(a[i].calls) : a[i].calls[k].id \in 1 .. n
    <2>1. a[i] \in Artifacts
        BY <1>2, ElementOfSeq DEF Exchange
    <2>2. PICK c : c = a[i].call
        OBVIOUS
    <2>3. c \in Nat /\ c <= m
        BY <1>2, <2>1, <2>2 DEF Exchange, Artifacts
    <2>4. c <= n
        BY <2>3
    <2>5. \A k \in 1 .. Len(a[i].calls) : a[i].calls[k].id \in 1 .. m
        BY <1>2 DEF Exchange
    <2>6. 1 .. m \subseteq 1 .. n
        OBVIOUS
    <2> QED BY <2>2, <2>4, <2>5, <2>6
<1>4. Exchange(a, n)
    BY <1>2, <1>3 DEF Exchange
<1> QED BY <1>1, <1>2, <1>4 DEF Busy

LEMMA ToolsOffered ==
    ASSUME offered \subseteq Plain
    PROVE  OfferedTools \subseteq Tools
<1>1. SUFFICES ASSUME NEW x \in OfferedTools PROVE x \in Tools
    OBVIOUS
<1>2. Root \in Agents
    BY ProjectionAssumption
<1>3. CASE x \in {Tool(name, Root) : name \in offered}
    <2>1. PICK name \in offered : x = Tool(name, Root)
        BY <1>3
    <2>2. name \in Names
        BY DEF Names
    <2> QED BY <1>2, <2>1, <2>2 DEF Tool, Tools
<1>4. CASE x \in {Tool("handoff", a) : a \in Agents \ Range(frames)}
    <2>1. PICK a \in Agents : x = Tool("handoff", a)
        BY <1>4
    <2>2. "handoff" \in Names
        BY DEF Names
    <2> QED BY <2>1, <2>2 DEF Tool, Tools
<1>5. CASE x \in {Tool("return", Root), Tool("resume", Root)}
    <2>1. "return" \in Names /\ "resume" \in Names
        BY DEF Names
    <2> QED BY <1>2, <1>5, <2>1 DEF Tool, Tools
<1> QED BY <1>1, <1>3, <1>4, <1>5 DEF OfferedTools

LEMMA ToolsAvailable ==
    ASSUME offered \subseteq Plain, NEW t
    PROVE  AvailableTools(t) \subseteq Tools
<1>1. OfferedTools \subseteq Tools
    BY ToolsOffered
<1> QED BY <1>1 DEF AvailableTools

\* The calls of a new message: different numbers, above those that were given out.
Fresh(calls, top) ==
    /\ calls \in Seq(Calls) /\ calls # <<>> /\ Len(calls) \in Nat /\ Distinct(calls)
    /\ \A k \in 1 .. Len(calls) : calls[k].id \in top + 1 .. top + Len(calls)

LEMMA CallsFresh ==
    ASSUME offered \subseteq Plain, used.calls \in Nat, NEW t, NEW calls \in NewCalls(t)
    PROVE  Fresh(calls, used.calls)
<1>1. PICK top : top = used.calls /\ top \in Nat
    OBVIOUS
<1>2. AvailableTools(t) \subseteq Tools
    BY ToolsAvailable
<1>3. ASSUME NEW x \in Tools, NEW i \in Nat PROVE Call(i, x) \in Calls /\ Call(i, x).id = i
    BY DEF Call, Calls
<1>4. CASE \E x \in AvailableTools(t) : calls = <<Call(top + 1, x)>>
    <2>1. PICK x \in AvailableTools(t) : calls = <<Call(top + 1, x)>>
        BY <1>4
    <2>2. PICK c : c = Call(top + 1, x)
        OBVIOUS
    <2>3. c \in Calls /\ c.id = top + 1
        BY <1>1, <1>2, <1>3, <2>2
    <2>4. calls = <<c>> /\ calls \in Seq(Calls) /\ Len(calls) = 1 /\ calls[1] = c /\ calls # <<>>
        BY <2>1, <2>2, <2>3
    <2>5. \A k \in 1 .. Len(calls) : k = 1
        BY <2>4
    <2>6. Distinct(calls)
        BY <2>5 DEF Distinct
    <2>7. \A k \in 1 .. Len(calls) : calls[k].id \in top + 1 .. top + Len(calls)
        BY <1>1, <2>3, <2>4, <2>5
    <2> QED BY <1>1, <2>4, <2>6, <2>7 DEF Fresh
<1>5. CASE \E x, y \in AvailableTools(t) : calls = <<Call(top + 1, x), Call(top + 1 + 1, y)>>
    <2>1. PICK x, y \in AvailableTools(t) : calls = <<Call(top + 1, x), Call(top + 1 + 1, y)>>
        BY <1>5
    <2>2. PICK c, d : c = Call(top + 1, x) /\ d = Call(top + 1 + 1, y)
        OBVIOUS
    <2>3. c \in Calls /\ c.id = top + 1 /\ d \in Calls /\ d.id = top + 2
        BY <1>1, <1>2, <1>3, <2>2
    <2>4. calls = <<c, d>>
        BY <2>1, <2>2
    <2>5. /\ calls \in Seq(Calls) /\ Len(calls) = 2 /\ calls[1] = c /\ calls[2] = d
          /\ calls # <<>>
        BY <2>3, <2>4
    <2>6. \A k \in 1 .. Len(calls) : k = 1 \/ k = 2
        BY <2>5
    <2>7. c.id # d.id
        BY <1>1, <2>3
    <2>8. Distinct(calls)
        BY <2>5, <2>6, <2>7 DEF Distinct
    <2>9. \A k \in 1 .. Len(calls) : calls[k].id \in top + 1 .. top + Len(calls)
        BY <1>1, <2>3, <2>5, <2>6
    <2> QED BY <1>1, <2>5, <2>8, <2>9 DEF Fresh
<1> QED BY <1>1, <1>4, <1>5 DEF NewCalls

\* A message of the model is behind what was answered.
LEMMA MessageBusy ==
    ASSUME NEW top \in Nat, NEW t, Busy(t, top), Waiting(t) = {},
           NEW calls, Fresh(calls, top),
           NEW x \in Artifacts, x.kind \in {"tool_call", "response"}, x.calls = calls, x.call = 0,
           NEW u, u = [t EXCEPT !.artifacts = Append(@, x)],
           NEW m, m = top + Len(calls)
    PROVE  Busy(u, m)
<1>1. PICK a, n, b, l : a = t.artifacts /\ n = Len(a) /\ b = Append(a, x) /\ l = Len(calls)
    OBVIOUS
<1>2. a \in Seq(Artifacts) /\ n \in Nat /\ t \in Tasks /\ Exchange(a, top) /\ l \in Nat
    BY <1>1, LenProperties DEF Busy, Exchange, Fresh
<1>3. m \in Nat /\ m >= top /\ m = top + l
    BY <1>1, <1>2
<1>4. /\ b \in Seq(Artifacts) /\ Len(b) = n + 1 /\ b # <<>>
      /\ \A i \in 1 .. n : b[i] = a[i]
      /\ b[n + 1] = x
    BY <1>1, <1>2
<1>5. u \in Tasks /\ u.artifacts = b
    BY <1>1, <1>2, <1>4 DEF Tasks
<1>6. Exchange(a, m)
    <2>1. Busy(t, m)
        BY <1>3, BusyMore
    <2> QED BY <1>1, <2>1 DEF Busy
<1>7. /\ Shaped(x) /\ Distinct(x.calls) /\ x.call <= m
      /\ \A k \in 1 .. Len(x.calls) : x.calls[k].id \in 1 .. m
    <2>1. \A k \in 1 .. l : calls[k].id \in top + 1 .. top + l
        BY <1>1 DEF Fresh
    <2>2. top + 1 .. top + l \subseteq 1 .. m
        BY <1>2, <1>3
    <2>3. Shaped(x)
        BY DEF Shaped
    <2> QED BY <1>1, <1>3, <2>1, <2>2, <2>3 DEF Fresh
<1>8. ASSUME NEW i \in 1 .. n + 1
      PROVE  /\ b[i].kind \in {"tool_call", "response", "result"}
             /\ Shaped(b[i]) /\ Distinct(b[i].calls) /\ b[i].call <= m
             /\ \A k \in 1 .. Len(b[i].calls) : b[i].calls[k].id \in 1 .. m
    <2>1. CASE i = n + 1
        BY <1>4, <1>7, <2>1
    <2>2. CASE i # n + 1
        <3>1. i \in 1 .. n
            BY <1>2, <2>2
        <3> QED BY <1>1, <1>4, <1>6, <3>1 DEF Exchange
    <2> QED BY <2>1, <2>2
<1>9. PICK p : p = n + 1 /\ p \in Nat /\ p - 1 = n
    BY <1>2
<1>10. LastMessage(b, p)
    <2>1. p \in 1 .. Len(b) /\ b[p].kind # "result"
        BY <1>2, <1>4, <1>9
    <2>2. \A i \in p + 1 .. Len(b) : FALSE
        BY <1>2, <1>4, <1>9
    <2> QED BY <2>1, <2>2 DEF LastMessage
<1>11. Paired(a)
    BY <1>1, DonePaired
<1>12. ASSUME NEW i \in 1 .. n, NEW k \in Executed(b[i].calls)
       PROVE  i + k < p /\ b[i + k].kind = "result" /\ b[i + k].call = b[i].calls[k].id
    <2>1. a[i] \in Artifacts
        BY <1>1, <1>2, ElementOfSeq
    <2>2. a[i].calls \in Seq(Calls) /\ b[i] = a[i]
        BY <1>4, <2>1 DEF Artifacts
    <2>3. k \in Nat /\ k >= 1
        BY <2>2, ExecutedIs
    <2>4. i + k <= n /\ a[i + k].kind = "result" /\ a[i + k].call = a[i].calls[k].id
        BY <1>1, <1>11, <2>2 DEF Paired
    <2>5. PICK j : j = i + k
        OBVIOUS
    <2>6. j \in 1 .. n /\ j < p
        BY <1>2, <1>9, <2>3, <2>4, <2>5
    <2> QED BY <1>4, <2>2, <2>4, <2>5, <2>6
<1>13. ASSUME NEW j \in 1 .. n, b[j].kind = "result"
       PROVE  \E i \in 1 .. (j - 1) : j - i \in Executed(b[i].calls)
    <2>1. PICK i \in 1 .. j - 1 : j - i \in Executed(a[i].calls)
        BY <1>1, <1>4, <1>11, <1>13 DEF Paired
    <2>2. i \in 1 .. n
        BY <1>2
    <2> QED BY <1>4, <2>1, <2>2
<1>14. ASSUME NEW i \in 1 .. n, NEW k \in 1 .. Len(b[p].calls)
       PROVE  b[i].call < b[p].calls[k].id
    <2>1. a[i] \in Artifacts
        BY <1>1, <1>2, ElementOfSeq
    <2>2. PICK c, d : c = b[i].call /\ d = b[p].calls[k].id
        OBVIOUS
    <2>3. c \in Nat /\ c <= top
        BY <1>1, <1>2, <1>4, <2>1, <2>2 DEF Exchange, Artifacts
    <2>4. d \in top + 1 .. top + l
        BY <1>1, <1>4, <1>9, <2>2 DEF Fresh
    <2>5. c < d
        BY <1>2, <2>3, <2>4
    <2> QED BY <2>2, <2>5
<1>15. Before(b, p)
    BY <1>9, <1>12, <1>13, <1>14 DEF Before
<1>16. Exchange(b, m)
    BY <1>4, <1>8, <1>10, <1>15 DEF Exchange
<1> QED BY <1>5, <1>16 DEF Busy

\* The result of the first call that waits is the next artifact of the task.
LEMMA ResultBusy ==
    ASSUME NEW top \in Nat, NEW t, Busy(t, top), NEW k \in Waiting(t),
           \A j \in Waiting(t) : k <= j,
           NEW x \in Artifacts, x.kind = "result", x.calls = <<>>, x.call = Asked(t)[k].id,
           NEW u, u = [t EXCEPT !.artifacts = Append(@, x)]
    PROVE  Busy(u, top)
<1>1. PICK a, n, b : a = t.artifacts /\ n = Len(a) /\ b = Append(a, x)
    OBVIOUS
<1>2. a \in Seq(Artifacts) /\ n \in Nat /\ t \in Tasks /\ Exchange(a, top)
    BY <1>1, LenProperties DEF Busy, Exchange
<1>3. a # <<>>
    BY <1>1 DEF Waiting
<1>4. PICK p : LastMessage(a, p) /\ Before(a, p)
    BY <1>2, <1>3 DEF Exchange
<1>5. PICK c : c = a[p].calls
    OBVIOUS
<1>6. /\ Asked(t) = c /\ c \in Seq(Calls)
      /\ \A j : j \in Waiting(t) <=> j \in Executed(c) /\ p + j > n
    BY <1>1, <1>4, <1>5, WaitingIs
<1>7. /\ p \in 1 .. n /\ a[p].kind # "result"
      /\ \A i \in p + 1 .. n : /\ a[i].kind = "result" /\ i - p \in Executed(c)
                               /\ a[i].call = c[i - p].id
    BY <1>1, <1>4, <1>5 DEF LastMessage
<1>8. k \in Executed(c) /\ p + k > n /\ k \in Nat /\ k >= 1 /\ k <= Len(c)
    BY <1>6, ExecutedIs
<1>9. p + k = n + 1
    <2>0. p \in Nat /\ p <= n /\ p >= 1
        BY <1>2, <1>7
    <2>1. SUFFICES ASSUME p + k > n + 1 PROVE FALSE
        BY <1>2, <1>8, <2>0
    <2>2. PICK j : j = k - 1
        OBVIOUS
    <2>3. j \in 1 .. k /\ p + j > n /\ ~(k <= j)
        BY <1>2, <1>7, <1>8, <2>1, <2>2
    <2>4. j \in Executed(c)
        BY <1>6, <1>8, <2>3, ExecutedIs
    <2>5. j \in Waiting(t)
        BY <1>6, <2>3, <2>4
    <2> QED BY <2>3, <2>5
<1>10. /\ b \in Seq(Artifacts) /\ Len(b) = n + 1 /\ b # <<>>
       /\ \A i \in 1 .. n : b[i] = a[i]
       /\ b[n + 1] = x
    BY <1>1, <1>2
<1>11. u \in Tasks /\ u.artifacts = b
    BY <1>1, <1>2, <1>10 DEF Tasks
<1>12. x.call \in 1 .. top /\ x.call = c[k].id
    <2>1. k \in 1 .. Len(c)
        BY <1>6, <1>8, LenProperties
    <2> QED BY <1>1, <1>2, <1>5, <1>6, <1>7, <2>1 DEF Exchange
<1>13. Shaped(x) /\ Distinct(x.calls) /\ Len(x.calls) = 0 /\ x.call <= top
    <2>1. PICK y : y = x.call
        OBVIOUS
    <2>2. y # 0 /\ y <= top
        BY <1>12, <2>1
    <2> QED BY <2>1, <2>2 DEF Shaped, Distinct
<1>14. ASSUME NEW i \in 1 .. n + 1
       PROVE  /\ b[i].kind \in {"tool_call", "response", "result"}
              /\ Shaped(b[i]) /\ Distinct(b[i].calls) /\ b[i].call <= top
              /\ \A l \in 1 .. Len(b[i].calls) : b[i].calls[l].id \in 1 .. top
    <2>1. CASE i = n + 1
        BY <1>10, <1>13, <2>1
    <2>2. CASE i # n + 1
        <3>1. i \in 1 .. n
            BY <1>2, <2>2
        <3> QED BY <1>1, <1>2, <1>10, <3>1 DEF Exchange
    <2> QED BY <2>1, <2>2
<1>15. p \in 1 .. n + 1 /\ b[p] = a[p] /\ b[p].calls = c
    BY <1>2, <1>5, <1>7, <1>10
<1>16. ASSUME NEW i \in p + 1 .. n + 1
       PROVE  b[i].kind = "result" /\ i - p \in Executed(c) /\ b[i].call = c[i - p].id
    <2>1. CASE i = n + 1
        <3>1. i - p = k
            BY <1>2, <1>7, <1>8, <1>9, <2>1
        <3> QED BY <1>8, <1>10, <1>12, <2>1, <3>1
    <2>2. CASE i # n + 1
        <3>0. p \in Nat /\ p <= n /\ p >= 1 /\ i \in Nat /\ i >= p + 1 /\ i <= n + 1
            BY <1>2, <1>7
        <3>1. i \in p + 1 .. n /\ i \in 1 .. n
            BY <1>2, <2>2, <3>0
        <3> QED BY <1>7, <1>10, <3>1
    <2> QED BY <2>1, <2>2
<1>17. LastMessage(b, p)
    BY <1>7, <1>10, <1>15, <1>16 DEF LastMessage
<1>18. ASSUME NEW i \in 1 .. p - 1
       PROVE  i \in 1 .. n /\ b[i] = a[i] /\ a[i].calls \in Seq(Calls)
    <2>1. i \in 1 .. n
        BY <1>2, <1>7
    <2>2. a[i] \in Artifacts
        BY <1>1, <1>2, <2>1, ElementOfSeq
    <2> QED BY <1>10, <2>1, <2>2 DEF Artifacts
<1>19. ASSUME NEW i \in 1 .. p - 1, NEW l \in Executed(b[i].calls)
       PROVE  i + l < p /\ b[i + l].kind = "result" /\ b[i + l].call = b[i].calls[l].id
    <2>1. l \in Nat /\ l >= 1 /\ b[i] = a[i]
        BY <1>18, ExecutedIs
    <2>2. i + l < p /\ a[i + l].kind = "result" /\ a[i + l].call = a[i].calls[l].id
        BY <1>4, <2>1 DEF Before
    <2>3. PICK j : j = i + l
        OBVIOUS
    <2>4. j \in 1 .. n
        BY <1>2, <1>7, <2>1, <2>2, <2>3
    <2> QED BY <1>10, <2>1, <2>2, <2>3, <2>4
<1>20. ASSUME NEW j \in 1 .. p - 1, b[j].kind = "result"
       PROVE  \E i \in 1 .. (j - 1) : j - i \in Executed(b[i].calls)
    <2>1. PICK i \in 1 .. j - 1 : j - i \in Executed(a[i].calls)
        BY <1>4, <1>18, <1>20 DEF Before
    <2>2. i \in 1 .. p - 1
        BY <1>2, <1>7
    <2> QED BY <1>18, <2>1, <2>2
<1>21. ASSUME NEW i \in 1 .. p - 1, NEW l \in 1 .. Len(b[p].calls)
       PROVE  b[i].call < b[p].calls[l].id
    BY <1>4, <1>15, <1>18 DEF Before
<1>22. Before(b, p)
    BY <1>19, <1>20, <1>21 DEF Before
<1>23. Exchange(b, top)
    BY <1>10, <1>14, <1>17, <1>22 DEF Exchange
<1> QED BY <1>11, <1>23 DEF Busy

-----------------------------------------------------------------------------
(* The inductive invariant.  The history is lawful since tasks are exchanges *)
(* in which every result stands at the place of its call: whatever a task    *)
(* leaves when it ends is paired, and what it leaves when it pauses holds     *)
(* neither calls nor results.                                                *)
Session ==
    /\ Lawful(history)
    /\ frames \in Seq(Agents) /\ frames # <<>>
    /\ queue \in Seq([id : Nat, wake : BOOLEAN])
    /\ used \in [inputs : Nat, calls : Nat, pauses : Nat, withdrawn : Nat]
    /\ \A t \in task \cup paused : Busy(t, used.calls)
    /\ offered \subseteq Plain /\ expired \subseteq Nat \ {0}

LEMMA SessionInit ==
    Init => Session
<1> SUFFICES ASSUME Init PROVE Session
    OBVIOUS
<1>1. history = <<>> /\ frames = <<Root>> /\ queue = <<>> /\ task = {} /\ paused = {}
      /\ offered = Plain /\ expired = {}
      /\ used = [inputs |-> 0, calls |-> 0, pauses |-> 0, withdrawn |-> 0]
    BY DEF Init
<1>2. Lawful(<<>>)
    <2>1. Len(<<>>) = 0 /\ <<>> \in Seq(Artifacts)
        OBVIOUS
    <2> QED BY <2>1 DEF Lawful, Paired
<1>3. <<Root>> \in Seq(Agents) /\ <<Root>> # <<>>
    BY ProjectionAssumption
<1>4. <<>> \in Seq([id : Nat, wake : BOOLEAN])
    OBVIOUS
<1> QED BY <1>1, <1>2, <1>3, <1>4 DEF Session

LEMMA UsedMore ==
    ASSUME used \in [inputs : Nat, calls : Nat, pauses : Nat, withdrawn : Nat]
    PROVE  /\ used.inputs \in Nat /\ used.calls \in Nat
           /\ \A n \in Nat : /\ [used EXCEPT !.inputs = n] \in
                                   [inputs : Nat, calls : Nat, pauses : Nat, withdrawn : Nat]
                             /\ [used EXCEPT !.pauses = n] \in
                                   [inputs : Nat, calls : Nat, pauses : Nat, withdrawn : Nat]
                             /\ [used EXCEPT !.withdrawn = n] \in
                                   [inputs : Nat, calls : Nat, pauses : Nat, withdrawn : Nat]
                             /\ [used EXCEPT !.calls = n] \in
                                   [inputs : Nat, calls : Nat, pauses : Nat, withdrawn : Nat]
                             /\ [used EXCEPT !.inputs = n].calls = used.calls
                             /\ [used EXCEPT !.pauses = n].calls = used.calls
                             /\ [used EXCEPT !.withdrawn = n].calls = used.calls
                             /\ [used EXCEPT !.calls = n].calls = n
           /\ used.pauses \in Nat /\ used.withdrawn \in Nat
OBVIOUS

LEMMA SubmitKeeps ==
    ASSUME Session, Submit
    PROVE  Session'
<1>1. /\ queue' = Append(queue, NewInput(FALSE)) /\ used' = [used EXCEPT !.inputs = @ + 1]
      /\ UNCHANGED <<history, frames, task, paused, offered, expired>>
    BY DEF Submit, toolVars
<1>2. used.inputs \in Nat /\ used.inputs + 1 \in Nat
    BY UsedMore DEF Session
<1>3. used' \in [inputs : Nat, calls : Nat, pauses : Nat, withdrawn : Nat]
      /\ used'.calls = used.calls
    BY <1>1, <1>2, UsedMore DEF Session
<1>4. NewInput(FALSE) \in [id : Nat, wake : BOOLEAN]
    BY <1>2 DEF NewInput
<1>5. queue' \in Seq([id : Nat, wake : BOOLEAN])
    <2>1. PICK I, x : I = [id : Nat, wake : BOOLEAN] /\ x = NewInput(FALSE)
        OBVIOUS
    <2>2. queue \in Seq(I) /\ x \in I
        BY <1>4, <2>1 DEF Session
    <2>3. Append(queue, x) \in Seq(I)
        BY <2>2
    <2> QED BY <1>1, <2>1, <2>3
<1> QED BY <1>1, <1>3, <1>5 DEF Session, Lawful, Paired

LEMMA StartKeeps ==
    ASSUME Session, StartTask
    PROVE  Session'
<1>1. /\ queue # <<>> /\ queue' = Tail(queue)
      /\ task' = {[input |-> Head(queue).id, wake |-> Head(queue).wake,
                   owner |-> Top, artifacts |-> <<>>]}
      /\ UNCHANGED <<history, frames, paused, offered, expired, used>>
    BY DEF StartTask, toolVars
<1>2. Head(queue) \in [id : Nat, wake : BOOLEAN] /\ queue' \in Seq([id : Nat, wake : BOOLEAN])
    <2>1. PICK I : I = [id : Nat, wake : BOOLEAN]
        OBVIOUS
    <2>2. queue \in Seq(I) /\ queue # <<>>
        BY <1>1, <2>1 DEF Session
    <2>3. Head(queue) \in I /\ Tail(queue) \in Seq(I)
        BY <2>2
    <2> QED BY <1>1, <2>1, <2>3
<1>3. Top \in Agents
    <2>1. frames \in Seq(Agents) /\ frames # <<>>
        BY DEF Session
    <2>2. Len(frames) \in 1 .. Len(frames)
        BY <2>1
    <2> QED BY <2>1, <2>2, ElementOfSeq DEF Top
<1>4. PICK t : t = [input |-> Head(queue).id, wake |-> Head(queue).wake,
                    owner |-> Top, artifacts |-> <<>>]
    OBVIOUS
<1>5. t \in Tasks /\ t.artifacts = <<>>
    BY <1>2, <1>3, <1>4 DEF Tasks
<1>6. Exchange(<<>>, used.calls)
    <2>1. Len(<<>>) = 0 /\ <<>> \in Seq(Artifacts)
        OBVIOUS
    <2> QED BY <2>1 DEF Exchange
<1>7. Busy(t, used.calls)
    BY <1>5, <1>6 DEF Busy
<1>8. task' = {t}
    BY <1>1, <1>4
<1>9. \A u \in task' \cup paused' : Busy(u, used.calls)
    BY <1>1, <1>7, <1>8 DEF Session
<1> QED BY <1>1, <1>2, <1>9 DEF Session

LEMMA ResumeKeeps ==
    ASSUME Session, ResumeTask
    PROVE  Session'
<1>1. /\ task' \cup paused' \subseteq task \cup paused
      /\ UNCHANGED <<history, frames, queue, offered, expired, used>>
    BY DEF ResumeTask, toolVars
<1> QED BY <1>1 DEF Session

LEMMA PauseKeeps ==
    ASSUME Session, PauseTask
    PROVE  Session'
<1>1. PICK t \in task : /\ history' = history \o PausedArtifacts(t)
                        /\ paused' = paused \cup {t} /\ task' = {}
                        /\ used' = [used EXCEPT !.pauses = @ + 1]
                        /\ UNCHANGED <<frames, queue, offered, expired>>
    BY DEF PauseTask, toolVars
<1>2. Busy(t, used.calls) /\ t \in Tasks
    BY DEF Session, Busy
<1>3. PICK x, q : x = Artifact("request", t.owner) /\ q = <<InputArtifact(t)>> \o <<x>>
    OBVIOUS
<1>4. Plainly(x)
    <2>1. t.owner \in Agents /\ <<>> \in Seq(Calls) /\ "request" \in Kinds
        BY <1>2 DEF Tasks, Kinds
    <2>2. x \in Artifacts
        BY <1>3, <2>1 DEF Artifact, Artifacts
    <2> QED BY <1>3, <2>2 DEF Plainly, Artifact, Shaped
<1>5. Leaves(<<x>>)
    BY <1>4, LeavesOne
<1>6. Leaves(q) /\ q # <<>> /\ q[1].kind = "input"
    BY <1>2, <1>3, <1>5, TaskLeaves
<1>7. Lawful(history \o q)
    BY <1>6, LawfulLeaves DEF Session
<1>8. PausedArtifacts(t) = q
    BY <1>3 DEF PausedArtifacts
<1>9. history' = history \o q
    BY <1>1, <1>8
<1>10. Lawful(history')
    BY <1>7, <1>9
<1>11. used.pauses + 1 \in Nat
    BY UsedMore DEF Session
<1>12. used' \in [inputs : Nat, calls : Nat, pauses : Nat, withdrawn : Nat]
       /\ used'.calls = used.calls
    BY <1>1, <1>11, UsedMore DEF Session
<1>13. \A u \in task' \cup paused' : Busy(u, used'.calls)
    BY <1>1, <1>2, <1>12 DEF Session
<1> QED BY <1>1, <1>10, <1>12, <1>13 DEF Session, Lawful, Paired

LEMMA MessageKeeps ==
    ASSUME Session, AnswerWithCalls
    PROVE  Session'
<1>0. PICK t \in task : \E calls \in NewCalls(t) :
        /\ AsksModel(t)
        /\ task' = {[t EXCEPT !.artifacts = Append(@,
                       [Artifact(IF @ = <<>> THEN "tool_call" ELSE "response", t.owner)
                          EXCEPT !.calls = calls])]}
        /\ used' = [used EXCEPT !.calls = @ + Len(calls)]
        /\ UNCHANGED <<history, frames, queue, paused, offered, expired>>
    BY DEF AnswerWithCalls, sessionVars, toolVars
<1>1. PICK calls \in NewCalls(t) :
        /\ AsksModel(t)
        /\ task' = {[t EXCEPT !.artifacts = Append(@,
                       [Artifact(IF @ = <<>> THEN "tool_call" ELSE "response", t.owner)
                          EXCEPT !.calls = calls])]}
        /\ used' = [used EXCEPT !.calls = @ + Len(calls)]
        /\ UNCHANGED <<history, frames, queue, paused, offered, expired>>
    BY <1>0
<1>2. PICK top, kind, x, u, m :
        /\ top = used.calls
        /\ kind = IF t.artifacts = <<>> THEN "tool_call" ELSE "response"
        /\ x = [Artifact(kind, t.owner) EXCEPT !.calls = calls]
        /\ u = [t EXCEPT !.artifacts = Append(@, x)]
        /\ m = top + Len(calls)
    OBVIOUS
<1>3. Busy(t, top) /\ top \in Nat /\ t \in Tasks /\ Waiting(t) = {}
    BY <1>1, <1>2, UsedMore DEF Session, Busy, AsksModel
<1>4. Fresh(calls, top)
    BY <1>1, <1>2, CallsFresh, UsedMore DEF Session
<1>5. x \in Artifacts /\ x.kind \in {"tool_call", "response"} /\ x.calls = calls /\ x.call = 0
    <2>1. t.owner \in Agents /\ calls \in Seq(Calls)
        BY <1>3, <1>4 DEF Tasks, Fresh
    <2>2. kind \in Kinds /\ kind \in {"tool_call", "response"}
        BY <1>2 DEF Kinds
    <2> QED BY <1>2, <2>1, <2>2 DEF Artifact, Artifacts
<1>6. Busy(u, m)
    BY <1>2, <1>3, <1>4, <1>5, MessageBusy
<1>7. m \in Nat /\ top <= m
    BY <1>2, <1>3, <1>4 DEF Fresh
<1>8. task' = {u}
    BY <1>1, <1>2
<1>9. used' \in [inputs : Nat, calls : Nat, pauses : Nat, withdrawn : Nat] /\ used'.calls = m
    BY <1>1, <1>2, <1>7, UsedMore DEF Session
<1>10. \A v \in paused : Busy(v, m)
    BY <1>2, <1>3, <1>7, BusyMore DEF Session
<1>11. \A v \in task' \cup paused' : Busy(v, used'.calls)
    BY <1>1, <1>6, <1>8, <1>9, <1>10
<1> QED BY <1>1, <1>9, <1>11 DEF Session, Lawful, Paired

LEMMA ExecuteKeeps ==
    ASSUME Session, ExecuteTool
    PROVE  Session'
<1>1. PICK t \in task : \E k \in Waiting(t) :
        /\ \A j \in Waiting(t) : k <= j
        /\ task' = {[t EXCEPT !.artifacts = Append(@,
                       [Artifact("result", t.owner) EXCEPT !.call = Asked(t)[k].id])]}
        /\ UNCHANGED <<history, frames, queue, paused, offered, expired, used>>
    BY DEF ExecuteTool, sessionVars, toolVars
<1>2. PICK k \in Waiting(t) :
        /\ \A j \in Waiting(t) : k <= j
        /\ task' = {[t EXCEPT !.artifacts = Append(@,
                       [Artifact("result", t.owner) EXCEPT !.call = Asked(t)[k].id])]}
        /\ UNCHANGED <<history, frames, queue, paused, offered, expired, used>>
    BY <1>1
<1>3. PICK top, x, u : /\ top = used.calls
                       /\ x = [Artifact("result", t.owner) EXCEPT !.call = Asked(t)[k].id]
                       /\ u = [t EXCEPT !.artifacts = Append(@, x)]
    OBVIOUS
<1>4. Busy(t, top) /\ top \in Nat /\ t \in Tasks
    BY <1>3, UsedMore DEF Session, Busy
<1>5. Asked(t)[k].id \in Nat
    <2>1. PICK a : a = t.artifacts
        OBVIOUS
    <2>2. a # <<>>
        BY <2>1 DEF Waiting
    <2>3. PICK p : LastMessage(a, p) /\ Before(a, p)
        BY <1>4, <2>1, <2>2 DEF Busy, Exchange
    <2>4. PICK c : c = a[p].calls
        OBVIOUS
    <2>5. Asked(t) = c /\ c \in Seq(Calls) /\ k \in Executed(c)
        BY <1>4, <2>1, <2>3, <2>4, WaitingIs
    <2>6. k \in 1 .. Len(c)
        BY <2>5, ExecutedIs, LenProperties
    <2>7. c[k] \in Calls
        BY <2>5, <2>6, ElementOfSeq
    <2> QED BY <2>5, <2>7 DEF Calls
<1>6. x \in Artifacts /\ x.kind = "result" /\ x.calls = <<>> /\ x.call = Asked(t)[k].id
    <2>1. t.owner \in Agents /\ <<>> \in Seq(Calls) /\ "result" \in Kinds
        BY <1>4 DEF Tasks, Kinds
    <2> QED BY <1>3, <1>5, <2>1 DEF Artifact, Artifacts
<1>7. Busy(u, top)
    BY <1>2, <1>3, <1>4, <1>6, ResultBusy
<1>8. task' = {u}
    BY <1>2, <1>3
<1>9. \A v \in task' \cup paused' : Busy(v, used'.calls)
    BY <1>2, <1>3, <1>7, <1>8 DEF Session
<1> QED BY <1>2, <1>9 DEF Session, Lawful, Paired

\* A task of which every call is answered, with what the model says last.
LEMMA DoneLeaves ==
    ASSUME NEW top \in Nat, NEW t, Busy(t, top), Waiting(t) = {}
    PROVE  Leaves(t.artifacts)
<1>1. t.artifacts \in Seq(Artifacts) /\ Paired(t.artifacts)
    BY DonePaired DEF Busy, Exchange
<1> QED BY <1>1 DEF Leaves, Busy, Exchange

LEMMA ChangeIs ==
    ASSUME NEW t \in Tasks, NEW why \in {"report", "handoff", "return"}
    PROVE  /\ Change(t, why) \in Artifacts /\ Shaped(Change(t, why))
           /\ Change(t, why).kind = "change"
<1>1. t.owner \in Agents /\ <<>> \in Seq(Calls) /\ "change" \in Kinds
    BY DEF Tasks, Kinds
<1>2. Change(t, why) \in Artifacts
    BY <1>1 DEF Change, Artifact, Artifacts
<1> QED BY <1>2 DEF Change, Artifact, Shaped

\* The control stack less its last agent.
LEMMA FrontIs ==
    ASSUME frames \in Seq(Agents), Subagent
    PROVE  Front(frames) \in Seq(Agents) /\ Front(frames) # <<>>
<1>1. PICK n : n = Len(frames) /\ n \in Nat /\ n > 1
    BY DEF Subagent
<1>2. Front(frames) = SubSeq(frames, 1, n - 1)
    BY <1>1 DEF Front
<1>3. n - 1 \in 1 .. n /\ n - 1 >= 1
    BY <1>1
<1>4. PICK m : m = n - 1
    OBVIOUS
<1>5. PICK s : s = SubSeq(frames, 1, m)
    OBVIOUS
<1>6. s \in Seq(Agents) /\ Len(s) = m
    BY <1>1, <1>3, <1>4, <1>5
<1>7. s # <<>>
    <2>1. m # 0
        BY <1>1, <1>3, <1>4
    <2> QED BY <1>6, <2>1
<1> QED BY <1>2, <1>4, <1>5, <1>6, <1>7

LEMMA CloseKeeps ==
    ASSUME Session, AnswerAndClose
    PROVE  Session'
<1>1. PICK t \in task, goesOn \in IF Subagent THEN BOOLEAN ELSE {TRUE} :
        LET said == Append(t.artifacts, Artifact(
                      IF t.artifacts = <<>> THEN "assistant" ELSE "response", t.owner))
            done == history \o TaskArtifacts([t EXCEPT !.artifacts = said])
        IN  /\ AsksModel(t)
            /\ history' = IF goesOn THEN done ELSE Append(done, Change(t, "report"))
            /\ frames' = IF goesOn THEN frames ELSE Front(frames)
            /\ task' = {}
            /\ UNCHANGED <<queue, paused, offered, expired, used>>
    BY DEF AnswerAndClose, toolVars
<1>2. PICK kind, x, a, said, u, q, done :
        /\ kind = IF t.artifacts = <<>> THEN "assistant" ELSE "response"
        /\ x = Artifact(kind, t.owner) /\ a = t.artifacts /\ said = Append(a, x)
        /\ u = [t EXCEPT !.artifacts = said]
        /\ q = <<InputArtifact(t)>> \o said /\ done = history \o q
    OBVIOUS
<1>3. Busy(t, used.calls) /\ used.calls \in Nat /\ t \in Tasks /\ Waiting(t) = {}
    BY <1>1, UsedMore DEF Session, Busy, AsksModel
<1>4. Leaves(a)
    BY <1>2, <1>3, DoneLeaves
<1>5. Plainly(x)
    <2>1. t.owner \in Agents /\ <<>> \in Seq(Calls) /\ kind \in Kinds
          /\ kind \in {"assistant", "response"}
        BY <1>2, <1>3 DEF Tasks, Kinds
    <2>2. x \in Artifacts
        BY <1>2, <2>1 DEF Artifact, Artifacts
    <2> QED BY <1>2, <2>1, <2>2 DEF Plainly, Artifact, Shaped
<1>6. said = a \o <<x>> /\ said \in Seq(Artifacts)
    <2>1. a \in Seq(Artifacts) /\ x \in Artifacts
        BY <1>4, <1>5 DEF Leaves, Plainly
    <2>2. said = Append(a, x)
        BY <1>2
    <2>3. Append(a, x) = a \o <<x>> /\ Append(a, x) \in Seq(Artifacts)
        BY <2>1
    <2> QED BY <2>2, <2>3
<1>7. Leaves(said)
    BY <1>4, <1>5, <1>6, LeavesOne, LeavesBoth
<1>8. Leaves(q) /\ q # <<>> /\ q[1].kind = "input"
    BY <1>2, <1>3, <1>7, TaskLeaves
<1>9. Lawful(done) /\ done # <<>> /\ done[Len(done)].kind # "change"
    BY <1>2, <1>8, LawfulLeaves DEF Session
<1>10. TaskArtifacts(u) = q
    <2>1. u.artifacts = said /\ u.owner = t.owner /\ u.input = t.input /\ u.wake = t.wake
        BY <1>2, <1>3, <1>6 DEF Tasks
    <2>2. InputArtifact(u) = InputArtifact(t)
        BY <2>1 DEF InputArtifact
    <2> QED BY <1>2, <2>1, <2>2 DEF TaskArtifacts
<1>11. /\ history' = (IF goesOn THEN done ELSE Append(done, Change(t, "report")))
       /\ frames' = (IF goesOn THEN frames ELSE Front(frames))
       /\ task' = {} /\ UNCHANGED <<queue, paused, offered, expired, used>>
    BY <1>1, <1>2, <1>10
<1>12. Lawful(history')
    <2>1. CASE goesOn
        BY <1>9, <1>11, <2>1
    <2>2. CASE ~goesOn
        <3>1. PICK c : c = Change(t, "report")
            OBVIOUS
        <3>2. c \in Artifacts /\ Shaped(c) /\ c.kind = "change"
            BY <1>3, <3>1, ChangeIs
        <3>3. Lawful(Append(done, c))
            BY <1>9, <3>2, LawfulChange
        <3> QED BY <1>11, <2>2, <3>1, <3>3
    <2> QED BY <2>1, <2>2
<1>13. frames' \in Seq(Agents) /\ frames' # <<>>
    <2>1. CASE goesOn
        BY <1>11, <2>1 DEF Session
    <2>2. CASE ~goesOn
        <3>1. Subagent
            BY <2>2
        <3> QED BY <1>11, <2>2, <3>1, FrontIs DEF Session
    <2> QED BY <2>1, <2>2
<1> QED BY <1>11, <1>12, <1>13 DEF Session, Lawful, Paired

LEMMA SwitchKeeps ==
    ASSUME Session, SwitchAndClose
    PROVE  Session'
<1>1. PICK t \in task :
        LET made == Asked(t)
            last == made[CHOOSE k \in Executed(made) : Switches(made[k])].tool
            done == history \o TaskArtifacts(t)
            takenOver == queue' = Append(queue, NewInput(TRUE))
                         /\ used' = [used EXCEPT !.inputs = @ + 1]
        IN  /\ Switching(t) /\ Waiting(t) = {}
            /\ used.inputs < MaxInputs
            /\ CASE last.name = "handoff" ->
                     /\ history' = Append(done, Change(t, "handoff"))
                     /\ frames' = Append(frames, last.to)
                     /\ takenOver
                [] last.name = "return" /\ Subagent ->
                     /\ history' = Append(done, Change(t, "return"))
                     /\ frames' = Front(frames)
                     /\ takenOver
                [] OTHER -> history' = done /\ UNCHANGED <<frames, queue, used>>
            /\ task' = {}
            /\ UNCHANGED <<paused, offered, expired>>
    BY DEF SwitchAndClose, toolVars
<1>2. PICK made, k, last, done :
        /\ made = Asked(t) /\ k = CHOOSE j \in Executed(made) : Switches(made[j])
        /\ last = made[k].tool /\ done = history \o TaskArtifacts(t)
    OBVIOUS
<1>3. /\ Switching(t) /\ Waiting(t) = {} /\ task' = {}
      /\ UNCHANGED <<paused, offered, expired>>
    BY <1>1
<1>4. \/ /\ history' = Append(done, Change(t, "handoff"))
         /\ frames' = Append(frames, last.to)
         /\ queue' = Append(queue, NewInput(TRUE)) /\ used' = [used EXCEPT !.inputs = @ + 1]
      \/ /\ Subagent
         /\ history' = Append(done, Change(t, "return"))
         /\ frames' = Front(frames)
         /\ queue' = Append(queue, NewInput(TRUE)) /\ used' = [used EXCEPT !.inputs = @ + 1]
      \/ history' = done /\ UNCHANGED <<frames, queue, used>>
    BY <1>1, <1>2
<1>5. Busy(t, used.calls) /\ used.calls \in Nat /\ t \in Tasks
    BY <1>1, UsedMore DEF Session, Busy
<1>6. last.to \in Agents
    <2>1. t.artifacts # <<>> /\ k \in Executed(made)
        BY <1>2, <1>3 DEF Switching
    <2>2. PICK a : a = t.artifacts
        OBVIOUS
    <2>3. PICK p : LastMessage(a, p) /\ Before(a, p)
        BY <1>5, <2>1, <2>2 DEF Busy, Exchange
    <2>4. PICK c : c = a[p].calls
        OBVIOUS
    <2>5. made = c /\ c \in Seq(Calls)
        BY <1>2, <1>5, <2>2, <2>3, <2>4, WaitingIs
    <2>6. k \in 1 .. Len(c)
        BY <2>1, <2>5, ExecutedIs, LenProperties
    <2>7. c[k] \in Calls
        BY <2>5, <2>6, ElementOfSeq
    <2> QED BY <1>2, <2>5, <2>7 DEF Calls, Tools
<1>7. Lawful(done) /\ done # <<>> /\ done[Len(done)].kind # "change"
    <2>1. PICK a, q : a = t.artifacts /\ q = <<InputArtifact(t)>> \o a
        OBVIOUS
    <2>2. Leaves(a)
        BY <1>3, <1>5, <2>1, DoneLeaves
    <2>3. Leaves(q) /\ q # <<>> /\ q[1].kind = "input"
        BY <1>5, <2>1, <2>2, TaskLeaves
    <2>4. done = history \o q
        BY <1>2, <2>1 DEF TaskArtifacts
    <2> QED BY <2>3, <2>4, LawfulLeaves DEF Session
<1>8. ASSUME NEW why \in {"handoff", "return"}
      PROVE  Lawful(Append(done, Change(t, why)))
    <2>1. PICK c : c = Change(t, why)
        OBVIOUS
    <2>2. c \in Artifacts /\ Shaped(c) /\ c.kind = "change"
        BY <1>5, <2>1, ChangeIs
    <2>3. Lawful(Append(done, c))
        BY <1>7, <2>2, LawfulChange
    <2> QED BY <2>1, <2>3
<1>9. Lawful(history')
    BY <1>4, <1>7, <1>8
<1>10. frames' \in Seq(Agents) /\ frames' # <<>>
    <2>1. frames \in Seq(Agents) /\ frames # <<>>
        BY DEF Session
    <2>2. PICK x : x = last.to /\ x \in Agents
        BY <1>6
    <2>3. Append(frames, x) \in Seq(Agents) /\ Append(frames, x) # <<>>
        BY <2>1, <2>2
    <2>4. Subagent => Front(frames) \in Seq(Agents) /\ Front(frames) # <<>>
        BY <2>1, FrontIs
    <2> QED BY <1>4, <2>1, <2>2, <2>3, <2>4
<1>11. Append(queue, NewInput(TRUE)) \in Seq([id : Nat, wake : BOOLEAN])
    <2>1. PICK I, x : I = [id : Nat, wake : BOOLEAN] /\ x = NewInput(TRUE)
        OBVIOUS
    <2>2. used.inputs + 1 \in Nat
        BY UsedMore DEF Session
    <2>3. queue \in Seq(I) /\ x \in I
        BY <2>1, <2>2 DEF Session, NewInput
    <2>4. Append(queue, x) \in Seq(I)
        BY <2>3
    <2> QED BY <2>1, <2>4
<1>12. /\ queue' \in Seq([id : Nat, wake : BOOLEAN])
       /\ used' \in [inputs : Nat, calls : Nat, pauses : Nat, withdrawn : Nat]
       /\ used'.calls = used.calls
    <2>1. used.inputs + 1 \in Nat
        BY UsedMore DEF Session
    <2>2. PICK v : v = [used EXCEPT !.inputs = used.inputs + 1]
        OBVIOUS
    <2>3. v \in [inputs : Nat, calls : Nat, pauses : Nat, withdrawn : Nat]
          /\ v.calls = used.calls
        BY <2>1, <2>2, UsedMore DEF Session
    <2>4. (queue' = Append(queue, NewInput(TRUE)) /\ used' = v)
          \/ (queue' = queue /\ used' = used)
        BY <1>4, <2>2
    <2> QED BY <1>11, <2>3, <2>4 DEF Session
<1>13. \A u \in task' \cup paused' : Busy(u, used'.calls)
    BY <1>3, <1>12 DEF Session
<1> QED BY <1>3, <1>9, <1>10, <1>12, <1>13 DEF Session, Lawful, Paired

LEMMA WithdrawKeeps ==
    ASSUME Session, WithdrawTool
    PROVE  Session'
<1>1. /\ offered' \subseteq offered /\ used' = [used EXCEPT !.withdrawn = @ + 1]
      /\ UNCHANGED <<history, frames, queue, paused, task, expired>>
    BY DEF WithdrawTool, sessionVars
<1>2. used.withdrawn + 1 \in Nat
    BY UsedMore DEF Session
<1>3. used' \in [inputs : Nat, calls : Nat, pauses : Nat, withdrawn : Nat]
      /\ used'.calls = used.calls
    BY <1>1, <1>2, UsedMore DEF Session
<1> QED BY <1>1, <1>3 DEF Session, Lawful, Paired

LEMMA ExpireKeeps ==
    ASSUME Session, Expire
    PROVE  Session'
<1>1. PICK i \in DOMAIN history : /\ history[i].kind = "result"
                                  /\ expired' = expired \cup {history[i].call}
    BY DEF Expire
<1>2. UNCHANGED <<history, frames, queue, paused, task, offered, used>>
    BY DEF Expire, sessionVars
<1>3. i \in 1 .. Len(history) /\ history \in Seq(Artifacts)
    BY LenProperties DEF Session, Lawful
<1>4. history[i] \in Artifacts
    BY <1>3, ElementOfSeq
<1>5. history[i].call \in Nat \ {0}
    BY <1>1, <1>3, <1>4 DEF Session, Lawful, Shaped, Artifacts
<1>6. expired' \subseteq Nat \ {0}
    BY <1>1, <1>5 DEF Session
<1> QED BY <1>2, <1>6 DEF Session

LEMMA SessionNext ==
    Session /\ [Next]_vars => Session'
<1> SUFFICES ASSUME Session, [Next]_vars PROVE Session'
    OBVIOUS
<1>1. CASE Submit
    BY <1>1, SubmitKeeps
<1>2. CASE StartTask
    BY <1>2, StartKeeps
<1>3. CASE ResumeTask
    BY <1>3, ResumeKeeps
<1>4. CASE PauseTask
    BY <1>4, PauseKeeps
<1>5. CASE AnswerWithCalls
    BY <1>5, MessageKeeps
<1>6. CASE ExecuteTool
    BY <1>6, ExecuteKeeps
<1>7. CASE AnswerAndClose
    BY <1>7, CloseKeeps
<1>8. CASE SwitchAndClose
    BY <1>8, SwitchKeeps
<1>9. CASE WithdrawTool
    BY <1>9, WithdrawKeeps
<1>10. CASE Expire
    BY <1>10, ExpireKeeps
<1>11. CASE UNCHANGED vars
    BY <1>11 DEF vars, Session
<1> QED BY <1>1, <1>2, <1>3, <1>4, <1>5, <1>6, <1>7, <1>8, <1>9, <1>10, <1>11 DEF Next

LEMMA SessionKept ==
    Session => Recorded
BY UsedMore DEF Session, Recorded

-----------------------------------------------------------------------------
(* The theorems.                                                            *)

\* The session keeps the history, the tasks and the control stack as the handlers
\* of the runtime and of the tools leave them.
THEOREM SessionInvariant == Spec => []Session
<1>1. Init => Session
    BY SessionInit
<1>2. Session /\ [Next]_vars => Session'
    BY SessionNext
<1> QED BY <1>1, <1>2, PTL DEF Spec

\* Whatever agent is called and however its rounds were shortened, the calls of a
\* message up to a change of control are answered by the results behind it, and no
\* result stands elsewhere (_artifact_to_llm_messages, _collect_tool_loop_artifacts).
THEOREM EveryCallAnswered == Spec => []CallsAnsweredToSwitch
<1>1. Session => CallsAnsweredToSwitch
    BY SessionKept, CallsAnswered
<1> QED BY <1>1, SessionInvariant, PTL

\* What the other agents did since each round of the agent is carried by exactly one
\* message, the agent's own rounds are told in order and at most once, and a round
\* that is not told rested on an expired result
\* (_merge_group_input_to_normal_history_round_groups).
THEOREM EverythingToldOnce == Spec => []ToldOnce
<1>1. Session => ToldOnce
    BY SessionKept, AllToldOnce
<1> QED BY <1>1, SessionInvariant, PTL

\* Whatever follows an expired result in its round is read after the note that says
\* so, in the agent's own rounds and in the group inputs
\* (_build_history_round_llm_messages).
THEOREM NoConclusionStale == Spec => []NoStaleConclusion
<1>1. Session => NoStaleConclusion
    BY SessionKept, NoneStale
<1> QED BY <1>1, SessionInvariant, PTL
=============================================================================
