------------------------- MODULE ModelRequestsProofs -------------------------
(***************************************************************************)
(* That every request a provider gets is well formed: the results of a     *)
(* round of tools stand behind their calls (ResultsFollowCalls), and the   *)
(* question that is being answered is not lost (QuestionSurvives).         *)
(*                                                                         *)
(* TalkInv says how the messages of a session look.  What is sent of them  *)
(* is followed step by step: the thinking is dropped, rounds of tools are  *)
(* left out whole, long results are cut (TrimmedLooks), a summary takes    *)
(* the place of what lies between the first question and the recent        *)
(* messages and the window then has nothing to cut (WindowKeeps), the      *)
(* notes of the run come last (NotesLast), and each message becomes one or *)
(* several on the wire (FlattenParts, WireOfAny, WireOfResults).           *)
(***************************************************************************)
EXTENDS ModelRequests, FiniteSetTheorems, SequenceTheorems, TLAPS

-----------------------------------------------------------------------------
\* Lists: what is kept of one, and several made one.

\* A set of positions that is not empty has a first one: proofs by induction
\* below look at the first position where what they show would fail.
LEMMA LeastPosition ==
    ASSUME NEW T \in SUBSET Nat, T # {}
    PROVE  \E m \in T : \A n \in T : m <= n
<1> DEFINE below == {0..n : n \in T}
           R == StrictSubsetOrdering(Nat)
<1>1. IsWellFoundedOn(R, FiniteSubsetsOf(Nat))
  BY FS_StrictSubsetOrderingWellFounded
<1>2. below \subseteq FiniteSubsetsOf(Nat) /\ below # {}
  <2>1. \A n \in T : 0..n \in SUBSET Nat /\ IsFiniteSet(0..n)
    BY FS_Interval
  <2> QED BY <2>1 DEF FiniteSubsetsOf
<1> HIDE DEF R, below
<1>3. PICK U \in below : \A V \in below : ~ (<<V, U>> \in R)
  BY <1>1, <1>2, WFMin
<1>4. PICK m \in T : U = 0..m
  BY DEF below
<1>5. ASSUME NEW n \in T, n < m PROVE FALSE
  <2>1. 0..n \in below BY DEF below
  <2>2. 0..n \subseteq 0..m /\ m \in 0..m /\ m \notin 0..n BY <1>5
  <2>3. 0..n \in SUBSET Nat /\ 0..m \in SUBSET Nat OBVIOUS
  <2>4. <<0..n, 0..m>> \in R BY <2>2, <2>3 DEF R, StrictSubsetOrdering
  <2> QED BY <2>1, <2>4, <1>3, <1>4
<1>6. \A n \in T : m <= n
  BY <1>5
<1> QED BY <1>6

\* Strictly increasing positions.
Increasing(at) == \A i, j \in DOMAIN at : i < j => at[i] < at[j]
Lists(at, P) ==
    /\ at \in Seq(Nat) /\ Increasing(at)
    /\ {at[k] : k \in DOMAIN at} = P
Taken(s, at) == [k \in 1..Len(at) |-> s[at[k]]]

Upto(s, at, f) ==
    f = [n \in 0..Len(s) |->
            IF n = 0 THEN <<>>
            ELSE IF n \in at THEN Append(f[n - 1], s[n]) ELSE f[n - 1]]

\* What Kept computes: a list that grows with the positions.
LEMMA KeptUnfolds ==
    ASSUME NEW S, NEW s \in Seq(S), NEW P
    PROVE  \E f : Upto(s, P, f) /\ Kept(s, P) = f[Len(s)]
<1> DEFINE step(g, n) ==
             IF n = 0 THEN <<>> ELSE IF n \in P THEN Append(g[n - 1], s[n]) ELSE g[n - 1]
           Eq(g, m) == g = [n \in 0..m |-> step(g, n)]
           bad == {m \in Nat : m <= Len(s) /\ ~ \E g : Eq(g, m)}
<1>1. ASSUME bad # {} PROVE FALSE
  <2>1. PICK m \in bad : \A n \in bad : m <= n
    <3>1. bad \in SUBSET Nat OBVIOUS
    <3> QED BY <1>1, <3>1, LeastPosition
  <2>2. m # 0
    <3> DEFINE none == [n \in 0..0 |-> <<>>]
    <3>1. \A n \in 0..0 : n = 0 /\ step(none, n) = <<>> OBVIOUS
    <3> HIDE DEF step
    <3>2. Eq(none, 0) BY <3>1
    <3> QED BY <2>1, <3>2
  <2>3. m - 1 \in Nat /\ m - 1 \notin bad /\ m - 1 <= Len(s)
    <3> HIDE DEF Eq
    <3>1. m \in Nat /\ m <= Len(s) BY <2>1
    <3>2. m - 1 \in Nat /\ m - 1 < m /\ m - 1 <= Len(s) BY <3>1, <2>2
    <3>3. m - 1 \notin bad
      <4> HIDE DEF bad
      <4>1. ~ (m <= m - 1) BY <3>1
      <4> QED BY <2>1, <4>1
    <3> QED BY <3>2, <3>3
  <2>4. PICK g : Eq(g, m - 1)
    BY <2>3
  <2> DEFINE h == [n \in 0..m |-> IF n = m THEN step(g, m) ELSE g[n]]
  <2>5. \A n \in 0..m : h[n] = step(h, n)
    <3> TAKE n \in 0..m
    <3>1. CASE n = m
      <4>1. m - 1 \in 0..m /\ h[m - 1] = g[m - 1] BY <2>2
      <4> QED BY <3>1, <4>1
    <3>2. CASE n # m
      <4>1. h[n] = g[n] /\ n \in 0..m - 1 BY <3>2
      <4>2. g[n] = step(g, n) BY <4>1, <2>4
      <4>3. n # 0 => h[n - 1] = g[n - 1] BY <4>1
      <4> QED BY <4>1, <4>2, <4>3
    <3> QED BY <3>1, <3>2
  <2> HIDE DEF step
  <2>6. Eq(h, m) BY <2>5
  <2> QED BY <2>1, <2>6
<1>2. PICK f : Eq(f, Len(s))
  <2> HIDE DEF Eq
  <2>1. Len(s) \in Nat /\ Len(s) <= Len(s) OBVIOUS
  <2>2. Len(s) \notin bad BY <1>1
  <2> QED BY <2>1, <2>2
<1> HIDE DEF bad
<1>3. \E g : Upto(s, P, g)
  BY <1>2 DEF Upto
<1> DEFINE c == CHOOSE g : Upto(s, P, g)
<1>4. Kept(s, P) = c[Len(s)]
  BY Zenon DEF Kept, Upto
<1> HIDE DEF Eq
<1>5. Upto(s, P, c)
  BY <1>3
<1> QED BY <1>4, <1>5

\* What is kept stands at positions of the list, in their order.
LEMMA KeptLists ==
    ASSUME NEW S, NEW s \in Seq(S), NEW P, P \subseteq 1..Len(s)
    PROVE  \E at : Lists(at, P) /\ Kept(s, P) = Taken(s, at)
<1>1. PICK f : Upto(s, P, f) /\ Kept(s, P) = f[Len(s)]
  BY KeptUnfolds
<1> DEFINE Good(n) == \E at : Lists(at, P \cap 1..n) /\ f[n] = Taken(s, at)
           bad == {n \in Nat : n <= Len(s) /\ ~Good(n)}
<1>2. Good(0)
  <2>1. f[0] = <<>>
    <3>1. 0 \in 0..Len(s) OBVIOUS
    <3> QED BY <1>1, <3>1 DEF Upto
  <2>2. Lists(<<>>, P \cap 1..0) BY DEF Lists, Increasing
  <2>3. Taken(s, <<>>) = <<>> BY DEF Taken
  <2> QED BY <2>1, <2>2, <2>3
<1>3. ASSUME NEW n \in Nat, n # 0, n <= Len(s), Good(n - 1) PROVE Good(n)
  <2>1. PICK at : Lists(at, P \cap 1..n - 1) /\ f[n - 1] = Taken(s, at)
    BY <1>3
  <2>2. f[n] = IF n \in P THEN Append(f[n - 1], s[n]) ELSE f[n - 1]
    <3>1. n \in 0..Len(s) BY <1>3
    <3> QED BY <1>1, <1>3, <3>1 DEF Upto
  <2>3. CASE n \notin P
    <3>1. P \cap 1..n = P \cap 1..n - 1 BY <2>3, <1>3
    <3> QED BY <2>1, <2>2, <2>3, <3>1
  <2>4. CASE n \in P
    <3> DEFINE more == Append(at, n)
    <3>1. at \in Seq(Nat) /\ Increasing(at) /\ {at[k] : k \in DOMAIN at} = P \cap 1..n - 1
      BY <2>1 DEF Lists
    <3>2. more \in Seq(Nat) /\ Len(more) = Len(at) + 1 /\ more[Len(at) + 1] = n
            /\ \A k \in 1..Len(at) : more[k] = at[k]
      BY <3>1
    <3>3. \A k \in 1..Len(at) : at[k] < n /\ at[k] \in 1..Len(s)
      <4> TAKE k \in 1..Len(at)
      <4>1. at[k] \in P \cap 1..n - 1 BY <3>1
      <4> QED BY <4>1, <1>3
    <3>4. Increasing(more)
      BY <3>1, <3>2, <3>3 DEF Increasing
    <3>5. {more[k] : k \in DOMAIN more} = P \cap 1..n
      <4>1. DOMAIN more = 1..Len(at) + 1 BY <3>2
      <4>2. \A x : x \in P \cap 1..n <=> x = n \/ x \in P \cap 1..n - 1 BY <2>4, <1>3
      <4>3. \A x : x \in P \cap 1..n - 1 <=> \E k \in 1..Len(at) : at[k] = x BY <3>1
      <4>4. \A x : (\E k \in 1..Len(at) + 1 : more[k] = x) <=> x = n \/ \E k \in 1..Len(at) : at[k] = x
        BY <3>1, <3>2
      <4> QED BY <4>1, <4>2, <4>3, <4>4
    <3>6. f[n] = Taken(s, more)
      <4>1. f[n - 1] \in Seq(S)
        <5>1. \A k \in 1..Len(at) : s[at[k]] \in S BY <3>3
        <5> QED BY <2>1, <3>1, <5>1 DEF Taken
      <4>2. f[n - 1] = [k \in 1..Len(at) |-> s[at[k]]] BY <2>1 DEF Taken
      <4>3. Len(f[n - 1]) = Len(at) BY <4>1, <4>2, <3>1
      <4>4. Append(f[n - 1], s[n]) = [k \in 1..Len(at) + 1 |-> IF k = Len(at) + 1 THEN s[n] ELSE f[n - 1][k]]
        BY <4>1, <4>3, <1>3
      <4> QED BY <2>2, <2>4, <4>2, <4>4, <3>2 DEF Taken
    <3> HIDE DEF more
    <3> QED BY <3>2, <3>4, <3>5, <3>6 DEF Lists
  <2> QED BY <2>3, <2>4
<1>4. bad = {}
  <2> SUFFICES ASSUME bad # {} PROVE FALSE OBVIOUS
  <2> HIDE DEF Good
  <2>1. PICK m \in bad : \A n \in bad : m <= n
    <3>1. bad \in SUBSET Nat OBVIOUS
    <3> QED BY <3>1, LeastPosition
  <2>2. m # 0 BY <1>2, <2>1
  <2>3. m - 1 \in Nat /\ m - 1 <= Len(s) /\ m - 1 \notin bad BY <2>1, <2>2
  <2>4. Good(m - 1) BY <2>3
  <2> QED BY <2>1, <2>2, <2>4, <1>3
<1>5. Good(Len(s))
  <2> HIDE DEF Good
  <2>1. Len(s) \in Nat OBVIOUS
  <2> QED BY <1>4, <2>1
<1>6. P \cap 1..Len(s) = P OBVIOUS
<1> QED BY <1>1, <1>5, <1>6

Joined(seqs, f) ==
    f = [i \in 1..Len(seqs) |-> IF i = 1 THEN seqs[i] ELSE f[i - 1] \o seqs[i]]

\* What FlattenSeq computes: a list that grows with the parts.
LEMMA FlattenUnfolds ==
    ASSUME NEW S, NEW seqs \in Seq(Seq(S)), seqs # <<>>
    PROVE  \E f : Joined(seqs, f) /\ FlattenSeq(seqs) = f[Len(seqs)]
<1> DEFINE step(g, i) == IF i = 1 THEN seqs[i] ELSE g[i - 1] \o seqs[i]
           Eq(g, m) == g = [i \in 1..m |-> step(g, i)]
           bad == {m \in Nat : m <= Len(seqs) /\ ~ \E g : Eq(g, m)}
<1>1. ASSUME bad # {} PROVE FALSE
  <2>1. PICK m \in bad : \A n \in bad : m <= n
    <3>1. bad \in SUBSET Nat OBVIOUS
    <3> QED BY <1>1, <3>1, LeastPosition
  <2>2. m # 0
    <3> DEFINE none == [i \in 1..0 |-> <<>>]
    <3>1. \A i \in 1..0 : FALSE OBVIOUS
    <3> HIDE DEF step
    <3>2. Eq(none, 0) BY <3>1
    <3> QED BY <2>1, <3>2
  <2>3. m \in Nat /\ m - 1 \in Nat /\ m - 1 \notin bad /\ m - 1 <= Len(seqs)
    <3> HIDE DEF Eq
    <3>1. m \in Nat /\ m <= Len(seqs) BY <2>1
    <3>2. m - 1 \in Nat /\ m - 1 <= Len(seqs) BY <3>1, <2>2
    <3>3. m - 1 \notin bad
      <4> HIDE DEF bad
      <4>1. ~ (m <= m - 1) BY <3>1
      <4> QED BY <2>1, <4>1
    <3> QED BY <3>1, <3>2, <3>3
  <2>4. PICK g : Eq(g, m - 1)
    BY <2>3
  <2> DEFINE h == [i \in 1..m |-> IF i = m THEN step(g, m) ELSE g[i]]
  <2>5. \A i \in 1..m : h[i] = step(h, i)
    <3> TAKE i \in 1..m
    <3>1. CASE i = m
      <4>1. i # 1 => m - 1 \in 1..m /\ h[m - 1] = g[m - 1] BY <2>3, <3>1
      <4> QED BY <3>1, <4>1
    <3>2. CASE i # m
      <4>1. h[i] = g[i] /\ i \in 1..m - 1 BY <3>2, <2>3
      <4>2. g[i] = step(g, i) BY <4>1, <2>4
      <4>3. i # 1 => h[i - 1] = g[i - 1] BY <4>1, <2>3
      <4> QED BY <4>1, <4>2, <4>3
    <3> QED BY <3>1, <3>2
  <2> HIDE DEF step
  <2>6. Eq(h, m) BY <2>5
  <2> QED BY <2>1, <2>6
<1>2. PICK f : Eq(f, Len(seqs))
  <2> HIDE DEF Eq
  <2>1. Len(seqs) \in Nat /\ Len(seqs) <= Len(seqs) OBVIOUS
  <2>2. Len(seqs) \notin bad BY <1>1
  <2> QED BY <2>1, <2>2
<1> HIDE DEF bad
<1>3. \E g : Joined(seqs, g)
  BY <1>2 DEF Joined
<1> DEFINE c == CHOOSE g : Joined(seqs, g)
<1>4. FlattenSeq(seqs) = c[Len(seqs)]
  <2>1. Len(seqs) # 0 OBVIOUS
  <2> QED BY <2>1, Zenon DEF FlattenSeq, Joined
<1> HIDE DEF Eq
<1>5. Joined(seqs, c)
  BY <1>3
<1> QED BY <1>4, <1>5

\* A list made of the first m parts: where each part ends in it.
Parts(flat, seqs, m, ends) ==
    /\ ends \in [0..m -> Nat] /\ ends[0] = 0 /\ ends[m] = Len(flat)
    /\ \A i \in 1..m : ends[i] = ends[i - 1] + Len(seqs[i])
    /\ \A i \in 1..m : \A k \in 1..Len(seqs[i]) :
         ends[i - 1] + k \in 1..Len(flat) /\ flat[ends[i - 1] + k] = seqs[i][k]
    /\ \A n \in 1..Len(flat) : \E i \in 1..m : \E k \in 1..Len(seqs[i]) : n = ends[i - 1] + k

\* A list that is made of one part.
LEMMA OnePart ==
    ASSUME NEW S, NEW seqs \in Seq(Seq(S)), seqs # <<>>
    PROVE  \E ends : Parts(seqs[1], seqs, 1, ends)
<1> DEFINE ends == [i \in 0..1 |-> IF i = 0 THEN 0 ELSE Len(seqs[1])]
<1>1. seqs[1] \in Seq(S) OBVIOUS
<1>2. ends[0] = 0 /\ ends[1] = Len(seqs[1]) /\ ends \in [0..1 -> Nat] BY <1>1
<1>3. \A i \in 1..1 : i = 1 /\ i - 1 = 0 OBVIOUS
<1>4. \A n \in 1..Len(seqs[1]) : \E i \in 1..1 : \E k \in 1..Len(seqs[i]) : n = ends[i - 1] + k
  <2> TAKE n \in 1..Len(seqs[1])
  <2>1. n = ends[1 - 1] + n BY <1>2
  <2> QED BY <2>1
<1>5. \A k \in 1..Len(seqs[1]) : 0 + k = k BY <1>1
<1> HIDE DEF ends
<1> QED BY <1>1, <1>2, <1>3, <1>4, <1>5 DEF Parts

\* A list of parts with one part more.
LEMMA MorePart ==
    ASSUME NEW S, NEW seqs \in Seq(Seq(S)), NEW m \in 1..Len(seqs) - 1,
           NEW flat \in Seq(S), NEW ends, Parts(flat, seqs, m, ends)
    PROVE  \E more : Parts(flat \o seqs[m + 1], seqs, m + 1, more)
<1> DEFINE part == seqs[m + 1]
           more == [i \in 0..m + 1 |-> IF i = m + 1 THEN Len(flat) + Len(part) ELSE ends[i]]
           whole == flat \o part
<1>1. part \in Seq(S) /\ Len(part) \in Nat /\ m \in Nat
  <2>1. m + 1 \in 1..Len(seqs) OBVIOUS
  <2> QED BY <2>1
<1>2. /\ Len(whole) = Len(flat) + Len(part)
      /\ \A n \in 1..Len(flat) : whole[n] = flat[n]
      /\ \A n \in 1..Len(part) : whole[Len(flat) + n] = part[n]
  BY <1>1
<1>3. /\ more \in [0..m + 1 -> Nat] /\ more[m + 1] = Len(flat) + Len(part)
      /\ \A i \in 0..m : more[i] = ends[i]
  <2>1. ends \in [0..m -> Nat] BY DEF Parts
  <2> QED BY <2>1, <1>1
<1>4. more[0] = 0 BY <1>3, <1>1 DEF Parts
<1>5. more[m] = Len(flat) BY <1>3, <1>1 DEF Parts
<1> HIDE DEF more, part, whole
<1>6. \A i \in 1..m + 1 : more[i] = more[i - 1] + Len(seqs[i])
  <2> TAKE i \in 1..m + 1
  <2>1. CASE i = m + 1
    BY <2>1, <1>3, <1>5, <1>1 DEF part
  <2>2. CASE i # m + 1
    <3>1. i \in 1..m /\ i \in 0..m /\ i - 1 \in 0..m BY <2>2, <1>1
    <3>2. ends[i] = ends[i - 1] + Len(seqs[i]) BY <3>1 DEF Parts
    <3> QED BY <3>1, <3>2, <1>3
  <2> QED BY <2>1, <2>2
<1>7. ASSUME NEW i \in 1..m + 1, NEW k \in 1..Len(seqs[i])
      PROVE  more[i - 1] + k \in 1..Len(whole) /\ whole[more[i - 1] + k] = seqs[i][k]
  <2>1. CASE i = m + 1
    <3>1. k \in 1..Len(part) /\ more[i - 1] = Len(flat) BY <2>1, <1>5, <1>1 DEF part
    <3>2. whole[Len(flat) + k] = part[k] BY <3>1, <1>2
    <3>3. Len(flat) + k \in 1..Len(whole) BY <3>1, <1>1, <1>2
    <3> QED BY <2>1, <3>1, <3>2, <3>3 DEF part
  <2>2. CASE i # m + 1
    <3>1. i \in 1..m /\ i - 1 \in 0..m BY <2>2, <1>1
    <3>2. ends[i - 1] + k \in 1..Len(flat) /\ flat[ends[i - 1] + k] = seqs[i][k]
      BY <3>1 DEF Parts
    <3>3. more[i - 1] = ends[i - 1] BY <3>1, <1>3
    <3>4. \A n \in 1..Len(flat) : n \in 1..Len(whole) BY <1>1, <1>2
    <3> QED BY <3>2, <3>3, <3>4, <1>2
  <2> QED BY <2>1, <2>2
<1>8. ASSUME NEW n \in 1..Len(whole)
      PROVE  \E i \in 1..m + 1 : \E k \in 1..Len(seqs[i]) : n = more[i - 1] + k
  <2>1. CASE n <= Len(flat)
    <3>1. PICK i \in 1..m : \E k \in 1..Len(seqs[i]) : n = ends[i - 1] + k
      BY <2>1 DEF Parts
    <3>2. i \in 1..m + 1 /\ i - 1 \in 0..m BY <1>1
    <3>3. more[i - 1] = ends[i - 1] BY <3>2, <1>3
    <3> QED BY <3>1, <3>2, <3>3
  <2>2. CASE n > Len(flat)
    <3>1. n - Len(flat) \in 1..Len(part) BY <2>2, <1>1, <1>2
    <3>2. n = more[(m + 1) - 1] + (n - Len(flat))
      <4>1. (m + 1) - 1 = m /\ Len(flat) \in Nat /\ n \in Nat BY <1>1
      <4>2. n = Len(flat) + (n - Len(flat)) BY <4>1
      <4> QED BY <4>1, <4>2, <1>5
    <3>3. m + 1 \in 1..m + 1 BY <1>1
    <3> QED BY <3>1, <3>2, <3>3 DEF part
  <2> QED BY <2>1, <2>2, <1>1, <1>2
<1>9. Parts(whole, seqs, m + 1, more)
  BY <1>2, <1>3, <1>4, <1>6, <1>7, <1>8 DEF Parts
<1> QED BY <1>9 DEF whole, part

\* A list of lists made one: each part stands in it, behind the one before.
LEMMA FlattenParts ==
    ASSUME NEW S, NEW seqs \in Seq(Seq(S)), seqs # <<>>
    PROVE  /\ FlattenSeq(seqs) \in Seq(S)
           /\ \E ends : Parts(FlattenSeq(seqs), seqs, Len(seqs), ends)
<1>1. PICK f : Joined(seqs, f) /\ FlattenSeq(seqs) = f[Len(seqs)]
  BY FlattenUnfolds
<1> DEFINE Good(n) == f[n] \in Seq(S) /\ \E ends : Parts(f[n], seqs, n, ends)
           bad == {n \in Nat : n \in 1..Len(seqs) /\ ~Good(n)}
<1>2. Len(seqs) \in Nat /\ Len(seqs) >= 1 OBVIOUS
<1>3. Good(1)
  <2>1. f[1] = seqs[1]
    <3>1. 1 \in 1..Len(seqs) BY <1>2
    <3> QED BY <1>1, <3>1 DEF Joined
  <2>2. seqs[1] \in Seq(S) BY <1>2
  <2> QED BY <2>1, <2>2, OnePart
<1>4. ASSUME NEW n \in Nat, n # 1, n \in 1..Len(seqs), Good(n - 1) PROVE Good(n)
  <2>1. f[n] = f[n - 1] \o seqs[n] BY <1>1, <1>4 DEF Joined
  <2>2. n - 1 \in 1..Len(seqs) - 1 /\ (n - 1) + 1 = n BY <1>4
  <2>3. PICK ends : Parts(f[n - 1], seqs, n - 1, ends) BY <1>4
  <2>4. \E more : Parts(f[n - 1] \o seqs[n - 1 + 1], seqs, n - 1 + 1, more)
    BY <2>2, <2>3, <1>4, MorePart
  <2>5. seqs[n] \in Seq(S) BY <1>4
  <2>6. f[n] \in Seq(S) BY <2>1, <2>5, <1>4
  <2> QED BY <2>1, <2>2, <2>4, <2>6
<1> HIDE DEF Good
<1>5. bad = {}
  <2> SUFFICES ASSUME bad # {} PROVE FALSE OBVIOUS
  <2>1. PICK m \in bad : \A n \in bad : m <= n
    <3>1. bad \in SUBSET Nat OBVIOUS
    <3> QED BY <3>1, LeastPosition
  <2>2. m # 1 /\ m \in Nat /\ m \in 1..Len(seqs) BY <1>3, <2>1
  <2>3. m - 1 \in Nat /\ m - 1 \in 1..Len(seqs) BY <2>2
  <2>4. m - 1 \notin bad
    <3> HIDE DEF bad
    <3>1. ~ (m <= m - 1) BY <2>2
    <3> QED BY <2>1, <3>1
  <2>5. Good(m - 1) BY <2>3, <2>4
  <2> QED BY <2>1, <2>2, <2>5, <1>4
<1>6. Good(Len(seqs))
  BY <1>2, <1>5
<1> QED BY <1>1, <1>6 DEF Good

-----------------------------------------------------------------------------
\* The messages of a session.

Elements(s) == {s[n] : n \in DOMAIN s}

\* What is left of a list, as a list and as a set.
LEMMA KeptElements ==
    ASSUME NEW S, NEW s \in Seq(S), NEW P, P \subseteq 1..Len(s)
    PROVE  /\ Kept(s, P) \in Seq(S)
           /\ Elements(Kept(s, P)) = {s[n] : n \in P}
<1>1. PICK at : Lists(at, P) /\ Kept(s, P) = Taken(s, at)
  BY KeptLists
<1>2. at \in Seq(Nat) /\ \A k \in 1..Len(at) : at[k] \in P
  BY <1>1 DEF Lists
<1>3. \A n \in P : \E k \in 1..Len(at) : at[k] = n
  BY <1>1 DEF Lists
<1>4. Kept(s, P) = [k \in 1..Len(at) |-> s[at[k]]]
  BY <1>1 DEF Taken
<1>5. \A k \in 1..Len(at) : s[at[k]] \in S
  BY <1>2
<1>6. Len(at) \in Nat /\ Kept(s, P) \in Seq(S) /\ DOMAIN Kept(s, P) = 1..Len(at)
  BY <1>2, <1>4, <1>5
<1>7. \A k \in 1..Len(at) : Kept(s, P)[k] = s[at[k]]
  BY <1>4
<1> HIDE DEF Kept
<1>8. \A x : (\E k \in 1..Len(at) : s[at[k]] = x) <=> \E n \in P : s[n] = x
  BY <1>2, <1>3
<1>9. \A x : (\E k \in DOMAIN Kept(s, P) : Kept(s, P)[k] = x) <=> \E k \in 1..Len(at) : s[at[k]] = x
  BY <1>6, <1>7
<1> QED BY <1>6, <1>8, <1>9 DEF Elements

\* The blocks of some kinds.
LEMMA OnlyElements ==
    ASSUME NEW S, NEW s \in Seq(S), NEW kinds
    PROVE  /\ Only(s, kinds) \in Seq(S)
           /\ Elements(Only(s, kinds)) = {x \in Elements(s) : x.kind \in kinds}
<1> DEFINE P == {n \in DOMAIN s : s[n].kind \in kinds}
<1>1. P \subseteq 1..Len(s) OBVIOUS
<1>2. Only(s, kinds) = Kept(s, P) BY DEF Only
<1>3. {s[n] : n \in P} = {x \in Elements(s) : x.kind \in kinds}
  BY DEF Elements
<1> HIDE DEF P
<1>4. Kept(s, P) \in Seq(S) /\ Elements(Kept(s, P)) = {s[n] : n \in P}
  BY <1>1, KeptElements
<1> QED BY <1>2, <1>3, <1>4

\* The blocks of all other kinds.
LEMMA OtherThanElements ==
    ASSUME NEW S, NEW s \in Seq(S), NEW kinds
    PROVE  /\ OtherThan(s, kinds) \in Seq(S)
           /\ Elements(OtherThan(s, kinds)) = {x \in Elements(s) : x.kind \notin kinds}
<1> DEFINE P == {n \in DOMAIN s : s[n].kind \notin kinds}
<1>1. P \subseteq 1..Len(s) OBVIOUS
<1>2. OtherThan(s, kinds) = Kept(s, P) BY DEF OtherThan
<1>3. {s[n] : n \in P} = {x \in Elements(s) : x.kind \notin kinds}
  BY DEF Elements
<1> HIDE DEF P
<1>4. Kept(s, P) \in Seq(S) /\ Elements(Kept(s, P)) = {s[n] : n \in P}
  BY <1>1, KeptElements
<1> QED BY <1>2, <1>3, <1>4
-----------------------------------------------------------------------------
TalkKinds == {"text", "thinking", "image", "use", "result", "note"}
BlockIds == Nat \cup (Nat \X Nat)
TalkBlocks == [kind : TalkKinds, id : BlockIds]
TalkMessages == [role : {"user", "assistant"}, blocks : Seq(TalkBlocks)]

Asks(m) == m.role = "user" /\ "text" \in Kinds(m)
Shaped(t, n) ==
    /\ t[n].role = "user" =>
         Kinds(t[n]) \in {{"text"}, {"image", "text"}, {"note"}, {"result"}}
    /\ t[n].role = "assistant" => Kinds(t[n]) \subseteq {"thinking", "text", "use"}
    /\ IdsOf(t[n], "text") \subseteq {n}
    /\ \A id \in IdsOf(t[n], "use") : id[1] = n
    /\ "result" \in Kinds(t[n]) =>
         n > 1 /\ t[n - 1].role = "assistant" /\ IdsOf(t[n], "result") = IdsOf(t[n - 1], "use")
TalkOk(t) ==
    /\ t \in Seq(TalkMessages)
    /\ \A n \in 1..Len(t) : t[n].blocks # <<>> /\ Shaped(t, n)
    /\ t # <<>> => Asks(t[1])
TalkInv == TalkOk(talk)

\* A message holds a kind of block when an id comes with it.
LEMMA KindsHaveIds == \A m, kind : kind \in Kinds(m) <=> IdsOf(m, kind) # {}
  BY DEF Kinds, IdsOf

\* A history is sound when the message that comes last is.
LEMMA TalkGrows ==
    ASSUME NEW t, TalkOk(t), NEW m \in TalkMessages, m.blocks # <<>>,
           Shaped(Append(t, m), Len(t) + 1), t = <<>> => Asks(m)
    PROVE  TalkOk(Append(t, m))
<1> DEFINE more == Append(t, m)
<1>1. t \in Seq(TalkMessages) /\ Len(t) \in Nat BY DEF TalkOk
<1>2. /\ more \in Seq(TalkMessages) /\ Len(more) = Len(t) + 1 /\ more[Len(t) + 1] = m
      /\ \A n \in 1..Len(t) : more[n] = t[n]
  BY <1>1
<1> HIDE DEF more
<1>3. ASSUME NEW n \in 1..Len(more) PROVE more[n].blocks # <<>> /\ Shaped(more, n)
  <2>1. CASE n = Len(t) + 1
    BY <2>1, <1>2 DEF more
  <2>2. CASE n # Len(t) + 1
    <3>1. n \in 1..Len(t) BY <2>2, <1>1, <1>2
    <3>2. t[n].blocks # <<>> /\ Shaped(t, n) BY <3>1 DEF TalkOk
    <3>3. more[n] = t[n] /\ (n > 1 => more[n - 1] = t[n - 1]) BY <3>1, <1>1, <1>2
    <3> QED BY <3>1, <3>2, <3>3 DEF Shaped
  <2> QED BY <2>1, <2>2
<1>4. Asks(more[1])
  <2>1. CASE t = <<>>
    BY <2>1, <1>1, <1>2
  <2>2. CASE t # <<>>
    <3>1. 1 \in 1..Len(t) BY <2>2, <1>1
    <3> QED BY <3>1, <2>2, <1>2 DEF TalkOk
  <2> QED BY <2>1, <2>2
<1> QED BY <1>2, <1>3, <1>4 DEF TalkOk, more

\* A message of one, two or three blocks.
LEMMA FewBlocks ==
    ASSUME NEW S, NEW a \in S, NEW b \in S, NEW c \in S
    PROVE  /\ <<a>> \in Seq(S) /\ <<a, b>> \in Seq(S) /\ <<a, b, c>> \in Seq(S)
           /\ <<a>> # <<>> /\ <<a, b>> # <<>> /\ <<a, b, c>> # <<>>
           /\ DOMAIN <<a>> = {1} /\ DOMAIN <<a, b>> = {1, 2} /\ DOMAIN <<a, b, c>> = {1, 2, 3}
  OBVIOUS

\* The user asks.
LEMMA TalkAsk ==
    ASSUME RequestAssumption, TalkInv, AskQuestion PROVE TalkInv'
<1>1. talk \in Seq(TalkMessages) /\ Len(talk) \in Nat BY DEF TalkInv, TalkOk
<1>2. PICK blocks \in {<<Said>>, <<Block("image", AtMessage), Said>>} :
        talk' = Append(talk, Message("user", blocks))
  BY DEF AskQuestion
<1> DEFINE m == Message("user", blocks)
           n == Len(talk) + 1
<1>3. Said \in TalkBlocks /\ Block("image", AtMessage) \in TalkBlocks
  BY <1>1 DEF Said, Block, AtMessage, TalkBlocks, TalkKinds, BlockIds
<1>4. blocks \in Seq(TalkBlocks) /\ blocks # <<>>
  <2>1. <<Said>> \in Seq(TalkBlocks) /\ <<Block("image", AtMessage), Said>> \in Seq(TalkBlocks)
    BY <1>3
  <2>2. CASE blocks = <<Said>> BY <2>1, <2>2
  <2>3. CASE blocks = <<Block("image", AtMessage), Said>> BY <2>1, <2>3
  <2> QED BY <1>2, <2>2, <2>3
<1>5. m \in TalkMessages /\ m.blocks = blocks /\ m.role = "user"
  BY <1>4 DEF Message, TalkMessages
<1>6. /\ Kinds(m) \in {{"text"}, {"image", "text"}}
      /\ IdsOf(m, "text") = {n} /\ IdsOf(m, "use") = {}
  <2>1. CASE blocks = <<Said>>
    <3>1. DOMAIN m.blocks = {1} /\ m.blocks[1] = Said BY <2>1, <1>5
    <3> QED BY <3>1 DEF Kinds, IdsOf, Said, Block, AtMessage
  <2>2. CASE blocks = <<Block("image", AtMessage), Said>>
    <3>1. DOMAIN m.blocks = {1, 2} /\ m.blocks[1] = Block("image", AtMessage) /\ m.blocks[2] = Said
      BY <2>2, <1>5
    <3>2. Kinds(m) = {"image", "text"} BY <3>1 DEF Kinds, Said, Block
    <3>3. IdsOf(m, "text") = {n} /\ IdsOf(m, "use") = {} BY <3>1 DEF IdsOf, Said, Block, AtMessage
    <3> QED BY <3>2, <3>3
  <2> QED BY <1>2, <2>1, <2>2
<1>7. Append(talk, m)[n] = m BY <1>1, <1>5
<1> HIDE DEF m
<1>8. Shaped(Append(talk, m), n) /\ Asks(m)
  BY <1>5, <1>6, <1>7 DEF Shaped, Asks
<1>9. TalkOk(Append(talk, m))
  BY <1>4, <1>5, <1>8, TalkGrows DEF TalkInv
<1> QED BY <1>2, <1>9 DEF m, TalkInv

\* The model answers in text.
LEMMA TalkAnswer ==
    ASSUME RequestAssumption, TalkInv, AnswerQuestion PROVE TalkInv'
<1>1. talk \in Seq(TalkMessages) /\ Len(talk) \in Nat /\ talk # <<>>
  BY DEF TalkInv, TalkOk, AnswerQuestion, ModelsTurn
<1> DEFINE m == Message("assistant", <<Thought, Said>>)
           n == Len(talk) + 1
<1>2. talk' = Append(talk, m) BY DEF AnswerQuestion
<1>3. Said \in TalkBlocks /\ Thought \in TalkBlocks
  BY <1>1 DEF Said, Thought, Block, AtMessage, TalkBlocks, TalkKinds, BlockIds
<1>4. <<Thought, Said>> \in Seq(TalkBlocks) BY <1>3, FewBlocks
<1>5. m \in TalkMessages /\ m.role = "assistant" /\ m.blocks = <<Thought, Said>> /\ m.blocks # <<>>
  BY <1>4 DEF Message, TalkMessages
<1>6. DOMAIN m.blocks = {1, 2} /\ m.blocks[1] = Thought /\ m.blocks[2] = Said
  BY <1>5
<1> HIDE DEF m
<1>7. Kinds(m) = {"thinking", "text"} BY <1>6 DEF Kinds, Said, Thought, Block
<1>8. IdsOf(m, "text") = {n} /\ IdsOf(m, "use") = {}
  BY <1>6 DEF IdsOf, Said, Thought, Block, AtMessage
<1>9. Append(talk, m)[n] = m BY <1>1, <1>5
<1>10. Shaped(Append(talk, m), n)
  BY <1>5, <1>7, <1>8, <1>9 DEF Shaped
<1>11. TalkOk(Append(talk, m))
  BY <1>1, <1>5, <1>10, TalkGrows DEF TalkInv
<1> QED BY <1>2, <1>11 DEF TalkInv

\* The model calls tools.
LEMMA TalkCall ==
    ASSUME RequestAssumption, TalkInv, CallTools PROVE TalkInv'
<1>1. talk \in Seq(TalkMessages) /\ Len(talk) \in Nat /\ talk # <<>>
  BY DEF TalkInv, TalkOk, CallTools, ModelsTurn
<1> DEFINE call(k) == Block("use", <<AtMessage, k>>)
           n == Len(talk) + 1
<1>2. PICK blocks \in {<<call(1)>>, <<Said, call(1)>>, <<Thought, call(1), call(2)>>} :
        talk' = Append(talk, Message("assistant", blocks))
  BY DEF CallTools
<1> DEFINE m == Message("assistant", blocks)
<1>3. /\ Said \in TalkBlocks /\ Thought \in TalkBlocks
      /\ call(1) \in TalkBlocks /\ call(2) \in TalkBlocks
  BY <1>1 DEF Said, Thought, Block, AtMessage, TalkBlocks, TalkKinds, BlockIds
<1>4. /\ Said.kind = "text" /\ Said.id = n /\ Thought.kind = "thinking"
      /\ \A k \in {1, 2} : call(k).kind = "use" /\ call(k).id[1] = n
  BY DEF Said, Thought, Block, AtMessage
<1> HIDE DEF call
<1>5. blocks \in Seq(TalkBlocks) /\ blocks # <<>>
  <2>1. <<call(1)>> \in Seq(TalkBlocks) /\ <<Said, call(1)>> \in Seq(TalkBlocks)
    BY <1>3
  <2>2. <<Thought, call(1), call(2)>> \in Seq(TalkBlocks)
    BY <1>3
  <2>3. CASE blocks = <<call(1)>> BY <2>1, <2>3
  <2>4. CASE blocks = <<Said, call(1)>> BY <2>1, <2>4
  <2>5. CASE blocks = <<Thought, call(1), call(2)>> BY <2>2, <2>5
  <2> QED BY <1>2, <2>3, <2>4, <2>5
<1>6. m \in TalkMessages /\ m.blocks = blocks /\ m.role = "assistant"
  BY <1>5 DEF Message, TalkMessages
<1> HIDE DEF m
<1>7. \A i \in DOMAIN blocks : blocks[i] \in {Said, Thought, call(1), call(2)}
  BY <1>2
<1>8. Kinds(m) \subseteq {"thinking", "text", "use"}
  BY <1>4, <1>6, <1>7 DEF Kinds
<1>9. IdsOf(m, "text") \subseteq {n} /\ \A id \in IdsOf(m, "use") : id[1] = n
  BY <1>4, <1>6, <1>7 DEF IdsOf
<1>10. Append(talk, m)[n] = m BY <1>1, <1>6
<1>11. Shaped(Append(talk, m), n)
  BY <1>6, <1>8, <1>9, <1>10 DEF Shaped
<1>12. TalkOk(Append(talk, m))
  BY <1>1, <1>5, <1>6, <1>11, TalkGrows DEF TalkInv
<1> QED BY <1>2, <1>12 DEF m, TalkInv

\* The results of the tools, and a note when a call is repeated.
LEMMA TalkReport ==
    ASSUME RequestAssumption, TalkInv, ReportResults PROVE TalkInv'
<1> DEFINE last == talk[Len(talk)]
           calls == Only(last.blocks, {"use"})
           results == [k \in DOMAIN calls |-> Block("result", calls[k].id)]
           m == Message("user", results)
           note == Message("user", <<Block("note", AtMessage + 1)>>)
           n == Len(talk) + 1
<1>1. /\ talk \in Seq(TalkMessages) /\ Len(talk) \in Nat /\ Len(talk) \in 1..Len(talk)
      /\ talk # <<>> /\ last.role = "assistant" /\ "use" \in Kinds(last)
  <2>1. talk \in Seq(TalkMessages) /\ talk # <<>> BY DEF TalkInv, TalkOk, ReportResults
  <2>2. Last(talk) = last BY DEF Last
  <2> QED BY <2>1, <2>2 DEF ReportResults
<1>2. \/ talk' = Append(talk, m)
      \/ talk' = talk \o <<m, note>>
  BY DEF ReportResults, Last
<1>3. last.blocks \in Seq(TalkBlocks)
  <2>1. last \in TalkMessages BY <1>1
  <2> QED BY <2>1 DEF TalkMessages
<1> HIDE DEF last
<1>4. calls \in Seq(TalkBlocks) /\ Elements(calls) = {x \in Elements(last.blocks) : x.kind \in {"use"}}
  BY <1>3, OnlyElements
<1> HIDE DEF calls
<1>5. DOMAIN results = 1..Len(calls) /\ results \in Seq(TalkBlocks)
  <2>1. \A k \in 1..Len(calls) : calls[k].id \in BlockIds
    <3>1. \A k \in 1..Len(calls) : calls[k] \in TalkBlocks BY <1>4
    <3> QED BY <3>1 DEF TalkBlocks
  <2>2. \A k \in 1..Len(calls) : Block("result", calls[k].id) \in TalkBlocks
    BY <2>1 DEF TalkBlocks, Block, TalkKinds
  <2>3. Len(calls) \in Nat /\ DOMAIN calls = 1..Len(calls) BY <1>4
  <2> QED BY <2>2, <2>3
<1>6. \A k \in DOMAIN results : results[k].kind = "result" /\ results[k].id = calls[k].id
  BY DEF Block
<1>7. \A id : (\E k \in DOMAIN results : results[k].id = id) <=> id \in IdsOf(last, "use")
  <2>1. \A id : (\E k \in DOMAIN results : results[k].id = id) <=> \E k \in DOMAIN calls : calls[k].id = id
    BY <1>6
  <2>2. \A id : (\E k \in DOMAIN calls : calls[k].id = id) <=> \E x \in Elements(calls) : x.id = id
    BY DEF Elements
  <2>3. \A id : (\E x \in Elements(calls) : x.id = id) <=> id \in IdsOf(last, "use")
    BY <1>4 DEF IdsOf, Elements
  <2> QED BY <2>1, <2>2, <2>3
<1> HIDE DEF results
<1>8. m \in TalkMessages /\ m.role = "user" /\ m.blocks = results
  BY <1>5 DEF Message, TalkMessages
<1> HIDE DEF m
<1>9. IdsOf(m, "result") = IdsOf(last, "use")
  <2>1. \A id : id \in IdsOf(m, "result") <=> \E k \in DOMAIN results : results[k].id = id
    BY <1>6, <1>8 DEF IdsOf
  <2> QED BY <2>1, <1>7
<1>10. Kinds(m) = {"result"} /\ m.blocks # <<>>
  <2>1. IdsOf(last, "use") # {} BY <1>1, KindsHaveIds
  <2>2. \E k \in DOMAIN results : results[k].kind = "result" BY <2>1, <1>6, <1>7
  <2>3. Kinds(m) = {"result"} BY <2>2, <1>6, <1>8 DEF Kinds
  <2>4. results # <<>> BY <2>2
  <2> QED BY <2>3, <2>4, <1>8
<1>11. IdsOf(m, "text") = {} /\ IdsOf(m, "use") = {}
  BY <1>10, KindsHaveIds
<1> DEFINE more == Append(talk, m)
<1>12. more[n] = m /\ more[n - 1] = last
  BY <1>1, <1>8 DEF last
<1>13. n > 1 BY <1>1
<1>14. TalkOk(more)
  <2> HIDE DEF more
  <2>1. Shaped(more, n) BY <1>1, <1>8, <1>9, <1>10, <1>11, <1>12, <1>13 DEF Shaped
  <2> QED BY <2>1, <1>1, <1>8, <1>10, TalkGrows DEF TalkInv, more
<1>15. Len(more) = n /\ more # <<>> /\ more \in Seq(TalkMessages) /\ talk \o <<m, note>> = Append(more, note)
  BY <1>1, <1>8
<1> HIDE DEF more
<1>16. TalkOk(Append(more, note))
  <2>1. Block("note", AtMessage + 1) \in TalkBlocks
    BY <1>1 DEF Block, AtMessage, TalkBlocks, TalkKinds, BlockIds
  <2>2. note \in TalkMessages /\ note.role = "user" /\ note.blocks = <<Block("note", AtMessage + 1)>>
    BY <2>1, FewBlocks DEF Message, TalkMessages
  <2> HIDE DEF note
  <2>3. DOMAIN note.blocks = {1} /\ note.blocks[1].kind = "note" BY <2>2 DEF Block
  <2>4. Kinds(note) = {"note"} /\ note.blocks # <<>> BY <2>3 DEF Kinds
  <2>5. IdsOf(note, "text") = {} /\ IdsOf(note, "use") = {} BY <2>4, KindsHaveIds
  <2>6. Append(more, note)[n + 1] = note BY <2>2, <1>15
  <2>7. Shaped(Append(more, note), n + 1) BY <2>2, <2>4, <2>5, <2>6 DEF Shaped
  <2> QED BY <2>2, <2>4, <2>7, <1>14, <1>15, TalkGrows
<1> QED BY <1>2, <1>14, <1>15, <1>16 DEF TalkInv, more

\* The messages of a session are well formed in every state: a user message is
\* a question, a note or the results of a round, a text is named by its message
\* and a call by the message it is in, results stand behind the message whose
\* calls they answer, all of them, and the first message is a question (run.py).
THEOREM SpecTalkInv == RequestSpec => []TalkInv
<1> USE RequestAssumption
<1>1. RequestInit => TalkInv
  BY DEF RequestInit, TalkInv, TalkOk
<1>2. TalkInv /\ [RequestNext]_requestVars => TalkInv'
  <2> SUFFICES ASSUME TalkInv, [RequestNext]_requestVars PROVE TalkInv' OBVIOUS
  <2>1. CASE UNCHANGED requestVars
    BY <2>1 DEF TalkInv, requestVars
  <2> QED BY <2>1, TalkAsk, TalkAnswer, TalkCall, TalkReport DEF RequestNext
<1> QED BY <1>1, <1>2, PTL DEF RequestSpec

-----------------------------------------------------------------------------
\* What is left of them when the rounds are dropped and the results cut.

\* What a message holds does not depend on the order of its blocks.
LEMMA ByElements ==
    \A m : /\ Kinds(m) = {x.kind : x \in Elements(m.blocks)}
           /\ \A kind : IdsOf(m, kind) = {x.id : x \in {y \in Elements(m.blocks) : y.kind = kind}}
  BY DEF Kinds, IdsOf, Elements

\* What is sent of a message of the history.
SentKinds == TalkKinds \cup {"cut", "summary"}
SentIds == BlockIds \cup (SUBSET BlockIds) \cup {"memory", "budget"}
SentBlocks == [kind : SentKinds, id : SentIds]
SentMessages == [role : {"user", "assistant"}, blocks : Seq(SentBlocks)]
Looks(m, said) ==
    /\ m \in SentMessages /\ m.role = said.role
    /\ Kinds(m) \subseteq Kinds(said) \cup {"cut"}
    /\ \A kind \in {"text", "image", "use", "note"} : IdsOf(m, kind) = IdsOf(said, kind)
    /\ CutIds(m) = IdsOf(said, "result")

\* The thinking is dropped and nothing else.
LEMMA ThinkingDropped ==
    ASSUME TalkInv
    PROVE  /\ DropThinking(talk) \in Seq(TalkMessages) /\ Len(DropThinking(talk)) = Len(talk)
           /\ \A n \in 1..Len(talk) :
                /\ DropThinking(talk)[n].role = talk[n].role
                /\ Kinds(DropThinking(talk)[n]) = Kinds(talk[n]) \ {"thinking"}
                /\ \A kind \in SentKinds \ {"thinking"} :
                     IdsOf(DropThinking(talk)[n], kind) = IdsOf(talk[n], kind)
<1> DEFINE D == DropThinking(talk)
<1>1. talk \in Seq(TalkMessages) BY DEF TalkInv, TalkOk
<1>2. ASSUME NEW n \in 1..Len(talk)
      PROVE  /\ [talk[n] EXCEPT !.blocks = OtherThan(@, {"thinking"})] \in TalkMessages
             /\ [talk[n] EXCEPT !.blocks = OtherThan(@, {"thinking"})].role = talk[n].role
             /\ Elements([talk[n] EXCEPT !.blocks = OtherThan(@, {"thinking"})].blocks)
                  = {x \in Elements(talk[n].blocks) : x.kind \notin {"thinking"}}
  <2>1. talk[n] \in TalkMessages BY <1>1
  <2>2. talk[n].blocks \in Seq(TalkBlocks) BY <2>1 DEF TalkMessages
  <2>3. /\ OtherThan(talk[n].blocks, {"thinking"}) \in Seq(TalkBlocks)
        /\ Elements(OtherThan(talk[n].blocks, {"thinking"}))
             = {x \in Elements(talk[n].blocks) : x.kind \notin {"thinking"}}
    BY <2>2, OtherThanElements
  <2> QED BY <2>1, <2>3 DEF TalkMessages
<1>3. D = [n \in 1..Len(talk) |-> [talk[n] EXCEPT !.blocks = OtherThan(@, {"thinking"})]]
  BY <1>1 DEF DropThinking
<1>4. D \in Seq(TalkMessages) /\ Len(D) = Len(talk)
  BY <1>1, <1>2, <1>3
<1>5. \A n \in 1..Len(talk) :
        /\ D[n].role = talk[n].role
        /\ Elements(D[n].blocks) = {x \in Elements(talk[n].blocks) : x.kind \notin {"thinking"}}
  BY <1>2, <1>3
<1> HIDE DEF D
<1>6. \A n \in 1..Len(talk) :
        /\ Kinds(D[n]) = Kinds(talk[n]) \ {"thinking"}
        /\ \A kind \in SentKinds \ {"thinking"} : IdsOf(D[n], kind) = IdsOf(talk[n], kind)
  <2> TAKE n \in 1..Len(talk)
  <2>1. Kinds(D[n]) = {x.kind : x \in Elements(D[n].blocks)} BY ByElements
  <2>2. Kinds(talk[n]) = {x.kind : x \in Elements(talk[n].blocks)} BY ByElements
  <2>3. Kinds(D[n]) = Kinds(talk[n]) \ {"thinking"} BY <2>1, <2>2, <1>5
  <2>4. ASSUME NEW kind \in SentKinds \ {"thinking"} PROVE IdsOf(D[n], kind) = IdsOf(talk[n], kind)
    <3>1. IdsOf(D[n], kind) = {x.id : x \in {y \in Elements(D[n].blocks) : y.kind = kind}} BY ByElements
    <3>2. IdsOf(talk[n], kind) = {x.id : x \in {y \in Elements(talk[n].blocks) : y.kind = kind}} BY ByElements
    <3>3. {y \in Elements(D[n].blocks) : y.kind = kind} = {y \in Elements(talk[n].blocks) : y.kind = kind}
      BY <1>5
    <3> QED BY <3>1, <3>2, <3>3
  <2> QED BY <2>3, <2>4
<1> QED BY <1>4, <1>5, <1>6 DEF D

\* Which messages a call gets: all questions, and a round of tools whole or not
\* at all.
Whole(P) ==
    /\ P \subseteq 1..Len(talk)
    /\ \A n \in 1..Len(talk) : Asks(talk[n]) => n \in P
    /\ \A n \in 1..Len(talk) : "result" \in Kinds(talk[n]) => (n \in P <=> n - 1 \in P)

Rounds == IF compact THEN DropCompletedRounds(DropThinking(talk)) ELSE DropThinking(talk)

\* A round of tools that was answered is left out whole.
LEMMA RoundsWhole ==
    ASSUME TalkInv
    PROVE  \E P, at : Whole(P) /\ Lists(at, P) /\ Rounds = Taken(DropThinking(talk), at)
<1> DEFINE D == DropThinking(talk)
<1>1. D \in Seq(TalkMessages) /\ Len(D) = Len(talk) /\ DOMAIN D = 1..Len(talk)
  BY ThinkingDropped
<1>2. talk \in Seq(TalkMessages) /\ \A n \in 1..Len(talk) : Shaped(talk, n)
  BY DEF TalkInv, TalkOk
<1>3. \A n \in 1..Len(talk) :
        D[n].role = talk[n].role /\ Kinds(D[n]) = Kinds(talk[n]) \ {"thinking"}
  BY ThinkingDropped
<1> HIDE DEF D
<1>4. CASE ~compact
  <2> DEFINE at == [k \in 1..Len(talk) |-> k]
             P == 1..Len(talk)
  <2>1. Len(talk) \in Nat BY <1>2
  <2>2. Lists(at, P) BY <2>1 DEF Lists, Increasing
  <2>3. D = Taken(D, at)
    <3>1. Len(at) = Len(talk) BY <2>1
    <3>2. D = [k \in 1..Len(talk) |-> D[k]] BY <1>1
    <3> QED BY <3>1, <3>2 DEF Taken
  <2>4. Whole(P)
    <3>1. \A n \in 1..Len(talk) : "result" \in Kinds(talk[n]) => n > 1 BY <1>2 DEF Shaped
    <3>2. \A n \in 1..Len(talk) : n > 1 => n - 1 \in P BY <2>1
    <3> QED BY <3>1, <3>2 DEF Whole
  <2>5. Rounds = D BY <1>4 DEF Rounds, D
  <2> HIDE DEF at, P
  <2> QED BY <2>2, <2>3, <2>4, <2>5 DEF D
<1>5. CASE compact
  <2> DEFINE dropped == {n \in DOMAIN D : Droppable(D, n) \/ (n > 1 /\ Droppable(D, n - 1))}
             P == DOMAIN D \ dropped
  <2>1. Rounds = Kept(D, P) BY <1>5 DEF Rounds, DropCompletedRounds, D
  <2>2. P \subseteq 1..Len(D) BY <1>1
  <2>3. \E at : Lists(at, P) /\ Kept(D, P) = Taken(D, at)
    <3> HIDE DEF P
    <3> QED BY <1>1, <2>2, KeptLists
  <2>4. ASSUME NEW n \in 1..Len(talk), talk[n].role = "user" PROVE ~Droppable(D, n)
    BY <2>4, <1>3 DEF Droppable, ToolUseOnly
  <2>5. ASSUME NEW n \in 1..Len(talk), "text" \in Kinds(talk[n])
        PROVE  ~ToolResultsOnly(D[n])
    <3>1. "text" \in Kinds(D[n]) BY <2>5, <1>3
    <3> QED BY <3>1 DEF ToolResultsOnly
  <2>6. ASSUME NEW n \in 1..Len(talk), Asks(talk[n]) PROVE n \in P
    <3>1. talk[n].role = "user" /\ "text" \in Kinds(talk[n]) BY <2>6 DEF Asks
    <3>2. ~Droppable(D, n) BY <3>1, <2>4
    <3>3. n > 1 => ~Droppable(D, n - 1)
      <4> SUFFICES ASSUME n > 1 PROVE ~Droppable(D, n - 1) OBVIOUS
      <4>1. (n - 1) + 1 = n BY <1>2
      <4>2. ~ToolResultsOnly(D[n]) BY <3>1, <2>5
      <4> QED BY <4>1, <4>2 DEF Droppable
    <3> QED BY <3>2, <3>3, <1>1
  <2>7. ASSUME NEW n \in 1..Len(talk), "result" \in Kinds(talk[n]) PROVE n \in P <=> n - 1 \in P
    <3>1. n > 1 /\ talk[n - 1].role = "assistant" /\ n - 1 \in 1..Len(talk) BY <1>2, <2>7 DEF Shaped
    <3>2. talk[n].role = "user"
      <4>1. talk[n] \in TalkMessages BY <1>2
      <4>2. talk[n].role \in {"user", "assistant"} BY <4>1 DEF TalkMessages
      <4>3. ~ ("result" \in {"thinking", "text", "use"}) OBVIOUS
      <4> QED BY <4>2, <4>3, <1>2, <2>7 DEF Shaped
    <3>3. ~Droppable(D, n) BY <3>2, <2>4
    <3>4. n \in P <=> ~Droppable(D, n - 1) BY <3>1, <3>3, <1>1
    <3>5. n - 1 > 1 => ~Droppable(D, n - 2)
      <4> SUFFICES ASSUME n - 1 > 1 PROVE ~Droppable(D, n - 2) OBVIOUS
      <4>1. n - 2 \in 1..Len(talk) /\ (n - 2) + 1 = n - 1 BY <3>1
      <4>2. D[n - 1].role = "assistant" BY <3>1, <1>3
      <4> QED BY <4>1, <4>2 DEF Droppable, ToolResultsOnly
    <3>6. (n - 1) - 1 = n - 2 BY <3>1
    <3> QED BY <3>1, <3>4, <3>5, <3>6, <1>1
  <2>8. Whole(P) BY <2>2, <2>6, <2>7, <1>1 DEF Whole
  <2> HIDE DEF P
  <2> QED BY <2>1, <2>3, <2>8 DEF D
<1> QED BY <1>4, <1>5

Trimmed == TruncateResults(Rounds)

\* What is left of the history, and at which positions it was there.
Keeps(P, at) ==
    /\ Whole(P) /\ Lists(at, P)
    /\ Trimmed \in Seq(SentMessages) /\ Len(Trimmed) = Len(at)
    /\ \A k \in 1..Len(at) : Looks(Trimmed[k], talk[at[k]])

\* What is left looks like the history at some of its positions.
LEMMA TrimmedLooks ==
    ASSUME TalkInv
    PROVE  \E P, at : Keeps(P, at)
<1> DEFINE D == DropThinking(talk)
<1>1. PICK P, at : Whole(P) /\ Lists(at, P) /\ Rounds = Taken(D, at)
  BY RoundsWhole
<1>2. /\ D \in Seq(TalkMessages) /\ Len(D) = Len(talk)
      /\ \A n \in 1..Len(talk) :
           /\ D[n].role = talk[n].role
           /\ Kinds(D[n]) = Kinds(talk[n]) \ {"thinking"}
           /\ \A kind \in SentKinds \ {"thinking"} : IdsOf(D[n], kind) = IdsOf(talk[n], kind)
  BY ThinkingDropped
<1> HIDE DEF D
<1>3. at \in Seq(Nat) /\ Len(at) \in Nat /\ \A k \in 1..Len(at) : at[k] \in 1..Len(talk)
  BY <1>1 DEF Lists, Whole
<1>4. Rounds = [k \in 1..Len(at) |-> D[at[k]]] BY <1>1 DEF Taken
<1> DEFINE short(b) == IF b.kind = "result" /\ b.id \in LongCalls THEN [b EXCEPT !.kind = "cut"] ELSE b
           cut(m) == [m EXCEPT !.blocks = [k \in DOMAIN @ |-> short(@[k])]]
<1>5. Trimmed = [k \in 1..Len(at) |-> cut(Rounds[k])]
  <2>1. DOMAIN Rounds = 1..Len(at) BY <1>4
  <2> QED BY <2>1 DEF Trimmed, TruncateResults
<1>6. ASSUME NEW b \in TalkBlocks
      PROVE  /\ short(b) \in SentBlocks /\ short(b).id = b.id
             /\ short(b).kind = b.kind \/ (b.kind = "result" /\ short(b).kind = "cut")
  BY DEF TalkBlocks, SentBlocks, TalkKinds, SentKinds, SentIds
<1>7. ASSUME NEW m \in TalkMessages
      PROVE  /\ cut(m) \in SentMessages /\ cut(m).role = m.role
             /\ Kinds(cut(m)) \subseteq Kinds(m) \cup {"cut"}
             /\ \A kind \in {"text", "image", "use", "note"} : IdsOf(cut(m), kind) = IdsOf(m, kind)
             /\ CutIds(cut(m)) = IdsOf(m, "result")
  <2> DEFINE c == cut(m)
  <2> HIDE DEF short
  <2>1. m.blocks \in Seq(TalkBlocks) BY DEF TalkMessages
  <2>2. \A k \in DOMAIN m.blocks : m.blocks[k] \in TalkBlocks BY <2>1
  <2>3. c.blocks = [k \in DOMAIN m.blocks |-> short(m.blocks[k])] /\ c.role = m.role
    BY DEF TalkMessages
  <2>4. c.blocks \in Seq(SentBlocks)
    <3>1. \A k \in DOMAIN m.blocks : short(m.blocks[k]) \in SentBlocks BY <2>2, <1>6
    <3>2. DOMAIN m.blocks = 1..Len(m.blocks) /\ Len(m.blocks) \in Nat BY <2>1
    <3> QED BY <2>3, <3>1, <3>2
  <2>5. c \in SentMessages BY <2>4 DEF TalkMessages, SentMessages
  <2> HIDE DEF c
  <2>6. /\ DOMAIN c.blocks = DOMAIN m.blocks
        /\ \A k \in DOMAIN m.blocks :
             /\ c.blocks[k].id = m.blocks[k].id /\ m.blocks[k].kind # "cut"
             /\ \/ c.blocks[k].kind = m.blocks[k].kind
                \/ m.blocks[k].kind = "result" /\ c.blocks[k].kind = "cut"
    BY <2>2, <2>3, <1>6 DEF TalkBlocks, TalkKinds
  <2>7. Kinds(c) \subseteq Kinds(m) \cup {"cut"} BY <2>6 DEF Kinds
  <2>8. \A kind \in {"text", "image", "use", "note"} : IdsOf(c, kind) = IdsOf(m, kind)
    <3> TAKE kind \in {"text", "image", "use", "note"}
    <3>1. {k \in DOMAIN c.blocks : c.blocks[k].kind = kind} = {k \in DOMAIN m.blocks : m.blocks[k].kind = kind}
      BY <2>6
    <3> QED BY <3>1, <2>6 DEF IdsOf
  <2>9. CutIds(c) = IdsOf(m, "result")
    <3>1. \A id : id \in CutIds(c) <=> \E k \in DOMAIN c.blocks : c.blocks[k].kind \in {"result", "cut"} /\ c.blocks[k].id = id
      BY DEF CutIds, IdsOf
    <3>2. \A id : id \in IdsOf(m, "result") <=> \E k \in DOMAIN m.blocks : m.blocks[k].kind = "result" /\ m.blocks[k].id = id
      BY DEF IdsOf
    <3>3. \A id : id \in CutIds(c) => id \in IdsOf(m, "result") BY <3>1, <3>2, <2>6
    <3>4. ASSUME NEW id \in IdsOf(m, "result") PROVE id \in CutIds(c)
      <4>1. PICK k \in DOMAIN m.blocks : m.blocks[k].kind = "result" /\ m.blocks[k].id = id
        BY <3>2, <3>4
      <4>2. k \in DOMAIN c.blocks /\ c.blocks[k].id = id /\ c.blocks[k].kind \in {"result", "cut"}
        BY <4>1, <2>6
      <4> QED BY <4>2, <3>1
    <3> QED BY <3>3, <3>4
  <2> QED BY <2>3, <2>5, <2>7, <2>8, <2>9 DEF c
<1> HIDE DEF cut
<1>8. \A k \in 1..Len(at) : Rounds[k] = D[at[k]] /\ Rounds[k] \in TalkMessages
  BY <1>2, <1>3, <1>4
<1>9. \A k \in 1..Len(at) : Trimmed[k] = cut(Rounds[k]) /\ Trimmed[k] \in SentMessages
  BY <1>5, <1>7, <1>8
<1>10. Trimmed \in Seq(SentMessages) /\ Len(Trimmed) = Len(at)
  BY <1>3, <1>5, <1>9
<1>11. ASSUME NEW k \in 1..Len(at) PROVE Looks(Trimmed[k], talk[at[k]])
  <2> DEFINE m == Rounds[k]
             said == talk[at[k]]
  <2>1. /\ m.role = said.role /\ Kinds(m) \subseteq Kinds(said)
        /\ \A kind \in {"text", "image", "use", "note", "result"} : IdsOf(m, kind) = IdsOf(said, kind)
    BY <1>2, <1>3, <1>8 DEF SentKinds, TalkKinds
  <2>2. Trimmed[k] = cut(m) /\ m \in TalkMessages BY <1>8, <1>9
  <2> HIDE DEF m, said
  <2>3. Looks(Trimmed[k], said) BY <2>1, <2>2, <1>7 DEF Looks
  <2> QED BY <2>3 DEF said
<1> QED BY <1>1, <1>10, <1>11 DEF Keeps

-----------------------------------------------------------------------------
\* The summary, the window and the notes.

\* A summary is a message.
LEMMA SummaryIsText ==
    ASSUME TalkInv, RequestAssumption, NEW ms \in Seq(SentMessages),
           \A n \in 1..Len(ms) : IdsOf(ms[n], "text") \subseteq Nat
    PROVE  SummaryOf(ms) \in SentMessages
<1> DEFINE P == {n \in DOMAIN ms : Kinds(ms[n]) \cap {"text", "note"} # {}}
           texts == UNION {IdsOf(Quoted(ms)[n], "text") : n \in DOMAIN Quoted(ms)}
           Plain == {m \in SentMessages : IdsOf(m, "text") \subseteq Nat}
<1>1. ms \in Seq(Plain)
  <2>1. \A n \in 1..Len(ms) : ms[n] \in Plain OBVIOUS
  <2> HIDE DEF Plain
  <2> QED BY <2>1
<1> HIDE DEF Plain
<1>2. Spoken(ms) \in Seq(Plain)
  <2>1. P \subseteq 1..Len(ms) OBVIOUS
  <2>2. Spoken(ms) = Kept(ms, P) BY DEF Spoken
  <2> HIDE DEF P
  <2> QED BY <1>1, <2>1, <2>2, KeptElements
<1>3. Quoted(ms) \in Seq(Plain)
  <2>1. CASE Len(Spoken(ms)) <= SummaryTurns
    BY <1>2, <2>1 DEF Quoted
  <2>2. CASE ~ (Len(Spoken(ms)) <= SummaryTurns)
    <3>1. SummaryTurns \in Nat \ {0} BY DEF RequestAssumption
    <3>2. Len(Spoken(ms)) \in Nat BY <1>2
    <3>3. /\ Len(Spoken(ms)) - SummaryTurns + 1 \in 1..Len(Spoken(ms)) + 1
          /\ Len(Spoken(ms)) \in Len(Spoken(ms)) - SummaryTurns + 1 - 1..Len(Spoken(ms))
      BY <2>2, <3>1, <3>2
    <3>4. SubSeq(Spoken(ms), Len(Spoken(ms)) - SummaryTurns + 1, Len(Spoken(ms))) \in Seq(Plain)
      BY <1>2, <3>3, SubSeqProperties
    <3> QED BY <2>2, <3>4 DEF Quoted
  <2> QED BY <2>1, <2>2
<1>4. texts \subseteq Nat
  <2>1. \A n \in DOMAIN Quoted(ms) : Quoted(ms)[n] \in Plain BY <1>3
  <2> QED BY <2>1 DEF Plain
<1> HIDE DEF texts
<1>5. texts \in SentIds BY <1>4 DEF SentIds, BlockIds
<1>6. Block("summary", texts) \in SentBlocks BY <1>5 DEF Block, SentBlocks, SentKinds
<1>7. Message("user", <<Block("summary", texts)>>) \in SentMessages
  <2>1. <<Block("summary", texts)>> \in Seq(SentBlocks) BY <1>6
  <2> QED BY <2>1 DEF Message, SentMessages
<1> QED BY <1>7 DEF SummaryOf, texts

\* Nothing is cut off but what a summary stands for.
Sends(sent, ms) ==
    \/ sent = ms
    \/ /\ Len(ms) > KeepRecent + 1 /\ Len(sent) = KeepRecent + 2
       /\ sent[1] = ms[1] /\ sent[2] = SummaryOf(SubSeq(ms, 2, Len(ms) - KeepRecent))
       /\ \A j \in 3..KeepRecent + 2 : sent[j] = ms[Len(ms) - KeepRecent + j - 2]

\* A text is named by its message in what is left as well.
LEMMA TrimmedTexts ==
    ASSUME TalkInv
    PROVE  Trimmed \in Seq(SentMessages) /\ \A n \in 1..Len(Trimmed) : IdsOf(Trimmed[n], "text") \subseteq Nat
<1>1. PICK P, at : /\ Whole(P) /\ Lists(at, P)
                   /\ Trimmed \in Seq(SentMessages) /\ Len(Trimmed) = Len(at)
                   /\ \A k \in 1..Len(at) : Looks(Trimmed[k], talk[at[k]])
  BY TrimmedLooks DEF Keeps
<1>2. ASSUME NEW n \in 1..Len(Trimmed) PROVE IdsOf(Trimmed[n], "text") \subseteq Nat
  <2>1. at[n] \in 1..Len(talk) /\ at[n] \in Nat BY <1>1 DEF Lists, Whole
  <2>2. IdsOf(talk[at[n]], "text") \subseteq {at[n]} BY <2>1 DEF TalkInv, TalkOk, Shaped
  <2>3. IdsOf(Trimmed[n], "text") = IdsOf(talk[at[n]], "text") BY <1>1 DEF Looks
  <2> QED BY <2>1, <2>2, <2>3
<1> QED BY <1>1, <1>2

\* The window cuts nothing off.
LEMMA WindowKeeps ==
    ASSUME TalkInv, RequestAssumption
    PROVE  ProcessMessages(talk) \in Seq(SentMessages) /\ Sends(ProcessMessages(talk), Trimmed)
<1> DEFINE ms == Trimmed
           L == Len(Trimmed)
           middle == SubSeq(ms, 2, L - KeepRecent)
           short == <<ms[1], SummaryOf(middle)>> \o Newest(ms)
<1>1. ms \in Seq(SentMessages) /\ L \in Nat /\ \A n \in 1..L : IdsOf(ms[n], "text") \subseteq Nat
  BY TrimmedTexts
<1>2. ProcessMessages(talk) = SlidingWindow(Summarize(ms))
  BY DEF ProcessMessages, Trimmed, Rounds
<1>3. /\ KeepRecent \in Nat \ {0} /\ SummarizeAfter \in Nat /\ MaxMessages \in Nat
      /\ SummarizeAfter <= MaxMessages /\ KeepRecent + 2 <= MaxMessages
  BY DEF RequestAssumption
<1> HIDE DEF ms
<1>4. CASE L <= SummarizeAfter \/ L - KeepRecent <= 1
  <2>1. Summarize(ms) = ms BY <1>4 DEF Summarize, ms
  <2>2. L <= MaxMessages BY <1>1, <1>3, <1>4
  <2>3. SlidingWindow(ms) = ms BY <2>2 DEF SlidingWindow, ms
  <2> QED BY <1>1, <1>2, <2>1, <2>3 DEF Sends, ms
<1>5. CASE ~ (L <= SummarizeAfter \/ L - KeepRecent <= 1)
  <2>1. Summarize(ms) = short BY <1>5 DEF Summarize, ms
  <2>2. L > KeepRecent + 1 BY <1>1, <1>3, <1>5
  <2>3. /\ middle \in Seq(SentMessages) /\ Len(middle) = L - KeepRecent - 1
        /\ \A n \in 1..Len(middle) : middle[n] = ms[n + 1] /\ n + 1 \in 1..L
    <3>1. 2 \in 1..L + 1 /\ L - KeepRecent \in 2 - 1..L BY <1>1, <1>3, <2>2
    <3>2. /\ middle \in Seq(SentMessages) /\ Len(middle) = (L - KeepRecent) - 2 + 1
          /\ \A n \in 1..(L - KeepRecent) - 2 + 1 : middle[n] = ms[2 + n - 1]
      BY <1>1, <3>1, SubSeqProperties DEF ms
    <3> HIDE DEF middle
    <3> QED BY <3>2, <1>1, <1>3, <2>2
  <2>4. SummaryOf(middle) \in SentMessages
    <3>1. \A n \in 1..Len(middle) : IdsOf(middle[n], "text") \subseteq Nat BY <2>3, <1>1 DEF ms
    <3> HIDE DEF middle
    <3> QED BY <3>1, <2>3, SummaryIsText
  <2>5. /\ Newest(ms) \in Seq(SentMessages) /\ Len(Newest(ms)) = KeepRecent
        /\ \A n \in 1..KeepRecent : Newest(ms)[n] = ms[L - KeepRecent + n]
    <3>1. L - KeepRecent + 1 \in 1..L + 1 /\ L \in L - KeepRecent + 1 - 1..L BY <1>1, <1>3, <2>2
    <3>2. Newest(ms) = SubSeq(ms, L - KeepRecent + 1, L) BY DEF Newest, ms
    <3>3. /\ SubSeq(ms, L - KeepRecent + 1, L) \in Seq(SentMessages)
          /\ Len(SubSeq(ms, L - KeepRecent + 1, L)) = L - (L - KeepRecent + 1) + 1
          /\ \A n \in 1..L - (L - KeepRecent + 1) + 1 :
               SubSeq(ms, L - KeepRecent + 1, L)[n] = ms[L - KeepRecent + 1 + n - 1]
      BY <1>1, <3>1, SubSeqProperties DEF ms
    <3>4. L - (L - KeepRecent + 1) + 1 = KeepRecent BY <1>1, <1>3
    <3>5. \A n \in 1..KeepRecent : L - KeepRecent + 1 + n - 1 = L - KeepRecent + n BY <1>1, <1>3
    <3> QED BY <3>2, <3>3, <3>4, <3>5
  <2> HIDE DEF middle
  <2>6. <<ms[1], SummaryOf(middle)>> \in Seq(SentMessages)
    <3>1. ms[1] \in SentMessages BY <1>1, <1>3, <2>2 DEF ms
    <3> QED BY <3>1, <2>4
  <2>7. /\ short \in Seq(SentMessages) /\ Len(short) = KeepRecent + 2
        /\ short[1] = ms[1] /\ short[2] = SummaryOf(middle)
        /\ \A j \in 3..KeepRecent + 2 : short[j] = Newest(ms)[j - 2]
    BY <2>5, <2>6, <1>3
  <2> HIDE DEF short
  <2>8. \A j \in 3..KeepRecent + 2 : short[j] = ms[L - KeepRecent + j - 2]
    <3> TAKE j \in 3..KeepRecent + 2
    <3>1. j - 2 \in 1..KeepRecent /\ L - KeepRecent + (j - 2) = L - KeepRecent + j - 2 BY <1>1, <1>3
    <3> QED BY <3>1, <2>5, <2>7
  <2>9. SlidingWindow(short) = short BY <2>7, <1>3 DEF SlidingWindow
  <2> QED BY <1>2, <2>1, <2>2, <2>7, <2>8, <2>9 DEF Sends, ms, middle
<1> QED BY <1>4, <1>5

\* The notes of the run come last and hold no call.
LEMMA NotesLast ==
    ASSUME TalkInv, RequestAssumption
    PROVE  LET sent == ProcessMessages(talk)
           IN /\ ContextMessages \in Seq(SentMessages) /\ Len(ContextMessages) >= Len(sent)
              /\ \A n \in 1..Len(sent) : ContextMessages[n] = sent[n]
              /\ \A n \in 1..Len(ContextMessages) :
                   n > Len(sent) => IdsOf(ContextMessages[n], "use") = {}
<1> DEFINE sent == ProcessMessages(talk)
           note(id) == Message("user", <<Block("note", id)>>)
           memory == IF findings THEN <<note("memory")>> ELSE <<>>
           budget == IF steered THEN <<note("budget")>> ELSE <<>>
<1>1. sent \in Seq(SentMessages) BY WindowKeeps
<1>2. ASSUME NEW id \in {"memory", "budget"}
      PROVE  note(id) \in SentMessages /\ IdsOf(note(id), "use") = {}
  <2>1. Block("note", id) \in SentBlocks /\ Block("note", id).kind = "note"
    BY DEF Block, SentBlocks, SentKinds, TalkKinds, SentIds
  <2>2. <<Block("note", id)>> \in Seq(SentBlocks) BY <2>1
  <2>3. note(id).blocks = <<Block("note", id)>> /\ note(id) \in SentMessages
    BY <2>2 DEF Message, SentMessages
  <2> HIDE DEF note
  <2>4. DOMAIN note(id).blocks = {1} /\ note(id).blocks[1].kind = "note" BY <2>1, <2>3
  <2> QED BY <2>3, <2>4 DEF IdsOf
<1> DEFINE Quiet == {m \in SentMessages : IdsOf(m, "use") = {}}
<1>3. note("memory") \in Quiet /\ note("budget") \in Quiet BY <1>2
<1> HIDE DEF note, Quiet
<1>4. memory \in Seq(Quiet) /\ budget \in Seq(Quiet) BY <1>3
<1> HIDE DEF memory, budget
<1>5. /\ \A n \in 1..Len(memory) : memory[n] \in Quiet
      /\ \A n \in 1..Len(budget) : budget[n] \in Quiet
      /\ Len(memory) \in Nat /\ Len(budget) \in Nat
  BY <1>4
<1>6. memory \in Seq(SentMessages) /\ budget \in Seq(SentMessages)
  <2>1. \A m \in Quiet : m \in SentMessages BY DEF Quiet
  <2>2. /\ memory = [n \in 1..Len(memory) |-> memory[n]] /\ budget = [n \in 1..Len(budget) |-> budget[n]]
    BY <1>4
  <2> QED BY <2>1, <1>4, <1>5
<1>7. ContextMessages = (sent \o memory) \o budget
  BY DEF ContextMessages, sent, memory, budget, note
<1> HIDE DEF sent
<1>8. /\ ContextMessages \in Seq(SentMessages)
      /\ Len(ContextMessages) = Len(sent) + Len(memory) + Len(budget)
      /\ \A n \in 1..Len(sent) : ContextMessages[n] = sent[n]
      /\ \A n \in 1..Len(memory) : ContextMessages[Len(sent) + n] = memory[n]
      /\ \A n \in 1..Len(budget) : ContextMessages[Len(sent) + Len(memory) + n] = budget[n]
  <2>1. /\ sent \o memory \in Seq(SentMessages) /\ Len(sent \o memory) = Len(sent) + Len(memory)
        /\ \A n \in 1..Len(sent) : (sent \o memory)[n] = sent[n]
        /\ \A n \in 1..Len(memory) : (sent \o memory)[Len(sent) + n] = memory[n]
    BY <1>1, <1>6
  <2> DEFINE both == sent \o memory
  <2> HIDE DEF both
  <2>2. /\ both \o budget \in Seq(SentMessages) /\ Len(both \o budget) = Len(both) + Len(budget)
        /\ \A n \in 1..Len(both) : (both \o budget)[n] = both[n]
        /\ \A n \in 1..Len(budget) : (both \o budget)[Len(both) + n] = budget[n]
    BY <2>1, <1>6 DEF both
  <2>3. Len(sent) \in Nat BY <1>1
  <2>4. \A n \in 1..Len(sent) : n \in 1..Len(both) BY <2>1, <2>3, <1>5 DEF both
  <2>5. \A n \in 1..Len(memory) : Len(sent) + n \in 1..Len(both) BY <2>1, <2>3, <1>5 DEF both
  <2> QED BY <2>1, <2>2, <2>4, <2>5, <1>7 DEF both
<1>9. ASSUME NEW n \in 1..Len(ContextMessages), n > Len(sent) PROVE ContextMessages[n] \in Quiet
  <2>1. Len(sent) \in Nat BY <1>1
  <2>2. CASE n <= Len(sent) + Len(memory)
    <3>1. n - Len(sent) \in 1..Len(memory) /\ Len(sent) + (n - Len(sent)) = n BY <1>5, <1>9, <2>1, <2>2
    <3> QED BY <3>1, <1>5, <1>8
  <2>3. CASE n > Len(sent) + Len(memory)
    <3> DEFINE i == n - Len(sent) - Len(memory)
    <3>1. i \in 1..Len(budget) /\ Len(sent) + Len(memory) + i = n BY <1>5, <1>8, <1>9, <2>1, <2>3
    <3> HIDE DEF i
    <3> QED BY <3>1, <1>5, <1>8
  <2> QED BY <2>1, <2>2, <2>3, <1>5
<1>10. Len(ContextMessages) >= Len(sent) BY <1>1, <1>5, <1>8
<1> QED BY <1>8, <1>9, <1>10 DEF Quiet, sent

-----------------------------------------------------------------------------
\* What goes over the wire.

WireMessages == [role : {"user", "assistant", "tool"}, blocks : Seq(SentBlocks)]

\* A message that goes over the wire as it is.
LEMMA WireAsSaid ==
    ASSUME NEW role \in {"user", "assistant", "tool"}, NEW blocks \in Seq(SentBlocks)
    PROVE  /\ <<Wire(role, blocks)>> \in Seq(WireMessages)
           /\ Len(<<Wire(role, blocks)>>) = 1 /\ <<Wire(role, blocks)>>[1] = Wire(role, blocks)
           /\ Wire(role, blocks).blocks = blocks /\ Wire(role, blocks).role = role
<1>1. Wire(role, blocks) \in WireMessages BY DEF Wire, WireMessages
<1>2. Wire(role, blocks).blocks = blocks /\ Wire(role, blocks).role = role BY DEF Wire
<1> QED BY <1>1, <1>2

\* A result becomes a message of its own.
LEMMA ToolWires ==
    ASSUME NEW m \in SentMessages
    PROVE  LET results == Only(m.blocks, ResultKinds)
               wires == [n \in DOMAIN results |-> Wire("tool", <<results[n]>>)]
           IN /\ wires \in Seq(WireMessages) /\ Len(wires) = Len(results)
              /\ \A n \in 1..Len(results) :
                   /\ wires[n].role = "tool" /\ wires[n].blocks = <<results[n]>>
                   /\ results[n] \in Elements(m.blocks) /\ results[n].kind \in ResultKinds
<1> DEFINE results == Only(m.blocks, ResultKinds)
           wires == [n \in DOMAIN results |-> Wire("tool", <<results[n]>>)]
<1>1. m.blocks \in Seq(SentBlocks) BY DEF SentMessages
<1>2. results \in Seq(SentBlocks) /\ Elements(results) = {x \in Elements(m.blocks) : x.kind \in ResultKinds}
  BY <1>1, OnlyElements
<1> HIDE DEF results
<1>3. \A n \in 1..Len(results) : results[n] \in Elements(results) /\ results[n] \in SentBlocks
  BY <1>2 DEF Elements
<1>4. \A n \in 1..Len(results) : <<results[n]>> \in Seq(SentBlocks) BY <1>3
<1>5. \A n \in 1..Len(results) :
        Wire("tool", <<results[n]>>) \in WireMessages
        /\ Wire("tool", <<results[n]>>).role = "tool" /\ Wire("tool", <<results[n]>>).blocks = <<results[n]>>
  BY <1>4 DEF Wire, WireMessages
<1>6. DOMAIN results = 1..Len(results) /\ Len(results) \in Nat BY <1>2
<1>7. wires \in Seq(WireMessages) /\ Len(wires) = Len(results) BY <1>5, <1>6
<1>8. \A n \in 1..Len(results) : wires[n] = Wire("tool", <<results[n]>>) BY <1>6
<1> HIDE DEF wires
<1> QED BY <1>2, <1>3, <1>5, <1>7, <1>8 DEF wires, results

\* No call is on the wire that was not in the message.
LEMMA WireOfAny ==
    ASSUME NEW m \in SentMessages
    PROVE  /\ MessageWire(m) \in Seq(WireMessages)
           /\ \A i \in 1..Len(MessageWire(m)) :
                IdsOf(MessageWire(m)[i], "use") \subseteq IdsOf(m, "use")
<1> DEFINE Of(w) == Elements(w.blocks) \subseteq Elements(m.blocks)
<1>1. m.blocks \in Seq(SentBlocks) /\ m.role \in {"user", "assistant"} BY DEF SentMessages
<1>2. ASSUME NEW w, Of(w) PROVE IdsOf(w, "use") \subseteq IdsOf(m, "use")
  <2>1. IdsOf(w, "use") = {x.id : x \in {y \in Elements(w.blocks) : y.kind = "use"}} BY ByElements
  <2>2. IdsOf(m, "use") = {x.id : x \in {y \in Elements(m.blocks) : y.kind = "use"}} BY ByElements
  <2> QED BY <2>1, <2>2, <1>2
<1>3. ASSUME NEW role \in {"user", "assistant"}, NEW blocks \in Seq(SentBlocks),
             Elements(blocks) \subseteq Elements(m.blocks)
      PROVE  /\ <<Wire(role, blocks)>> \in Seq(WireMessages)
             /\ \A i \in 1..Len(<<Wire(role, blocks)>>) : Of(<<Wire(role, blocks)>>[i])
  <2>1. /\ <<Wire(role, blocks)>> \in Seq(WireMessages)
        /\ Len(<<Wire(role, blocks)>>) = 1 /\ <<Wire(role, blocks)>>[1] = Wire(role, blocks)
        /\ Wire(role, blocks).blocks = blocks
    BY WireAsSaid
  <2>2. \A i \in 1..1 : i = 1 OBVIOUS
  <2> QED BY <2>1, <2>2, <1>3
<1>4. /\ UserWire(m) \in Seq(WireMessages)
      /\ \A i \in 1..Len(UserWire(m)) : Of(UserWire(m)[i])
  <2> DEFINE results == Only(m.blocks, ResultKinds)
             text == OtherThan(m.blocks, ResultKinds)
             wires == [n \in DOMAIN results |-> Wire("tool", <<results[n]>>)]
             first == IF text = <<>> THEN <<>> ELSE <<Wire("user", text)>>
  <2>1. UserWire(m) = first \o wires BY DEF UserWire
  <2>2. text \in Seq(SentBlocks) /\ Elements(text) \subseteq Elements(m.blocks)
    <3>1. text \in Seq(SentBlocks) /\ Elements(text) = {x \in Elements(m.blocks) : x.kind \notin ResultKinds}
      BY <1>1, OtherThanElements
    <3> QED BY <3>1
  <2>3. /\ wires \in Seq(WireMessages) /\ Len(wires) = Len(results)
        /\ \A n \in 1..Len(results) :
             wires[n].blocks = <<results[n]>> /\ results[n] \in Elements(m.blocks)
    BY ToolWires
  <2> HIDE DEF results, text, wires
  <2>4. first \in Seq(WireMessages) /\ \A i \in 1..Len(first) : Of(first[i])
    <3>1. CASE text = <<>>
      <4>1. first = <<>> BY <3>1
      <4> HIDE DEF first
      <4> QED BY <4>1
    <3>2. CASE text # <<>>
      <4>1. first = <<Wire("user", text)>> BY <3>2
      <4> HIDE DEF first, Of
      <4> QED BY <4>1, <2>2, <1>3
    <3> QED BY <3>1, <3>2
  <2>5. \A n \in 1..Len(wires) : Of(wires[n])
    <3> TAKE n \in 1..Len(wires)
    <3>1. wires[n].blocks = <<results[n]>> /\ results[n] \in Elements(m.blocks) BY <2>3
    <3>2. Elements(<<results[n]>>) = {results[n]} BY DEF Elements
    <3> QED BY <3>1, <3>2
  <2> HIDE DEF first, Of
  <2>6. /\ first \o wires \in Seq(WireMessages) /\ Len(first \o wires) = Len(first) + Len(wires)
        /\ \A n \in 1..Len(first) : (first \o wires)[n] = first[n]
        /\ \A n \in 1..Len(wires) : (first \o wires)[Len(first) + n] = wires[n]
    <3>1. first \in Seq(WireMessages) /\ wires \in Seq(WireMessages) BY <2>3, <2>4
    <3> QED BY <3>1
  <2>7. ASSUME NEW i \in 1..Len(first \o wires) PROVE Of((first \o wires)[i])
    <3>1. Len(first) \in Nat /\ Len(wires) \in Nat BY <2>3, <2>4
    <3>2. CASE i <= Len(first)
      <4>1. i \in 1..Len(first) BY <3>1, <3>2
      <4> QED BY <4>1, <2>4, <2>6
    <3>3. CASE i > Len(first)
      <4>1. i - Len(first) \in 1..Len(wires) /\ Len(first) + (i - Len(first)) = i
        BY <3>1, <3>3, <2>6
      <4> QED BY <4>1, <2>5, <2>6
    <3> QED BY <3>1, <3>2, <3>3
  <2> QED BY <2>1, <2>6, <2>7
<1> HIDE DEF Of
<1>5. MessageWire(m) \in Seq(WireMessages) /\ \A i \in 1..Len(MessageWire(m)) : Of(MessageWire(m)[i])
  <2>1. CASE m.role = "user" /\ "image" \in Kinds(m)
    <3>1. MessageWire(m) = <<Wire("user", m.blocks)>> BY <2>1 DEF MessageWire
    <3> QED BY <3>1, <1>1, <1>3
  <2>2. CASE m.role = "assistant"
    <3>1. MessageWire(m) = <<Wire("assistant", m.blocks)>> BY <2>2 DEF MessageWire, AssistantWire
    <3> QED BY <3>1, <1>1, <1>3
  <2>3. CASE ~(m.role = "user" /\ "image" \in Kinds(m)) /\ m.role # "assistant"
    <3>1. MessageWire(m) = UserWire(m) BY <2>3 DEF MessageWire
    <3> QED BY <3>1, <1>4
  <2> QED BY <2>1, <2>2, <2>3
<1> QED BY <1>2, <1>5

\* The results of a round are as many messages as there are calls, or more.
LEMMA WireOfResults ==
    ASSUME NEW m \in SentMessages, m.role = "user", Kinds(m) \subseteq ResultKinds
    PROVE  /\ Cardinality(CutIds(m)) \in Nat /\ Cardinality(CutIds(m)) <= Len(MessageWire(m))
           /\ \A k \in 1..Len(MessageWire(m)) :
                MessageWire(m)[k].role = "tool" /\ CutIds(MessageWire(m)[k]) \subseteq CutIds(m)
<1> DEFINE results == Only(m.blocks, ResultKinds)
           text == OtherThan(m.blocks, ResultKinds)
           wires == [n \in DOMAIN results |-> Wire("tool", <<results[n]>>)]
<1>1. m.blocks \in Seq(SentBlocks) BY DEF SentMessages
<1>2. /\ wires \in Seq(WireMessages) /\ Len(wires) = Len(results)
      /\ \A n \in 1..Len(results) :
           /\ wires[n].role = "tool" /\ wires[n].blocks = <<results[n]>>
           /\ results[n] \in Elements(m.blocks) /\ results[n].kind \in ResultKinds
  BY ToolWires
<1>3. \A x \in Elements(m.blocks) : x.kind \in ResultKinds
  <2>1. Kinds(m) = {x.kind : x \in Elements(m.blocks)} BY ByElements
  <2> QED BY <2>1
<1>4. text = <<>>
  <2>1. text \in Seq(SentBlocks) /\ Elements(text) = {x \in Elements(m.blocks) : x.kind \notin ResultKinds}
    BY <1>1, OtherThanElements
  <2> HIDE DEF text
  <2>2. Elements(text) = {} BY <2>1, <1>3
  <2>3. \A n \in 1..Len(text) : FALSE BY <2>1, <2>2 DEF Elements
  <2>4. Len(text) \in Nat BY <2>1
  <2>5. Len(text) = 0 BY <2>3, <2>4
  <2> QED BY <2>1, <2>5
<1>5. results \in Seq(SentBlocks) /\ Elements(results) = {x \in Elements(m.blocks) : x.kind \in ResultKinds}
  BY <1>1, OnlyElements
<1>6. MessageWire(m) = wires
  <2>1. "image" \notin Kinds(m) BY DEF ResultKinds
  <2>2. MessageWire(m) = UserWire(m) BY <2>1 DEF MessageWire
  <2>3. UserWire(m) = <<>> \o wires BY <1>4 DEF UserWire
  <2> HIDE DEF wires
  <2>4. <<>> \o wires = wires BY <1>2
  <2> QED BY <2>2, <2>3, <2>4
<1> HIDE DEF results, text, wires
<1>7. \A id : id \in CutIds(m) <=> \E x \in Elements(m.blocks) : x.kind \in ResultKinds /\ x.id = id
  <2>1. CutIds(m) = {x.id : x \in {y \in Elements(m.blocks) : y.kind = "result"}}
                      \cup {x.id : x \in {y \in Elements(m.blocks) : y.kind = "cut"}}
    BY ByElements DEF CutIds
  <2> QED BY <2>1 DEF ResultKinds
<1>8. Cardinality(CutIds(m)) \in Nat /\ Cardinality(CutIds(m)) <= Len(results)
  <2> DEFINE name == [n \in 1..Len(results) |-> results[n].id]
  <2>1. Len(results) \in Nat /\ DOMAIN results = 1..Len(results) BY <1>5
  <2>2. \A n \in 1..Len(results) : results[n].id \in CutIds(m) BY <1>2, <1>7
  <2>3. \A id \in CutIds(m) : \E n \in 1..Len(results) : name[n] = id
    <3> TAKE id \in CutIds(m)
    <3>1. PICK x \in Elements(m.blocks) : x.kind \in ResultKinds /\ x.id = id BY <1>7
    <3>2. x \in Elements(results) BY <3>1, <1>5
    <3>3. PICK n \in 1..Len(results) : results[n] = x BY <3>2, <2>1 DEF Elements
    <3> QED BY <3>1, <3>3
  <2>4. name \in Surjection(1..Len(results), CutIds(m)) BY <2>2, <2>3 DEF Surjection
  <2> HIDE DEF name
  <2>5. IsFiniteSet(1..Len(results)) /\ Cardinality(1..Len(results)) = Len(results)
    <3>1. 1 \in Int /\ Len(results) \in Int BY <2>1
    <3>2. /\ IsFiniteSet(1..Len(results))
          /\ Cardinality(1..Len(results)) = IF 1 > Len(results) THEN 0 ELSE Len(results) - 1 + 1
      BY <3>1, FS_Interval
    <3>3. (IF 1 > Len(results) THEN 0 ELSE Len(results) - 1 + 1) = Len(results) BY <2>1
    <3> QED BY <3>2, <3>3
  <2>6. IsFiniteSet(CutIds(m)) /\ Cardinality(CutIds(m)) <= Cardinality(1..Len(results))
    BY <2>4, <2>5, FS_Surjection
  <2> QED BY <2>5, <2>6, FS_CardinalityType
<1>9. ASSUME NEW k \in 1..Len(results) PROVE CutIds(wires[k]) \subseteq CutIds(m)
  <2>1. wires[k].blocks = <<results[k]>> /\ results[k] \in Elements(m.blocks) /\ results[k].kind \in ResultKinds
    BY <1>2
  <2>2. \A kind : IdsOf(wires[k], kind) \subseteq {results[k].id}
    <3>1. DOMAIN wires[k].blocks = {1} /\ wires[k].blocks[1] = results[k] BY <2>1
    <3> QED BY <3>1 DEF IdsOf
  <2>3. CutIds(wires[k]) \subseteq {results[k].id} BY <2>2 DEF CutIds
  <2>4. results[k].id \in CutIds(m) BY <2>1, <1>7
  <2> QED BY <2>3, <2>4
<1> QED BY <1>2, <1>6, <1>8, <1>9

-----------------------------------------------------------------------------
\* Results follow calls.

\* Positions next to each other stay next to each other.
LEMMA PositionBefore ==
    ASSUME NEW P, NEW at, Lists(at, P), NEW k \in 1..Len(at), at[k] - 1 \in P
    PROVE  k > 1 /\ at[k - 1] = at[k] - 1
<1>1. at \in Seq(Nat) /\ Len(at) \in Nat /\ \A i, j \in 1..Len(at) : i < j => at[i] < at[j]
  BY DEF Lists, Increasing
<1>2. PICK j \in 1..Len(at) : at[j] = at[k] - 1
  <2>1. at[k] - 1 \in {at[x] : x \in DOMAIN at} BY DEF Lists
  <2>2. DOMAIN at = 1..Len(at) BY <1>1
  <2> QED BY <2>1, <2>2
<1>3. at[j] \in Nat /\ at[k] \in Nat BY <1>1
<1>4. j < k
  <2>1. ~(j > k) BY <1>1, <1>2, <1>3
  <2>2. j # k BY <1>2, <1>3
  <2> QED BY <2>1, <2>2
<1>5. ~(j < k - 1)
  <2> SUFFICES ASSUME j < k - 1 PROVE FALSE OBVIOUS
  <2>1. k - 1 \in 1..Len(at) /\ k - 1 < k BY <1>1
  <2>2. at[j] < at[k - 1] /\ at[k - 1] < at[k] /\ at[k - 1] \in Nat BY <1>1, <2>1
  <2> QED BY <2>2, <1>2, <1>3
<1>6. j = k - 1 BY <1>4, <1>5
<1> QED BY <1>2, <1>4, <1>6

\* The same of the position behind.
LEMMA PositionAfter ==
    ASSUME NEW P, NEW at, Lists(at, P), NEW k \in 1..Len(at), at[k] + 1 \in P
    PROVE  k + 1 \in 1..Len(at) /\ at[k + 1] = at[k] + 1
<1>1. at \in Seq(Nat) /\ Len(at) \in Nat /\ \A i, j \in 1..Len(at) : i < j => at[i] < at[j]
  BY DEF Lists, Increasing
<1>2. PICK j \in 1..Len(at) : at[j] = at[k] + 1
  BY <1>1 DEF Lists
<1>3. at[j] \in Nat /\ at[k] \in Nat /\ at[j] - 1 = at[k] BY <1>1, <1>2
<1>4. at[k] \in P BY <1>1 DEF Lists
<1>5. j > 1 /\ at[j - 1] = at[k] BY <1>3, <1>4, PositionBefore
<1>6. j - 1 = k
  <2>1. j - 1 \in 1..Len(at) BY <1>5
  <2>2. at[j - 1] \in Nat BY <1>1, <2>1
  <2>3. ~(j - 1 < k) /\ ~(j - 1 > k) BY <1>1, <1>3, <1>5, <2>1, <2>2
  <2> QED BY <2>1, <2>3
<1> QED BY <1>2, <1>6

\* The history that is sent starts with the first question.
LEMMA QuestionFirst ==
    ASSUME TalkInv, talk # <<>>, NEW P, NEW at, Whole(P), Lists(at, P)
    PROVE  Len(at) >= 1 /\ at[1] = 1
<1>1. at \in Seq(Nat) /\ Len(at) \in Nat /\ \A i, j \in 1..Len(at) : i < j => at[i] < at[j]
  BY DEF Lists, Increasing
<1>2. 1 \in 1..Len(talk)
  <2>1. talk \in Seq(TalkMessages) BY DEF TalkInv, TalkOk
  <2>2. Len(talk) \in Nat /\ Len(talk) # 0 BY <2>1
  <2> QED BY <2>2
<1>3. 1 \in P BY <1>2 DEF TalkInv, TalkOk, Whole
<1>4. PICK j \in 1..Len(at) : at[j] = 1 BY <1>1, <1>3 DEF Lists
<1>5. 1 \in 1..Len(at) /\ at[1] \in 1..Len(talk)
  <2>1. 1 \in 1..Len(at) BY <1>1
  <2>2. at[1] \in P BY <2>1, <1>1 DEF Lists
  <2> QED BY <2>1, <2>2 DEF Whole
<1>6. ~(1 < j) BY <1>1, <1>4, <1>5
<1> QED BY <1>4, <1>5, <1>6

\* What comes behind a call that was answered.
Answers(m, next) ==
    /\ m.role = "assistant" /\ next.role = "user"
    /\ IdsOf(m, "use") \subseteq AnsweredCalls
    /\ Kinds(next) \subseteq ResultKinds /\ CutIds(next) = IdsOf(m, "use")

\* In what is left a round of tools is whole, its results behind its calls.
LEMMA RoundsStayWhole ==
    ASSUME TalkInv, NEW k \in 1..Len(Trimmed)
    PROVE  /\ CutIds(Trimmed[k]) # {} => k > 1 /\ CutIds(Trimmed[k]) = IdsOf(Trimmed[k - 1], "use")
           /\ IdsOf(Trimmed[k], "use") \cap AnsweredCalls # {} =>
                k + 1 \in 1..Len(Trimmed) /\ Answers(Trimmed[k], Trimmed[k + 1])
<1>1. PICK P, at : /\ Whole(P) /\ Lists(at, P)
                   /\ Trimmed \in Seq(SentMessages) /\ Len(Trimmed) = Len(at)
                   /\ \A i \in 1..Len(at) : Looks(Trimmed[i], talk[at[i]])
  BY TrimmedLooks DEF Keeps
<1>2. at \in Seq(Nat) /\ Len(at) \in Nat /\ \A i \in 1..Len(at) : at[i] \in P /\ at[i] \in 1..Len(talk)
  BY <1>1 DEF Lists, Whole
<1>3. \A n \in 1..Len(talk) : Shaped(talk, n) BY DEF TalkInv, TalkOk
<1>4. k \in 1..Len(at) /\ at[k] \in P /\ at[k] \in 1..Len(talk) BY <1>1, <1>2
<1>5. Looks(Trimmed[k], talk[at[k]]) BY <1>1, <1>4
<1>6. ASSUME CutIds(Trimmed[k]) # {}
      PROVE  k > 1 /\ CutIds(Trimmed[k]) = IdsOf(Trimmed[k - 1], "use")
  <2>1. CutIds(Trimmed[k]) = IdsOf(talk[at[k]], "result") BY <1>5 DEF Looks
  <2>2. "result" \in Kinds(talk[at[k]]) BY <2>1, <1>6, KindsHaveIds
  <2>3. IdsOf(talk[at[k]], "result") = IdsOf(talk[at[k] - 1], "use")
    BY <2>2, <1>3, <1>4 DEF Shaped
  <2>4. at[k] - 1 \in P BY <2>2, <1>1, <1>4 DEF Whole
  <2>5. k > 1 /\ at[k - 1] = at[k] - 1 BY <2>4, <1>1, <1>4, PositionBefore
  <2>6. k - 1 \in 1..Len(at) BY <2>5, <1>4
  <2>7. IdsOf(Trimmed[k - 1], "use") = IdsOf(talk[at[k - 1]], "use") BY <2>6, <1>1 DEF Looks
  <2> QED BY <2>1, <2>3, <2>5, <2>7
<1>7. ASSUME IdsOf(Trimmed[k], "use") \cap AnsweredCalls # {}
      PROVE  k + 1 \in 1..Len(Trimmed) /\ Answers(Trimmed[k], Trimmed[k + 1])
  <2>1. IdsOf(Trimmed[k], "use") = IdsOf(talk[at[k]], "use") BY <1>5 DEF Looks
  <2>2. PICK id : id \in IdsOf(talk[at[k]], "use") /\ id \in AnsweredCalls BY <1>7, <2>1
  <2>3. PICK r \in 1..Len(talk) : id \in IdsOf(talk[r], "result")
    <3>1. talk \in Seq(TalkMessages) BY DEF TalkInv, TalkOk
    <3> QED BY <2>2, <3>1 DEF AnsweredCalls
  <2>4. "result" \in Kinds(talk[r]) BY <2>3, KindsHaveIds
  <2>5. r > 1 /\ IdsOf(talk[r], "result") = IdsOf(talk[r - 1], "use")
    BY <2>4, <1>3 DEF Shaped
  <2>6. r - 1 \in 1..Len(talk) BY <2>5
  <2>7. id[1] = r - 1 BY <2>3, <2>5, <2>6, <1>3 DEF Shaped
  <2>8. id[1] = at[k] BY <2>2, <1>3, <1>4 DEF Shaped
  <2>9. r = at[k] + 1 BY <2>7, <2>8, <1>4
  <2>10. r \in P
    <3>1. r - 1 \in P BY <2>7, <2>8, <1>4
    <3> QED BY <3>1, <2>4, <1>1 DEF Whole
  <2>11. k + 1 \in 1..Len(at) /\ at[k + 1] = r
    BY <2>9, <2>10, <1>1, <1>4, PositionAfter
  <2>12. Looks(Trimmed[k + 1], talk[r]) BY <2>11, <1>1
  <2>13. talk[r].role = "user" /\ Kinds(talk[r]) = {"result"}
    <3>1. talk[r] \in TalkMessages BY <2>3 DEF TalkInv, TalkOk
    <3>2. talk[r].role \in {"user", "assistant"} BY <3>1 DEF TalkMessages
    <3>3. talk[r].role # "assistant" BY <2>4, <1>3 DEF Shaped
    <3>4. talk[r].role = "user" BY <3>2, <3>3
    <3>5. Kinds(talk[r]) \in {{"text"}, {"image", "text"}, {"note"}, {"result"}}
      BY <3>4, <1>3 DEF Shaped
    <3> QED BY <3>4, <3>5, <2>4
  <2>14. talk[at[k]].role = "assistant"
    <3>1. talk[at[k]] \in TalkMessages BY <1>4 DEF TalkInv, TalkOk
    <3>2. talk[at[k]].role \in {"user", "assistant"} BY <3>1 DEF TalkMessages
    <3>3. "use" \in Kinds(talk[at[k]]) BY <2>2, KindsHaveIds
    <3>4. talk[at[k]].role = "user" =>
            Kinds(talk[at[k]]) \in {{"text"}, {"image", "text"}, {"note"}, {"result"}}
      BY <1>3, <1>4 DEF Shaped
    <3> QED BY <3>2, <3>3, <3>4
  <2>15. IdsOf(Trimmed[k], "use") \subseteq AnsweredCalls
    <3>1. IdsOf(Trimmed[k], "use") = IdsOf(talk[r], "result") BY <2>1, <2>5, <2>7, <2>8
    <3>2. r \in DOMAIN talk
      <4>1. talk \in Seq(TalkMessages) BY DEF TalkInv, TalkOk
      <4> QED BY <4>1, <2>3
    <3> QED BY <3>1, <3>2 DEF AnsweredCalls
  <2>16. CutIds(Trimmed[k + 1]) = IdsOf(Trimmed[k], "use")
    BY <2>1, <2>5, <2>7, <2>8, <2>12 DEF Looks
  <2>17. Kinds(Trimmed[k + 1]) \subseteq ResultKinds BY <2>12, <2>13 DEF Looks, ResultKinds
  <2>18. Trimmed[k].role = "assistant" /\ Trimmed[k + 1].role = "user"
    BY <2>12, <2>13, <2>14, <1>5 DEF Looks
  <2> QED BY <2>11, <2>15, <2>16, <2>17, <2>18, <1>1 DEF Answers
<1> QED BY <1>6, <1>7

\* A summary holds no call and no result.
LEMMA SummaryIsQuiet ==
    ASSUME NEW ms
    PROVE  /\ Kinds(SummaryOf(ms)) = {"summary"}
           /\ IdsOf(SummaryOf(ms), "use") = {} /\ CutIds(SummaryOf(ms)) = {}
<1> DEFINE texts == UNION {IdsOf(Quoted(ms)[n], "text") : n \in DOMAIN Quoted(ms)}
<1>1. SummaryOf(ms).blocks = <<Block("summary", texts)>> BY DEF SummaryOf, Message
<1> HIDE DEF texts
<1>2. /\ DOMAIN SummaryOf(ms).blocks = {1}
      /\ SummaryOf(ms).blocks[1].kind = "summary"
  BY <1>1 DEF Block
<1>3. Kinds(SummaryOf(ms)) = {"summary"} BY <1>2 DEF Kinds
<1>4. "use" \notin Kinds(SummaryOf(ms)) /\ "result" \notin Kinds(SummaryOf(ms))
      /\ "cut" \notin Kinds(SummaryOf(ms))
  BY <1>3
<1> QED BY <1>3, <1>4, KindsHaveIds DEF CutIds

\* The same of what is sent: only the summary can stand between a call and its
\* results, and only at one place.
LEMMA SentStaysWhole ==
    ASSUME TalkInv, RequestAssumption, talk # <<>>,
           NEW sent, Sends(sent, Trimmed), NEW j \in 1..Len(sent)
    PROVE  /\ CutIds(sent[j]) # {} =>
                \/ j > 1 /\ CutIds(sent[j]) = IdsOf(sent[j - 1], "use")
                \/ j = 3 /\ "summary" \in Kinds(sent[2])
           /\ IdsOf(sent[j], "use") \cap AnsweredCalls # {} =>
                j + 1 \in 1..Len(sent) /\ Answers(sent[j], sent[j + 1])
<1> DEFINE L == Len(Trimmed)
<1>1. CASE sent = Trimmed
  BY <1>1, RoundsStayWhole
<1>2. CASE sent # Trimmed
  <2>1. /\ L > KeepRecent + 1 /\ Len(sent) = KeepRecent + 2
        /\ sent[1] = Trimmed[1] /\ sent[2] = SummaryOf(SubSeq(Trimmed, 2, L - KeepRecent))
        /\ \A i \in 3..KeepRecent + 2 : sent[i] = Trimmed[L - KeepRecent + i - 2]
    BY <1>2 DEF Sends
  <2>2. KeepRecent \in Nat \ {0} BY DEF RequestAssumption
  <2>3. L \in Nat /\ 1 \in 1..L
    <3>1. Trimmed \in Seq(SentMessages) BY TrimmedTexts
    <3>2. L \in Nat BY <3>1
    <3> QED BY <3>2, <2>1, <2>2
  <2>4. CASE j = 1
    <3>1. PICK P, at : /\ Whole(P) /\ Lists(at, P)
                       /\ Trimmed \in Seq(SentMessages) /\ Len(Trimmed) = Len(at)
                       /\ \A i \in 1..Len(at) : Looks(Trimmed[i], talk[at[i]])
      BY TrimmedLooks DEF Keeps
    <3>2. at[1] = 1 BY <3>1, QuestionFirst
    <3>3. Looks(Trimmed[1], talk[1]) BY <3>1, <3>2, <2>3
    <3>4. Asks(talk[1]) BY DEF TalkInv, TalkOk
    <3>5. 1 \in 1..Len(talk)
      <4>1. 1 \in P BY <3>1, <3>2, <2>3 DEF Lists
      <4> QED BY <4>1, <3>1 DEF Whole
    <3>6. Kinds(talk[1]) \in {{"text"}, {"image", "text"}, {"note"}, {"result"}}
      BY <3>4, <3>5 DEF TalkInv, TalkOk, Shaped, Asks
    <3>7. "use" \notin Kinds(talk[1]) /\ "result" \notin Kinds(talk[1])
      <4>1. "text" \in Kinds(talk[1]) BY <3>4 DEF Asks
      <4> QED BY <4>1, <3>6
    <3>8. IdsOf(talk[1], "use") = {} /\ IdsOf(talk[1], "result") = {} BY <3>7, KindsHaveIds
    <3>9. IdsOf(Trimmed[1], "use") = {} /\ CutIds(Trimmed[1]) = {} BY <3>3, <3>8 DEF Looks
    <3> QED BY <3>9, <2>1, <2>4
  <2>5. CASE j = 2
    BY <2>1, <2>5, SummaryIsQuiet
  <2>6. CASE j \in 3..KeepRecent + 2
    <3> DEFINE k == L - KeepRecent + j - 2
    <3>1. k \in 1..L /\ k > 1 /\ sent[j] = Trimmed[k]
      <4>1. k \in 1..L /\ k > 1 BY <2>1, <2>2, <2>3, <2>6
      <4> QED BY <4>1, <2>1, <2>6
    <3>2. ASSUME CutIds(sent[j]) # {}
          PROVE  \/ j > 1 /\ CutIds(sent[j]) = IdsOf(sent[j - 1], "use")
                 \/ j = 3 /\ "summary" \in Kinds(sent[2])
      <4>1. CASE j = 3
        BY <4>1, <2>1, SummaryIsQuiet
      <4>2. CASE j # 3
        <5>1. j - 1 \in 3..KeepRecent + 2 /\ L - KeepRecent + (j - 1) - 2 = k - 1
          BY <4>2, <2>2, <2>3, <2>6
        <5>2. sent[j - 1] = Trimmed[k - 1] BY <5>1, <2>1
        <5> HIDE DEF k
        <5>3. CutIds(Trimmed[k]) = IdsOf(Trimmed[k - 1], "use")
          BY <3>1, <3>2, RoundsStayWhole
        <5> QED BY <5>2, <5>3, <3>1, <2>6
      <4> QED BY <4>1, <4>2
    <3>3. ASSUME IdsOf(sent[j], "use") \cap AnsweredCalls # {}
          PROVE  j + 1 \in 1..Len(sent) /\ Answers(sent[j], sent[j + 1])
      <4>1. k + 1 \in 1..L /\ Answers(Trimmed[k], Trimmed[k + 1])
        <5> HIDE DEF k
        <5> QED BY <3>1, <3>3, RoundsStayWhole
      <4>2. j + 1 \in 3..KeepRecent + 2 /\ L - KeepRecent + (j + 1) - 2 = k + 1
        BY <4>1, <2>2, <2>3, <2>6
      <4>3. sent[j + 1] = Trimmed[k + 1] BY <4>2, <2>1
      <4> QED BY <4>1, <4>2, <4>3, <3>1, <2>1, <2>2
    <3> QED BY <3>2, <3>3
  <2> QED BY <2>1, <2>2, <2>4, <2>5, <2>6
<1> QED BY <1>1, <1>2

\* There is a message to send, so there is one on the wire.
LEMMA SomethingSent ==
    ASSUME TalkInv, RequestAssumption, talk # <<>>
    PROVE  Len(ProcessMessages(talk)) >= 1
<1> DEFINE sent == ProcessMessages(talk)
<1>1. sent \in Seq(SentMessages) /\ Sends(sent, Trimmed) BY WindowKeeps
<1> HIDE DEF sent
<1>2. CASE sent = Trimmed
  <2>1. PICK P, at : Whole(P) /\ Lists(at, P) /\ Len(Trimmed) = Len(at) BY TrimmedLooks DEF Keeps
  <2> QED BY <2>1, <1>2, QuestionFirst DEF sent
<1>3. CASE sent # Trimmed
  <2>1. Len(sent) = KeepRecent + 2 /\ KeepRecent \in Nat BY <1>1, <1>3 DEF Sends, RequestAssumption
  <2> QED BY <2>1 DEF sent
<1> QED BY <1>2, <1>3

\* On the wire the results of a call stand behind it, one after the other.
LEMMA WireFollows ==
    ASSUME TalkInv, RequestAssumption, talk # <<>>,
           NEW n \in DOMAIN OpenAIMessages(ContextMessages)
    PROVE  LET wire == OpenAIMessages(ContextMessages)
               calls == IdsOf(wire[n], "use") \cap AnsweredCalls
           IN \A k \in 1..Cardinality(calls) :
                n + k <= Len(wire) /\ wire[n + k].role = "tool" /\ CutIds(wire[n + k]) \subseteq calls
<1> DEFINE sent == ProcessMessages(talk)
           context == ContextMessages
           wire == OpenAIMessages(context)
           seqs == [i \in DOMAIN context |-> MessageWire(context[i])]
           calls == IdsOf(wire[n], "use") \cap AnsweredCalls
<1>1. sent \in Seq(SentMessages) /\ Sends(sent, Trimmed) /\ Len(sent) >= 1
  BY WindowKeeps, SomethingSent
<1>2. /\ context \in Seq(SentMessages) /\ Len(context) >= Len(sent)
      /\ \A i \in 1..Len(sent) : context[i] = sent[i]
      /\ \A i \in 1..Len(context) : i > Len(sent) => IdsOf(context[i], "use") = {}
  BY NotesLast
<1>3. wire = FlattenSeq(seqs) BY DEF OpenAIMessages
<1> HIDE DEF sent, context, wire
<1>4. /\ seqs \in Seq(Seq(WireMessages)) /\ Len(seqs) = Len(context)
      /\ \A i \in 1..Len(context) : seqs[i] = MessageWire(context[i])
  <2>1. \A i \in 1..Len(context) : MessageWire(context[i]) \in Seq(WireMessages)
    BY <1>2, WireOfAny
  <2>2. DOMAIN context = 1..Len(context) /\ Len(context) \in Nat BY <1>2
  <2> QED BY <2>1, <2>2
<1>5. seqs # <<>>
  <2>1. Len(seqs) >= 1 BY <1>1, <1>2, <1>4
  <2> QED BY <2>1
<1> HIDE DEF seqs
<1>6. wire \in Seq(WireMessages) /\ \E ends : Parts(wire, seqs, Len(seqs), ends)
  BY <1>3, <1>4, <1>5, FlattenParts
<1>7. PICK ends : Parts(wire, seqs, Len(seqs), ends) BY <1>6
<1>8. PICK j \in 1..Len(seqs) : \E i \in 1..Len(seqs[j]) : n = ends[j - 1] + i
  <2>1. n \in 1..Len(wire) BY <1>6 DEF wire, context
  <2> QED BY <2>1, <1>7 DEF Parts
<1>9. PICK i \in 1..Len(seqs[j]) : n = ends[j - 1] + i BY <1>8
<1>10. wire[n] = seqs[j][i] BY <1>7, <1>8, <1>9 DEF Parts
<1>11. j \in 1..Len(context) /\ seqs[j] = MessageWire(context[j]) /\ context[j] \in SentMessages
  <2>1. j \in 1..Len(context) BY <1>4, <1>8
  <2> QED BY <2>1, <1>2, <1>4
<1>12. ASSUME NEW k \in 1..Cardinality(calls)
       PROVE  n + k <= Len(wire) /\ wire[n + k].role = "tool" /\ CutIds(wire[n + k]) \subseteq calls
  <2>1. CASE calls = {}
    <3>1. Cardinality(calls) = 0 BY <2>1, FS_EmptySet
    <3> HIDE DEF calls
    <3> QED BY <3>1, <1>12
  <2>2. CASE calls # {}
    <3>1. IdsOf(wire[n], "use") \subseteq IdsOf(context[j], "use")
      BY <1>9, <1>10, <1>11, WireOfAny
    <3>2. IdsOf(context[j], "use") \cap AnsweredCalls # {} BY <3>1, <2>2
    <3>3. j \in 1..Len(sent) /\ context[j] = sent[j]
      <4>1. Len(sent) \in Nat /\ Len(context) \in Nat BY <1>1, <1>2
      <4>2. ~(j > Len(sent)) BY <3>2, <1>2, <1>11
      <4> QED BY <4>1, <4>2, <1>2, <1>11
    <3>4. j + 1 \in 1..Len(sent) /\ Answers(sent[j], sent[j + 1])
      BY <3>2, <3>3, <1>1, SentStaysWhole
    <3>5. j + 1 \in 1..Len(context) /\ context[j + 1] = sent[j + 1] /\ context[j + 1] \in SentMessages
      <4>1. Len(sent) \in Nat /\ Len(context) \in Nat BY <1>1, <1>2
      <4> QED BY <4>1, <3>4, <1>2
    <3> DEFINE next == context[j + 1]
    <3>6. /\ context[j].role = "assistant" /\ next.role = "user"
          /\ IdsOf(context[j], "use") \subseteq AnsweredCalls
          /\ Kinds(next) \subseteq ResultKinds /\ CutIds(next) = IdsOf(context[j], "use")
      BY <3>3, <3>4, <3>5 DEF Answers
    <3>7. Len(seqs[j]) = 1 /\ wire[n].blocks = context[j].blocks
      <4>1. MessageWire(context[j]) = <<Wire("assistant", context[j].blocks)>>
        BY <3>6 DEF MessageWire, AssistantWire
      <4>2. context[j].blocks \in Seq(SentBlocks) BY <1>11 DEF SentMessages
      <4>3. /\ Len(seqs[j]) = 1 /\ seqs[j][1].blocks = context[j].blocks
        BY <4>1, <4>2, <1>11, WireAsSaid
      <4>4. i = 1 BY <4>3, <1>9
      <4> QED BY <4>3, <4>4, <1>10
    <3>8. calls = CutIds(next)
      <4>1. IdsOf(wire[n], "use") = IdsOf(context[j], "use") BY <3>7 DEF IdsOf
      <4> QED BY <4>1, <3>6
    <3>9. j + 1 \in 1..Len(seqs) /\ seqs[j + 1] = MessageWire(next)
      BY <3>5, <1>4
    <3>10. ends[j] = n
      <4>1. ends[j] = ends[j - 1] + Len(seqs[j]) BY <1>7, <1>8 DEF Parts
      <4>2. i = 1 BY <3>7, <1>9
      <4> QED BY <4>1, <4>2, <3>7, <1>9
    <3>11. /\ Cardinality(calls) \in Nat /\ Cardinality(calls) <= Len(seqs[j + 1])
           /\ \A q \in 1..Len(seqs[j + 1]) :
                seqs[j + 1][q].role = "tool" /\ CutIds(seqs[j + 1][q]) \subseteq calls
      BY <3>5, <3>6, <3>8, <3>9, WireOfResults
    <3>12. k \in 1..Len(seqs[j + 1])
      <4>1. seqs[j + 1] \in Seq(WireMessages) BY <3>9, <1>4
      <4>2. Len(seqs[j + 1]) \in Nat BY <4>1
      <4> HIDE DEF calls
      <4> QED BY <4>2, <3>11, <1>12
    <3>13. n + k \in 1..Len(wire) /\ wire[n + k] = seqs[j + 1][k]
      <4>1. (j + 1) - 1 = j BY <1>8
      <4> QED BY <4>1, <3>9, <3>10, <3>12, <1>7 DEF Parts
    <3>14. n + k <= Len(wire)
      <4>1. Len(wire) \in Nat BY <1>6
      <4> QED BY <4>1, <3>13
    <3> QED BY <3>11, <3>12, <3>13, <3>14
  <2> QED BY <2>1, <2>2
<1> QED BY <1>12 DEF wire, context

\* Every call that was answered has its results behind it.
LEMMA CallsAreFollowed ==
    ASSUME TalkInv, RequestAssumption PROVE ResultsFollowCalls
<1> SUFFICES ASSUME ModelsTurn PROVE ResultsFollowCalls
  BY DEF ResultsFollowCalls
<1> DEFINE sent == ProcessMessages(talk)
           wire == OpenAIMessages(ContextMessages)
<1>1. talk # <<>> BY DEF ModelsTurn
<1>2. \A n \in DOMAIN wire :
        LET calls == IdsOf(wire[n], "use") \cap AnsweredCalls
        IN \A k \in 1..Cardinality(calls) :
             n + k <= Len(wire) /\ wire[n + k].role = "tool" /\ CutIds(wire[n + k]) \subseteq calls
  BY <1>1, WireFollows
<1>3. sent \in Seq(SentMessages) /\ Sends(sent, Trimmed) BY WindowKeeps
<1> HIDE DEF sent
<1>4. \A n \in 1..Len(sent) :
        CutIds(sent[n]) # {} =>
            \/ n > 1 /\ CutIds(sent[n]) = IdsOf(sent[n - 1], "use")
            \/ n = 3 /\ "summary" \in Kinds(sent[2])
  BY <1>1, <1>3, SentStaysWhole
<1>5. DOMAIN sent = 1..Len(sent) BY <1>3
<1> HIDE DEF wire
<1> QED BY <1>2, <1>4, <1>5 DEF ResultsFollowCalls, sent, wire

\* Whatever is dropped, summarised or added, every answered call that is sent
\* has its results behind it on the wire, one after the other, and results are
\* sent without their calls only behind the summary (context_manager.py,
\* canonical.py).
THEOREM SpecResultsFollowCalls == RequestSpec => []ResultsFollowCalls
<1>1. TalkInv => ResultsFollowCalls BY CallsAreFollowed, RequestAssumption
<1> QED BY <1>1, SpecTalkInv, PTL

-----------------------------------------------------------------------------
\* The question survives.

\* Once two of the lists of a summary are that long, the last ones are quoted.
LEMMA QuotedOrBuried ==
    ASSUME RequestAssumption, NEW ms \in Seq(SentMessages),
           NEW i \in 1..Len(ms), "text" \in Kinds(ms[i])
    PROVE  \/ \E n \in DOMAIN Quoted(ms) : Quoted(ms)[n] = ms[i]
           \/ \E f \in [1..SummaryTurns -> i + 1..Len(ms)] :
                /\ \A x \in 1..SummaryTurns : Kinds(ms[f[x]]) \cap {"text", "note"} # {}
                /\ \A x, y \in 1..SummaryTurns : x < y => f[x] < f[y]
<1> DEFINE P == {n \in DOMAIN ms : Kinds(ms[n]) \cap {"text", "note"} # {}}
           spoken == Spoken(ms)
<1>1. P \subseteq 1..Len(ms) /\ i \in P /\ \A n \in P : Kinds(ms[n]) \cap {"text", "note"} # {}
  OBVIOUS
<1>2. spoken = Kept(ms, P) BY DEF Spoken
<1> HIDE DEF P, spoken
<1>3. PICK e : Lists(e, P) /\ spoken = Taken(ms, e)
  BY <1>1, <1>2, KeptLists
<1> DEFINE N == Len(e)
<1>4. e \in Seq(Nat) /\ N \in Nat /\ \A x \in 1..N : e[x] \in P /\ e[x] \in 1..Len(ms)
  BY <1>1, <1>3 DEF Lists
<1>5. \A x, y \in 1..N : x < y => e[x] < e[y]
  BY <1>3, <1>4 DEF Lists, Increasing
<1>6. /\ spoken \in Seq(SentMessages) /\ Len(spoken) = N
      /\ \A x \in 1..N : spoken[x] = ms[e[x]]
  <2>1. spoken = [x \in 1..N |-> ms[e[x]]] BY <1>3 DEF Taken
  <2>2. \A x \in 1..N : ms[e[x]] \in SentMessages BY <1>4
  <2> QED BY <2>1, <2>2, <1>4
<1>7. PICK q \in 1..N : e[q] = i
  BY <1>1, <1>3, <1>4 DEF Lists
<1>8. SummaryTurns \in Nat \ {0} BY DEF RequestAssumption
<1>9. CASE N <= SummaryTurns
  <2>1. Quoted(ms) = spoken BY <1>6, <1>9 DEF Quoted, spoken
  <2>2. q \in DOMAIN spoken /\ spoken[q] = ms[i] BY <1>6, <1>7
  <2> QED BY <2>1, <2>2
<1>10. CASE N > SummaryTurns /\ q > N - SummaryTurns
  <2>1. Quoted(ms) = SubSeq(spoken, N - SummaryTurns + 1, N)
    <3>1. ~(Len(spoken) <= SummaryTurns) BY <1>4, <1>6, <1>8, <1>10
    <3> QED BY <3>1, <1>6 DEF Quoted, spoken
  <2>2. N - SummaryTurns + 1 \in 1..Len(spoken) + 1 /\ N \in N - SummaryTurns + 1 - 1..Len(spoken)
    BY <1>4, <1>6, <1>8, <1>10
  <2>3. /\ Quoted(ms) \in Seq(SentMessages) /\ Len(Quoted(ms)) = N - (N - SummaryTurns + 1) + 1
        /\ \A n \in 1..N - (N - SummaryTurns + 1) + 1 :
             Quoted(ms)[n] = spoken[N - SummaryTurns + 1 + n - 1]
    BY <2>1, <2>2, <1>6, SubSeqProperties
  <2> DEFINE n == q - (N - SummaryTurns)
  <2>4. n \in 1..N - (N - SummaryTurns + 1) + 1 /\ N - SummaryTurns + 1 + n - 1 = q
    BY <1>4, <1>7, <1>8, <1>10
  <2> HIDE DEF n
  <2>5. Quoted(ms)[n] = spoken[q] BY <2>3, <2>4
  <2>6. n \in 1..Len(Quoted(ms)) BY <2>3, <2>4
  <2>7. DOMAIN Quoted(ms) = 1..Len(Quoted(ms)) BY <2>3
  <2> QED BY <2>5, <2>6, <2>7, <1>6, <1>7
<1>11. CASE N > SummaryTurns /\ q <= N - SummaryTurns
  <2> DEFINE f == [x \in 1..SummaryTurns |-> e[q + x]]
  <2>1. ASSUME NEW x \in 1..SummaryTurns
        PROVE  /\ q + x \in 1..N /\ e[q + x] \in i + 1..Len(ms)
               /\ Kinds(ms[e[q + x]]) \cap {"text", "note"} # {}
    <3>1. q + x \in 1..N /\ q < q + x BY <1>4, <1>7, <1>8, <1>11
    <3>2. i < e[q + x] /\ e[q + x] \in P /\ e[q + x] \in 1..Len(ms)
      BY <3>1, <1>4, <1>5, <1>7
    <3>3. Kinds(ms[e[q + x]]) \cap {"text", "note"} # {} BY <3>2, <1>1
    <3>4. \A p \in 1..Len(ms) : i < p => p \in i + 1..Len(ms) OBVIOUS
    <3> QED BY <3>1, <3>2, <3>3, <3>4
  <2>2. f \in [1..SummaryTurns -> i + 1..Len(ms)] BY <2>1
  <2>3. \A x \in 1..SummaryTurns : f[x] = e[q + x] OBVIOUS
  <2>4. ASSUME NEW x \in 1..SummaryTurns, NEW y \in 1..SummaryTurns, x < y PROVE f[x] < f[y]
    <3>1. q + x < q + y BY <2>4, <1>8
    <3> QED BY <3>1, <2>1, <2>3, <1>5
  <2>5. \A x \in 1..SummaryTurns : Kinds(ms[f[x]]) \cap {"text", "note"} # {} BY <2>1
  <2> HIDE DEF f
  <2>6. \A x, y \in 1..SummaryTurns : x < y => f[x] < f[y] BY <2>4
  <2> QED BY <2>2, <2>5, <2>6
<1> HIDE DEF N
<1>12. \/ N <= SummaryTurns
       \/ N > SummaryTurns /\ q > N - SummaryTurns
       \/ N > SummaryTurns /\ q <= N - SummaryTurns
  BY <1>4, <1>7, <1>8
<1> QED BY <1>9, <1>10, <1>11, <1>12

Asked == {n \in DOMAIN talk : talk[n].role = "user" /\ "text" \in Kinds(talk[n])}

\* Once there is a history, one question is the last.
LEMMA AskedLast ==
    ASSUME TalkInv, talk # <<>>
    PROVE  \E n \in Asked : \A m \in Asked : m <= n
<1>1. talk \in Seq(TalkMessages) /\ Len(talk) \in Nat /\ DOMAIN talk = 1..Len(talk) /\ Asks(talk[1])
  BY DEF TalkInv, TalkOk
<1>2. 1 \in Asked
  <2>1. Len(talk) # 0 BY <1>1
  <2>2. 1 \in DOMAIN talk BY <2>1, <1>1
  <2> QED BY <2>2, <1>1 DEF Asked, Asks
<1>3. Asked \subseteq 1..Len(talk) BY <1>1 DEF Asked
<1> DEFINE behind == {Len(talk) - n : n \in Asked}
<1>4. behind \in SUBSET Nat /\ behind # {} BY <1>1, <1>2, <1>3
<1>5. PICK b \in behind : \A c \in behind : b <= c BY <1>4, LeastPosition
<1>6. PICK n \in Asked : b = Len(talk) - n BY <1>5
<1>7. \A m \in Asked : m <= n
  <2> TAKE m \in Asked
  <2>1. b <= Len(talk) - m BY <1>5
  <2> QED BY <2>1, <1>1, <1>3, <1>6
<1> QED BY <1>7

\* What a text or a note is in the history it is in what is left of it.
LEMMA SpokenStays ==
    ASSUME NEW m, NEW said, Looks(m, said)
    PROVE  Kinds(m) \cap {"text", "note"} # {} => Kinds(said) \cap {"text", "note"} # {}
<1>1. IdsOf(m, "text") = IdsOf(said, "text") /\ IdsOf(m, "note") = IdsOf(said, "note") BY DEF Looks
<1>2. "text" \in Kinds(m) <=> "text" \in Kinds(said) BY <1>1, KindsHaveIds
<1>3. "note" \in Kinds(m) <=> "note" \in Kinds(said) BY <1>1, KindsHaveIds
<1> QED BY <1>2, <1>3

SpokenAfter(p) == {n \in DOMAIN talk : n > p /\ Kinds(talk[n]) \cap {"text", "note"} # {}}

\* A question that is only in the summary is quoted there, or enough was said
\* after it.
LEMMA QuestionQuoted ==
    ASSUME TalkInv, RequestAssumption, NEW P, NEW at, Keeps(P, at),
           NEW top \in 1..Len(Trimmed), NEW k \in 2..top, "text" \in Kinds(Trimmed[k])
    PROVE  \/ \E ids \in IdsOf(SummaryOf(SubSeq(Trimmed, 2, top)), "summary") :
                IdsOf(Trimmed[k], "text") \subseteq ids
           \/ Cardinality(SpokenAfter(at[k])) >= SummaryTurns
<1> DEFINE middle == SubSeq(Trimmed, 2, top)
           texts == UNION {IdsOf(Quoted(middle)[n], "text") : n \in DOMAIN Quoted(middle)}
           after == SpokenAfter(at[k])
<1>1. Whole(P) /\ Lists(at, P) BY DEF Keeps
<1>2. /\ Trimmed \in Seq(SentMessages) /\ Len(Trimmed) = Len(at)
      /\ \A x \in 1..Len(at) : Looks(Trimmed[x], talk[at[x]])
  BY DEF Keeps
<1>3. /\ at \in Seq(Nat) /\ Len(at) \in Nat /\ \A x \in 1..Len(at) : at[x] \in 1..Len(talk)
      /\ \A x, y \in 1..Len(at) : x < y => at[x] < at[y]
  <2>1. at \in Seq(Nat) /\ \A x, y \in 1..Len(at) : x < y => at[x] < at[y] BY <1>1 DEF Lists, Increasing
  <2>2. \A x \in 1..Len(at) : at[x] \in P BY <1>1, <2>1 DEF Lists
  <2> QED BY <1>1, <2>1, <2>2 DEF Whole
<1>4. /\ middle \in Seq(SentMessages) /\ Len(middle) = top - 1
      /\ \A n \in 1..top - 1 : middle[n] = Trimmed[n + 1] /\ n + 1 \in 1..Len(at)
  <2>1. 2 \in 1..Len(Trimmed) + 1 /\ top \in 2 - 1..Len(Trimmed) BY <1>2, <1>3
  <2>2. /\ middle \in Seq(SentMessages) /\ Len(middle) = top - 2 + 1
        /\ \A n \in 1..top - 2 + 1 : middle[n] = Trimmed[2 + n - 1]
    BY <1>2, <2>1, SubSeqProperties
  <2> HIDE DEF middle
  <2>3. \A n \in 1..top - 1 : 2 + n - 1 = n + 1 /\ n + 1 \in 1..Len(at) BY <1>2, <1>3
  <2> QED BY <2>2, <2>3, <1>3
<1>5. k - 1 \in 1..Len(middle) /\ middle[k - 1] = Trimmed[k] BY <1>3, <1>4
<1>6. talk \in Seq(TalkMessages) /\ DOMAIN talk = 1..Len(talk) /\ Len(talk) \in Nat
  BY DEF TalkInv, TalkOk
<1>7. SummaryTurns \in Nat \ {0} BY DEF RequestAssumption
<1> HIDE DEF middle
<1>8. CASE \E n \in DOMAIN Quoted(middle) : Quoted(middle)[n] = Trimmed[k]
  <2>1. IdsOf(Trimmed[k], "text") \subseteq texts BY <1>8
  <2>2. SummaryOf(middle).blocks = <<Block("summary", texts)>> BY DEF SummaryOf, Message
  <2> HIDE DEF texts
  <2>3. /\ 1 \in DOMAIN SummaryOf(middle).blocks /\ SummaryOf(middle).blocks[1].kind = "summary"
        /\ SummaryOf(middle).blocks[1].id = texts
    BY <2>2 DEF Block
  <2>4. texts \in IdsOf(SummaryOf(middle), "summary") BY <2>3 DEF IdsOf
  <2> QED BY <2>1, <2>4 DEF middle
<1>9. CASE \E f \in [1..SummaryTurns -> (k - 1) + 1..Len(middle)] :
              /\ \A x \in 1..SummaryTurns : Kinds(middle[f[x]]) \cap {"text", "note"} # {}
              /\ \A x, y \in 1..SummaryTurns : x < y => f[x] < f[y]
  <2>1. PICK f \in [1..SummaryTurns -> (k - 1) + 1..Len(middle)] :
              /\ \A x \in 1..SummaryTurns : Kinds(middle[f[x]]) \cap {"text", "note"} # {}
              /\ \A x, y \in 1..SummaryTurns : x < y => f[x] < f[y]
    BY <1>9
  <2> DEFINE g == [x \in 1..SummaryTurns |-> at[f[x] + 1]]
  <2>2. ASSUME NEW x \in 1..SummaryTurns
        PROVE  f[x] \in 1..top - 1 /\ f[x] + 1 \in 1..Len(at) /\ at[f[x] + 1] \in after
    <3>1. f[x] \in 1..top - 1 /\ k < f[x] + 1 /\ k \in 1..Len(at)
      <4>1. f[x] \in (k - 1) + 1..Len(middle) BY <2>1
      <4>2. k \in 2..Len(at) /\ k \in Nat /\ top \in Nat
        <5>1. top \in 1..Len(at) /\ Len(at) \in Nat BY <1>2, <1>3
        <5> QED BY <5>1
      <4>3. f[x] \in k..top - 1
        <5>1. (k - 1) + 1 = k /\ Len(middle) = top - 1 BY <4>2, <1>4
        <5> QED BY <4>1, <5>1
      <4> QED BY <4>2, <4>3
    <3>2. middle[f[x]] = Trimmed[f[x] + 1] /\ f[x] + 1 \in 1..Len(at) BY <3>1, <1>4
    <3>3. Kinds(talk[at[f[x] + 1]]) \cap {"text", "note"} # {}
      <4>1. Looks(Trimmed[f[x] + 1], talk[at[f[x] + 1]]) BY <3>2, <1>2
      <4>2. Kinds(Trimmed[f[x] + 1]) \cap {"text", "note"} # {} BY <3>2, <2>1
      <4> QED BY <4>1, <4>2, SpokenStays
    <3>4. at[f[x] + 1] > at[k] /\ at[f[x] + 1] \in DOMAIN talk
      <4> DEFINE y == f[x] + 1
      <4>1. y \in 1..Len(at) /\ k \in 1..Len(at) /\ k < y BY <3>1, <3>2
      <4> HIDE DEF y
      <4>2. at[k] < at[y] /\ at[y] \in 1..Len(talk) /\ at[k] \in 1..Len(talk) BY <4>1, <1>3
      <4>3. at[y] > at[k] /\ at[y] \in DOMAIN talk BY <4>2, <1>6
      <4> QED BY <4>3 DEF y
    <3> QED BY <3>1, <3>2, <3>3, <3>4 DEF SpokenAfter
  <2>3. ASSUME NEW x \in 1..SummaryTurns, NEW y \in 1..SummaryTurns, x < y PROVE g[x] < g[y]
    <3>1. f[x] < f[y] BY <2>1, <2>3
    <3>2. /\ f[x] \in 1..top - 1 /\ f[y] \in 1..top - 1
          /\ f[x] + 1 \in 1..Len(at) /\ f[y] + 1 \in 1..Len(at)
      BY <2>2
    <3>3. f[x] + 1 < f[y] + 1 BY <3>1, <3>2
    <3>4. at[f[x] + 1] < at[f[y] + 1] BY <3>2, <3>3, <1>3
    <3> QED BY <3>4
  <2>4. ASSUME NEW x \in 1..SummaryTurns PROVE g[x] = at[f[x] + 1] /\ g[x] \in after /\ g[x] \in Nat
    <3>1. f[x] + 1 \in 1..Len(at) /\ at[f[x] + 1] \in after BY <2>2
    <3>2. g[x] = at[f[x] + 1] OBVIOUS
    <3>3. at[f[x] + 1] \in Nat
      <4>1. \A y \in 1..Len(at) : at[y] \in Nat BY <1>3
      <4> QED BY <4>1, <3>1
    <3> HIDE DEF g, after
    <3> QED BY <3>1, <3>2, <3>3
  <2>5. g \in [1..SummaryTurns -> after] BY <2>2
  <2> HIDE DEF g, after
  <2>6. g \in Injection(1..SummaryTurns, after)
    <3>1. ASSUME NEW x \in 1..SummaryTurns, NEW y \in 1..SummaryTurns, g[x] = g[y] PROVE x = y
      <4>1. ~(x < y) /\ ~(y < x) BY <2>3, <2>4, <3>1
      <4> QED BY <4>1, <1>7
    <3> QED BY <3>1, <2>5 DEF Injection, IsInjective
  <2>7. IsFiniteSet(after)
    <3>1. after \subseteq 1..Len(talk) BY <1>6 DEF after, SpokenAfter
    <3>2. IsFiniteSet(1..Len(talk)) BY <1>6, FS_Interval
    <3> QED BY <3>1, <3>2, FS_Subset
  <2>8. Cardinality(1..SummaryTurns) = SummaryTurns
    <3>1. Cardinality(1..SummaryTurns) = IF 1 > SummaryTurns THEN 0 ELSE SummaryTurns - 1 + 1
      BY <1>7, FS_Interval
    <3> QED BY <3>1, <1>7
  <2>9. Cardinality(1..SummaryTurns) <= Cardinality(after) BY <2>6, <2>7, FS_Injection
  <2>10. Cardinality(after) \in Nat BY <2>7, FS_CardinalityType
  <2> QED BY <2>8, <2>9, <2>10, <1>7 DEF after
<1>10. "text" \in Kinds(middle[k - 1]) BY <1>5
<1> HIDE DEF texts, after
<1>11. \/ \E n \in DOMAIN Quoted(middle) : Quoted(middle)[n] = Trimmed[k]
      \/ \E f \in [1..SummaryTurns -> (k - 1) + 1..Len(middle)] :
              /\ \A x \in 1..SummaryTurns : Kinds(middle[f[x]]) \cap {"text", "note"} # {}
              /\ \A x, y \in 1..SummaryTurns : x < y => f[x] < f[y]
  BY <1>4, <1>5, <1>10, QuotedOrBuried
<1> QED BY <1>8, <1>9, <1>11

\* The last question is sent, quoted in the summary, or buried by what was said.
LEMMA QuestionReaches ==
    ASSUME TalkInv, RequestAssumption, talk # <<>>,
           NEW latest \in Asked, \A m \in Asked : m <= latest
    PROVE  LET after == {n \in DOMAIN talk : n > latest /\ Kinds(talk[n]) \cap {"text", "note"} # {}}
               sent == ProcessMessages(talk)
           IN \/ \E n \in DOMAIN sent : latest \in IdsOf(sent[n], "text")
              \/ \E n \in DOMAIN sent : \E ids \in IdsOf(sent[n], "summary") : latest \in ids
              \/ Cardinality(after) >= SummaryTurns
<1> DEFINE sent == ProcessMessages(talk)
           after == {n \in DOMAIN talk : n > latest /\ Kinds(talk[n]) \cap {"text", "note"} # {}}
           L == Len(Trimmed)
<1>1. sent \in Seq(SentMessages) /\ Sends(sent, Trimmed) BY WindowKeeps
<1> HIDE DEF sent, after
<1>2. PICK P, at : Keeps(P, at)
  BY TrimmedLooks
<1>3. /\ Whole(P) /\ Lists(at, P)
      /\ Trimmed \in Seq(SentMessages) /\ Len(Trimmed) = Len(at)
      /\ \A x \in 1..Len(at) : Looks(Trimmed[x], talk[at[x]])
  BY <1>2 DEF Keeps
<1>4. latest \in 1..Len(talk) /\ Asks(talk[latest])
  <2>1. talk \in Seq(TalkMessages) BY DEF TalkInv, TalkOk
  <2> QED BY <2>1 DEF Asked, Asks
<1>5. PICK k \in 1..L : at[k] = latest
  <2>1. latest \in P BY <1>3, <1>4 DEF Whole
  <2>2. at \in Seq(Nat) /\ {at[k] : k \in DOMAIN at} = P BY <1>3 DEF Lists
  <2> QED BY <2>1, <2>2, <1>3
<1>6. latest \in IdsOf(Trimmed[k], "text")
  <2>1. IdsOf(Trimmed[k], "text") = IdsOf(talk[latest], "text") BY <1>3, <1>5 DEF Looks
  <2>2. IdsOf(talk[latest], "text") # {} BY <1>4, KindsHaveIds DEF Asks
  <2>3. IdsOf(talk[latest], "text") \subseteq {latest} BY <1>4 DEF TalkInv, TalkOk, Shaped
  <2> QED BY <2>1, <2>2, <2>3
<1>7. L \in Nat /\ Len(sent) \in Nat /\ DOMAIN sent = 1..Len(sent) BY <1>1, <1>3
<1>8. CASE sent = Trimmed
  BY <1>5, <1>6, <1>7, <1>8 DEF sent
<1>9. CASE sent # Trimmed
  <2> DEFINE top == L - KeepRecent
             middle == SubSeq(Trimmed, 2, top)
  <2>1. /\ L > KeepRecent + 1 /\ Len(sent) = KeepRecent + 2
        /\ sent[1] = Trimmed[1] /\ sent[2] = SummaryOf(middle)
        /\ \A i \in 3..KeepRecent + 2 : sent[i] = Trimmed[L - KeepRecent + i - 2]
    BY <1>1, <1>9 DEF Sends
  <2>2. KeepRecent \in Nat \ {0} BY DEF RequestAssumption
  <2>3. CASE k = 1
    <3>1. 1 \in DOMAIN sent BY <1>7, <2>1, <2>2
    <3> QED BY <3>1, <2>1, <2>3, <1>6 DEF sent
  <2>4. CASE k > top
    <3> DEFINE i == k - top + 2
    <3>1. i \in 3..KeepRecent + 2 /\ L - KeepRecent + i - 2 = k BY <1>5, <1>7, <2>2, <2>4
    <3> HIDE DEF i
    <3>2. i \in DOMAIN sent BY <3>1, <1>7, <2>1, <2>2
    <3>3. sent[i] = Trimmed[k] BY <3>1, <2>1
    <3> QED BY <3>2, <3>3, <1>6 DEF sent
  <2>5. CASE k # 1 /\ k <= top
    <3>1. top \in 1..Len(Trimmed) /\ k \in 2..top BY <1>5, <1>7, <2>1, <2>2, <2>5
    <3>2. "text" \in Kinds(Trimmed[k]) BY <1>6, KindsHaveIds
    <3> HIDE DEF top
    <3>3. \/ \E ids \in IdsOf(SummaryOf(SubSeq(Trimmed, 2, top)), "summary") :
                IdsOf(Trimmed[k], "text") \subseteq ids
          \/ Cardinality(SpokenAfter(at[k])) >= SummaryTurns
      BY <3>1, <3>2, <1>2, QuestionQuoted
    <3>4. CASE \E ids \in IdsOf(SummaryOf(middle), "summary") : IdsOf(Trimmed[k], "text") \subseteq ids
      <4>1. 2 \in DOMAIN sent BY <1>7, <2>1, <2>2
      <4>2. \E ids \in IdsOf(sent[2], "summary") : latest \in ids BY <3>4, <2>1, <1>6
      <4> QED BY <4>1, <4>2 DEF sent
    <3>5. CASE Cardinality(SpokenAfter(at[k])) >= SummaryTurns
      <4>1. Cardinality(after) >= SummaryTurns BY <3>5, <1>5 DEF after, SpokenAfter
      <4> QED BY <4>1 DEF after
    <3> QED BY <3>3, <3>4, <3>5
  <2>6. k = 1 \/ k > top \/ (k # 1 /\ k <= top) BY <1>5, <1>7, <2>2
  <2> QED BY <2>3, <2>4, <2>5, <2>6
<1> QED BY <1>8, <1>9

\* The question that is being answered is in every request of its turn, as a
\* message or quoted in the summary, unless as many texts as a summary quotes
\* were said after it (context_manager.py).
THEOREM SpecQuestionSurvives == RequestSpec => []QuestionSurvives
<1>1. ASSUME TalkInv PROVE QuestionSurvives
  <2> SUFFICES ASSUME ModelsTurn PROVE QuestionSurvives
    BY DEF QuestionSurvives
  <2> DEFINE latest == CHOOSE n \in Asked : \A m \in Asked : m <= n
  <2>1. talk # <<>> BY DEF ModelsTurn
  <2>2. latest \in Asked /\ \A m \in Asked : m <= latest BY <1>1, <2>1, AskedLast
  <2> HIDE DEF latest
  <2>3. LET after == {n \in DOMAIN talk : n > latest /\ Kinds(talk[n]) \cap {"text", "note"} # {}}
            sent == ProcessMessages(talk)
        IN \/ \E n \in DOMAIN sent : latest \in IdsOf(sent[n], "text")
           \/ \E n \in DOMAIN sent : \E ids \in IdsOf(sent[n], "summary") : latest \in ids
           \/ Cardinality(after) >= SummaryTurns
    BY <1>1, <2>1, <2>2, RequestAssumption, QuestionReaches
  <2> QED BY <2>3, Zenon DEF QuestionSurvives, latest, Asked
<1> QED BY <1>1, SpecTalkInv, PTL
=============================================================================
