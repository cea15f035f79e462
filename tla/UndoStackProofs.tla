--------------------------- MODULE UndoStackProofs ---------------------------
(***************************************************************************)
(* What the deques and the timeline of UndoStack are, for every size of the *)
(* stack and every set of entries.                                          *)
(***************************************************************************)
EXTENDS UndoStack, SequenceTheorems, TLAPS

\* What Front and Last return on a non-empty sequence.
LEMMA FrontLast ==
    ASSUME NEW S, NEW s \in Seq(S), s # <<>>
    PROVE  /\ Front(s) \in Seq(S)
           /\ Len(Front(s)) = Len(s) - 1
           /\ \A i \in 1..(Len(s) - 1) : Front(s)[i] = s[i]
           /\ Last(s) \in S
           /\ Len(s) \in Nat \ {0}
<1>1. Len(s) \in Nat \ {0}
  BY EmptySeq, LenProperties
<1>2. Last(s) \in S
  BY <1>1, ElementOfSeq DEF Last
<1>3. /\ Front(s) \in Seq(S)
      /\ Len(Front(s)) = Len(s) - 1
      /\ \A i \in 1..(Len(s) - 1) : Front(s)[i] = s[i]
  <2> DEFINE n == Len(s) - 1
  <2>1. n \in Nat /\ \A i \in 1..n : s[i] \in S
    BY <1>1, ElementOfSeq
  <2> HIDE DEF n
  <2>2. /\ SubSeq(s, 1, n) \in Seq(S)
        /\ Len(SubSeq(s, 1, n)) = IF 1 <= n THEN n - 1 + 1 ELSE 0
        /\ \A i \in 1..(n - 1 + 1) : SubSeq(s, 1, n)[i] = s[1 + i - 1]
    BY <2>1, SubSeqProperties
  <2>3. Len(SubSeq(s, 1, n)) = n
    BY <2>1, <2>2
  <2>4. ASSUME NEW i \in 1..n PROVE SubSeq(s, 1, n)[i] = s[i]
    <3>1. i \in 1..(n - 1 + 1) /\ 1 + i - 1 = i
      BY <2>1
    <3> QED BY <3>1, <2>2
  <2> QED BY <2>2, <2>3, <2>4 DEF Front, n
<1> QED BY <1>1, <1>2, <1>3

\* deque.append with maxlen keeps the bound, and is append while there is room.
LEMMA AppendedBound ==
    ASSUME NEW S, NEW dq \in Seq(S), NEW e \in S
    PROVE  /\ Appended(dq, e) \in Seq(S)
           /\ Len(dq) <= MaxUndo => Len(Appended(dq, e)) <= MaxUndo
           /\ Len(dq) < MaxUndo => /\ Appended(dq, e) = Append(dq, e)
                                   /\ Len(Appended(dq, e)) = Len(dq) + 1
<1>1. Len(dq) \in Nat /\ MaxUndo \in Nat \ {0}
  BY LenProperties, MaxUndoPositive
<1>2. CASE Len(dq) < MaxUndo
  BY <1>1, <1>2, AppendProperties DEF Appended
<1>3. CASE ~(Len(dq) < MaxUndo)
  <2>1. dq # <<>>
    BY <1>1, <1>3, EmptySeq
  <2>2. Tail(dq) \in Seq(S) /\ Len(Tail(dq)) = Len(dq) - 1
    BY <2>1, HeadTailProperties
  <2>3. Append(Tail(dq), e) \in Seq(S) /\ Len(Append(Tail(dq), e)) = Len(dq)
    BY <2>2, <1>1, AppendProperties
  <2> QED BY <2>3, <1>1, <1>3 DEF Appended
<1> QED BY <1>2, <1>3

\* Adding and removing a key leaves a sequence of files.
LEMMA KeysType ==
    ASSUME NEW S, NEW ks \in Seq(S), NEW f \in S
    PROVE  WithKey(ks, f) \in Seq(S) /\ WithoutKey(ks, f) \in Seq(S)
<1>1. WithKey(ks, f) \in Seq(S)
  BY AppendProperties DEF WithKey
<1>2. WithoutKey(ks, f) \in Seq(S)
  <2>1. CASE Contains(ks, f)
    <3> DEFINE i == CHOOSE i \in 1..Len(ks) : ks[i] = f
    <3>1. i \in 1..Len(ks)
      BY <2>1 DEF Contains
    <3>2. Len(ks) \in Nat
      BY LenProperties
    <3> HIDE DEF i
    <3>3. SubSeq(ks, 1, i - 1) \in Seq(S)
      BY <3>1, <3>2, SubSeqProperties
    <3>4. SubSeq(ks, i + 1, Len(ks)) \in Seq(S)
      BY <3>1, <3>2, SubSeqProperties
    <3>5. RemoveAt(ks, i) \in Seq(S)
      BY <3>3, <3>4, ConcatProperties DEF RemoveAt
    <3> QED BY <3>5, <2>1 DEF WithoutKey, i
  <2>2. CASE ~Contains(ks, f)
    BY <2>2 DEF WithoutKey
  <2> QED BY <2>1, <2>2
<1> QED BY <1>1, <1>2

\* What Reverse returns.
LEMMA ReverseProperties ==
    ASSUME NEW S, NEW s \in Seq(S)
    PROVE  /\ Reverse(s) \in Seq(S)
           /\ Len(Reverse(s)) = Len(s)
           /\ \A i \in 1..Len(s) : Reverse(s)[i] = s[Len(s) - i + 1]
<1>1. Len(s) \in Nat /\ \A i \in 1..Len(s) : s[Len(s) - i + 1] \in S
  BY LenProperties, ElementOfSeq
<1>2. Reverse(s) \in [1..Len(s) -> S]
  BY <1>1 DEF Reverse
<1> QED BY <1>1, <1>2 DEF Reverse

\* The entries of t are those of u, then those of r from its top down.
Laid(t, u, r) ==
    /\ Len(t) = Len(u) + Len(r)
    /\ \A i \in 1..Len(u) : t[i] = u[i]
    /\ \A i \in 1..Len(r) : t[Len(u) + i] = r[Len(r) - i + 1]

\* Where the entries of a timeline are.
LEMMA TimelineLaid ==
    ASSUME NEW S, NEW u \in Seq(S), NEW r \in Seq(S)
    PROVE  Timeline(u, r) \in Seq(S) /\ Laid(Timeline(u, r), u, r)
<1>1. /\ Reverse(r) \in Seq(S)
      /\ Len(Reverse(r)) = Len(r)
      /\ \A i \in 1..Len(r) : Reverse(r)[i] = r[Len(r) - i + 1]
  BY ReverseProperties
<1>2. Len(u) \in Nat /\ Len(r) \in Nat
  BY LenProperties
<1>3. /\ Timeline(u, r) \in Seq(S)
      /\ Len(Timeline(u, r)) = Len(u) + Len(r)
      /\ \A i \in 1..(Len(u) + Len(r)) :
            Timeline(u, r)[i] = IF i <= Len(u) THEN u[i] ELSE Reverse(r)[i - Len(u)]
  <2> DEFINE t == Reverse(r)
  <2>1. t \in Seq(S) /\ Len(t) = Len(r)
    BY <1>1
  <2> HIDE DEF t
  <2>2. /\ u \o t \in Seq(S)
        /\ Len(u \o t) = Len(u) + Len(t)
        /\ \A i \in 1..(Len(u) + Len(t)) :
              (u \o t)[i] = IF i <= Len(u) THEN u[i] ELSE t[i - Len(u)]
    BY <2>1, ConcatProperties
  <2> QED BY <2>1, <2>2 DEF Timeline, t
<1>4. ASSUME NEW i \in 1..Len(u) PROVE Timeline(u, r)[i] = u[i]
  BY <1>2, <1>3
<1>5. ASSUME NEW i \in 1..Len(r) PROVE Timeline(u, r)[Len(u) + i] = r[Len(r) - i + 1]
  <2>1. Len(u) + i \in 1..(Len(u) + Len(r)) /\ ~(Len(u) + i <= Len(u))
    BY <1>2
  <2>2. Len(u) + i - Len(u) = i
    BY <1>2
  <2> QED BY <1>1, <1>3, <2>1, <2>2
<1> QED BY <1>3, <1>4, <1>5 DEF Laid

\* Moving the cursor back over an entry changes neither the entries nor their order.
LEMMA CursorBack ==
    ASSUME NEW S, NEW u \in Seq(S), NEW r \in Seq(S), u # <<>>
    PROVE  Timeline(Front(u), Append(r, Last(u))) = Timeline(u, r)
<1> DEFINE v == Front(u)  w == Append(r, Last(u))
<1>1. /\ v \in Seq(S) /\ Len(v) = Len(u) - 1
      /\ \A i \in 1..(Len(u) - 1) : v[i] = u[i]
      /\ Last(u) \in S /\ Len(u) \in Nat \ {0}
  BY FrontLast
<1>2. Len(r) \in Nat
  BY LenProperties
<1>3. /\ w \in Seq(S) /\ Len(w) = Len(r) + 1
      /\ \A i \in 1..Len(r) : w[i] = r[i]
      /\ w[Len(r) + 1] = u[Len(u)]
  BY <1>1, AppendProperties DEF Last
<1> HIDE DEF v, w
<1>6. Timeline(u, r) \in Seq(S) /\ Laid(Timeline(u, r), u, r)
  BY TimelineLaid
<1>7. Timeline(v, w) \in Seq(S) /\ Laid(Timeline(v, w), v, w)
  BY <1>1, <1>3, TimelineLaid
<1>4. /\ Timeline(v, w) \in Seq(S) /\ Timeline(u, r) \in Seq(S)
      /\ Len(Timeline(v, w)) = Len(u) + Len(r) /\ Len(Timeline(u, r)) = Len(u) + Len(r)
  BY <1>1, <1>2, <1>3, <1>6, <1>7 DEF Laid
<1>5. ASSUME NEW i \in 1..(Len(u) + Len(r)) PROVE Timeline(v, w)[i] = Timeline(u, r)[i]
  <2>1. CASE i < Len(u)
    <3>1. i \in 1..Len(v) /\ i \in 1..Len(u) /\ i \in 1..(Len(u) - 1)
      BY <1>1, <2>1
    <3> QED BY <3>1, <1>1, <1>6, <1>7 DEF Laid
  <2>2. CASE i = Len(u)
    <3>1. i = Len(v) + 1 /\ 1 \in 1..Len(w) /\ Len(w) - 1 + 1 = Len(r) + 1 /\ i \in 1..Len(u)
      BY <1>1, <1>2, <1>3, <2>2
    <3>2. Timeline(v, w)[i] = w[Len(r) + 1]
      BY <3>1, <1>7 DEF Laid
    <3> QED BY <3>1, <3>2, <1>3, <2>2, <1>6 DEF Laid
  <2>3. CASE i > Len(u)
    <3> DEFINE j == i - Len(u)
    <3>1. j \in 1..Len(r) /\ i = Len(u) + j
      BY <1>1, <1>2, <2>3
    <3>2. /\ j + 1 \in 1..Len(w) /\ i = Len(v) + (j + 1)
          /\ Len(w) - (j + 1) + 1 = Len(r) - j + 1
          /\ Len(r) - j + 1 \in 1..Len(r)
      BY <3>1, <1>1, <1>2, <1>3
    <3> HIDE DEF j
    <3>3. Timeline(v, w)[i] = w[Len(r) - j + 1]
      BY <3>2, <1>7 DEF Laid
    <3>4. Timeline(u, r)[i] = r[Len(r) - j + 1]
      BY <3>1, <1>6 DEF Laid
    <3> QED BY <3>2, <3>3, <3>4, <1>3
  <2> QED BY <2>1, <2>2, <2>3, <1>1, <1>2
<1> QED BY <1>4, <1>5, SeqEqual DEF v, w

\* A pop after an append undoes it ...
LEMMA PopAppended ==
    ASSUME NEW S, NEW s \in Seq(S), NEW e \in S
    PROVE  /\ Append(s, e) \in Seq(S) /\ Append(s, e) # <<>>
           /\ Front(Append(s, e)) = s
           /\ Last(Append(s, e)) = e
<1> DEFINE v == Append(s, e)
<1>1. Len(s) \in Nat
  BY LenProperties
<1>2. /\ v \in Seq(S) /\ Len(v) = Len(s) + 1
      /\ \A i \in 1..Len(s) : v[i] = s[i]
      /\ v[Len(s) + 1] = e
  BY AppendProperties
<1> HIDE DEF v
<1>3. v # <<>>
  BY <1>1, <1>2, EmptySeq
<1>4. /\ Front(v) \in Seq(S) /\ Len(Front(v)) = Len(v) - 1
      /\ \A i \in 1..(Len(v) - 1) : Front(v)[i] = v[i]
  BY <1>2, <1>3, FrontLast
<1>5. /\ Len(Front(v)) = Len(s)
      /\ \A i \in 1..Len(s) : Front(v)[i] = s[i]
  BY <1>1, <1>2, <1>4
<1>6. Front(v) = s
  BY <1>4, <1>5, SeqEqual
<1> QED BY <1>2, <1>3, <1>6 DEF v, Last

\* ... and an append of what was popped undoes the pop.
LEMMA AppendPopped ==
    ASSUME NEW S, NEW s \in Seq(S), s # <<>>
    PROVE  Append(Front(s), Last(s)) = s
<1> DEFINE w == Front(s)
<1>1. /\ w \in Seq(S) /\ Last(s) \in S /\ Len(s) \in Nat \ {0}
      /\ Len(w) = Len(s) - 1
      /\ \A i \in 1..(Len(s) - 1) : w[i] = s[i]
  BY FrontLast
<1> HIDE DEF w
<1>2. /\ Append(w, Last(s)) \in Seq(S) /\ Len(Append(w, Last(s))) = Len(s)
      /\ \A i \in 1..Len(w) : Append(w, Last(s))[i] = w[i]
      /\ Append(w, Last(s))[Len(w) + 1] = Last(s)
  BY <1>1, AppendProperties
<1>3. ASSUME NEW i \in 1..Len(s) PROVE Append(w, Last(s))[i] = s[i]
  <2>1. CASE i = Len(s)
    BY <2>1, <1>1, <1>2 DEF Last
  <2>2. CASE i # Len(s)
    <3>1. i \in 1..Len(w) /\ i \in 1..(Len(s) - 1)
      BY <2>2, <1>1
    <3> QED BY <3>1, <1>1, <1>2
  <2> QED BY <2>1, <2>2
<1> QED BY <1>2, <1>3, SeqEqual DEF w

\* Moving it forward is the same move seen from the other side.
LEMMA CursorForward ==
    ASSUME NEW S, NEW u \in Seq(S), NEW r \in Seq(S), r # <<>>
    PROVE  Timeline(Append(u, Last(r)), Front(r)) = Timeline(u, r)
<1> DEFINE v == Append(u, Last(r))  w == Front(r)
<1>1. w \in Seq(S) /\ Last(r) \in S
  BY FrontLast
<1>2. v \in Seq(S) /\ v # <<>> /\ Front(v) = u /\ Last(v) = Last(r)
  BY <1>1, PopAppended
<1>3. Append(w, Last(r)) = r
  BY AppendPopped
<1> HIDE DEF v, w
<1>4. Timeline(Front(v), Append(w, Last(v))) = Timeline(v, w)
  BY <1>1, <1>2, CursorBack
<1> QED BY <1>2, <1>3, <1>4 DEF v, w

=============================================================================
