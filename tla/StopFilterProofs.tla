-------------------------- MODULE StopFilterProofs --------------------------
(***************************************************************************)
(* Proofs about StopFilter, for any characters, any stop strings and any   *)
(* way to split a text into chunks: what a stream shows is the truncation  *)
(* of what the filter was given, and with stop strings of one length the   *)
(* truncation of the whole text.  A stop string that begins in what has    *)
(* been let out would have been complete before, as no more than its       *)
(* characters but one can follow without being seen.                       *)
(***************************************************************************)
EXTENDS StopFilter, TLAPS, SequenceTheorems, WellFoundedInduction

(* What the filter has been given.                                         *)
Given == SubSeq(text, 1, seen)

(* Before a stop string is found nothing is lost, and once something has   *)
(* been let out the tail is as long as it can get.                         *)
OpenInv ==
  ~stopped => /\ seen = Len(text) /\ emitted \o buffer = text /\ Positions(text) = {}
              /\ emitted # <<>> /\ ~closed => Len(buffer) = TailChars

(* Afterwards nothing changes.                                             *)
StoppedInv ==
  stopped => buffer = <<>> /\ Positions(Given) # {} /\ emitted = Truncate(Given)

IInv == TypeOK /\ OpenInv /\ StoppedInv /\ (closed => buffer = <<>>)

-----------------------------------------------------------------------------
(* The least and the greatest of a set.                                    *)

LEMMA LeastExists ==
  ASSUME NEW T, T \subseteq Nat, T # {}
  PROVE  \E x \in T : \A y \in T : x <= y
<1>1. PICK x \in T : \A y \in T : ~ (<<y, x>> \in OpToRel(<, Nat))
  BY NatLessThanWellFounded, WFMin
<1>2. \A y \in T : ~(y < x)
  BY <1>1 DEF OpToRel
<1> QED BY <1>2

LEMMA MinIsLeast ==
  ASSUME NEW T, T \subseteq Nat, T # {}
  PROVE  Min(T) \in T /\ Min(T) \in Nat /\ \A y \in T : Min(T) <= y
BY LeastExists DEF Min

LEMMA MaxIsGreatest ==
  ASSUME NEW T, NEW n \in Nat, T \subseteq 0 .. n, T # {}
  PROVE  Max(T) \in T /\ \A y \in T : Max(T) >= y
<1> DEFINE U == {n - y : y \in T}
<1>1. U \subseteq Nat /\ U # {}
  <2>1. \A y \in T : n - y \in Nat
    OBVIOUS
  <2>2. U \subseteq Nat
    BY ONLY <2>1
  <2>3. PICK y \in T : TRUE
    OBVIOUS
  <2> QED BY <2>2, <2>3
<1>2. PICK u \in U : \A v \in U : u <= v
  BY <1>1, LeastExists
<1>3. PICK x \in T : u = n - x
  BY <1>2
<1>4. \A y \in T : n - x <= n - y
  BY <1>2, <1>3
<1>5. \A y \in T : x >= y
  BY <1>4
<1> QED BY <1>5 DEF Max

-----------------------------------------------------------------------------
(* Strings.                                                                *)

LEMMA BoundedFacts ==
  ASSUME NEW S, NEW n \in Nat
  PROVE  \A s : s \in BoundedSeq(S, n) <=> s \in Seq(S) /\ Len(s) <= n
<1>1. ASSUME NEW s \in BoundedSeq(S, n) PROVE s \in Seq(S) /\ Len(s) <= n
  <2>1. PICK m \in 0 .. n : s \in [1 .. m -> S]
    BY <1>1 DEF BoundedSeq, SeqOf
  <2>2. s \in Seq(S) /\ Len(s) = m
    BY <2>1
  <2> QED BY <2>2
<1>2. ASSUME NEW s \in Seq(S), Len(s) <= n PROVE s \in BoundedSeq(S, n)
  <2>1. s \in [1 .. Len(s) -> S] /\ Len(s) \in 0 .. n
    BY <1>2, LenProperties
  <2> QED BY <2>1 DEF BoundedSeq, SeqOf
<1> QED BY <1>1, <1>2

LEMMA IsBounded ==
  ASSUME NEW S, NEW n \in Nat, NEW s \in Seq(S), Len(s) <= n
  PROVE  s \in BoundedSeq(S, n)
BY BoundedFacts

(* How long a concatenation is, and that it does not matter how three      *)
(* strings are put together.                                               *)
LEMMA JoinFacts ==
  ASSUME NEW s \in Seq(Chars), NEW t \in Seq(Chars)
  PROVE  /\ s \o t \in Seq(Chars) /\ Len(s \o t) = Len(s) + Len(t)
         /\ Len(s) \in Nat /\ Len(t) \in Nat
BY ONLY ConcatProperties, LenProperties

LEMMA JoinThree ==
  ASSUME NEW s \in Seq(Chars), NEW t \in Seq(Chars), NEW u \in Seq(Chars)
  PROVE  (s \o t) \o u = s \o (t \o u)
BY ONLY ConcatAssociative

(* s stands in t at position i.                                            *)
At(s, t, i) == /\ i \in Nat \ {0} /\ i + Len(s) - 1 <= Len(t)
               /\ \A k \in 1 .. Len(s) : t[i + k - 1] = s[k]

LEMMA PrefixFacts ==
  ASSUME NEW S, NEW s \in Seq(S), NEW t \in Seq(S), NEW i \in 1 .. Len(t)
  PROVE  IsPrefix(s, SubSeq(t, i, Len(t))) <=> At(s, t, i)
<1> DEFINE u == SubSeq(t, i, Len(t))
<1>1. /\ u \in Seq(S) /\ Len(u) = Len(t) - i + 1
      /\ \A k \in 1 .. Len(u) : u[k] = t[i + k - 1]
  BY SubSeqProperties, ElementOfSeq
<1> HIDE DEF u
<1>2. Len(s) \in Nat /\ Len(t) \in Nat
  BY LenProperties
<1>3. /\ SubSeq(s, 1, Len(s)) = s
  BY SubSeqFull
<1>4. ASSUME Len(s) <= Len(u)
      PROVE  s = SubSeq(u, 1, Len(s)) <=> \A k \in 1 .. Len(s) : u[k] = s[k]
  <2>1. /\ SubSeq(u, 1, Len(s)) \in Seq(S)
        /\ Len(SubSeq(u, 1, Len(s))) = Len(s)
        /\ \A k \in 1 .. Len(s) : SubSeq(u, 1, Len(s))[k] = u[k]
    <3>1. \A k \in 1 .. Len(s) : u[k] \in S
      BY <1>1, <1>2, <1>4, ElementOfSeq
    <3> QED BY <1>2, <3>1, SubSeqProperties
  <2>2. (\A k \in 1 .. Len(s) : u[k] = s[k]) => s = SubSeq(u, 1, Len(s))
    BY <2>1, SeqEqual
  <2> QED BY <2>1, <2>2
<1>5. IsPrefix(s, u) <=> Len(s) <= Len(u) /\ \A k \in 1 .. Len(s) : u[k] = s[k]
  BY <1>3, <1>4 DEF IsPrefix
<1>6. Len(s) <= Len(u) <=> i + Len(s) - 1 <= Len(t)
  BY <1>1, <1>2
<1>7. Len(s) <= Len(u) => \A k \in 1 .. Len(s) : u[k] = t[i + k - 1]
  BY <1>1, <1>2
<1> QED BY <1>2, <1>5, <1>6, <1>7 DEF At, u

LEMMA StringFacts ==
  ASSUME stops \subseteq Strings
  PROVE  /\ \A s \in stops : s \in Seq(Chars) /\ Len(s) \in 1 .. MaxStop
         /\ TailChars \in Nat /\ \A s \in stops : Len(s) - 1 <= TailChars
         /\ \A n \in Nat : Max({n - TailChars, 0}) = IF n > TailChars THEN n - TailChars ELSE 0
<1>1. MaxStop \in Nat
  BY StopFilterAssumption
<1>2. \A s \in stops : s \in Seq(Chars) /\ Len(s) \in 1 .. MaxStop
  BY <1>1, BoundedFacts, EmptySeq DEF Strings
<1>3. {Len(s) - 1 : s \in stops} \cup {0} \subseteq 0 .. MaxStop
  BY <1>1, <1>2
<1>4. /\ TailChars \in {Len(s) - 1 : s \in stops} \cup {0}
      /\ \A y \in {Len(s) - 1 : s \in stops} \cup {0} : TailChars >= y
  BY <1>1, <1>3, MaxIsGreatest DEF TailChars
<1>5. TailChars \in Nat
  BY <1>1, <1>3, <1>4
<1>6. \A s \in stops : Len(s) - 1 <= TailChars
  BY <1>4
<1>7. ASSUME NEW n \in Nat
      PROVE  Max({n - TailChars, 0}) = IF n > TailChars THEN n - TailChars ELSE 0
  <2> DEFINE x == IF n > TailChars THEN n - TailChars ELSE 0
  <2>1. x \in {n - TailChars, 0} /\ \A y \in {n - TailChars, 0} : x >= y
    BY <1>5
  <2>2. \A z \in {n - TailChars, 0} : (\A y \in {n - TailChars, 0} : z >= y) => z = x
    BY <1>5
  <2> QED BY <2>1, <2>2 DEF Max
<1> QED BY <1>2, <1>5, <1>6, <1>7

LEMMA PositionsFacts ==
  ASSUME stops \subseteq Strings, NEW t \in Seq(Chars)
  PROVE  /\ Positions(t) \subseteq 1 .. Len(t)
         /\ \A i : i \in Positions(t) <=> \E s \in stops : At(s, t, i)
<1>1. DOMAIN t = 1 .. Len(t) /\ Len(t) \in Nat
  BY LenProperties
<1>2. \A s \in stops : s \in Seq(Chars) /\ Len(s) \in Nat /\ Len(s) >= 1
  BY StringFacts
<1>3. ASSUME NEW s \in stops, NEW i, At(s, t, i) PROVE i \in 1 .. Len(t)
  BY <1>1, <1>2, <1>3 DEF At
<1>4. \A s \in stops : \A i \in 1 .. Len(t) :
        IsPrefix(s, SubSeq(t, i, Len(t))) <=> At(s, t, i)
  BY <1>2, PrefixFacts
<1> QED BY <1>1, <1>3, <1>4 DEF Positions

(* The first position at which a stop string stands.                       *)
LEMMA FirstPosition ==
  ASSUME stops \subseteq Strings, NEW t \in Seq(Chars), Positions(t) # {}
  PROVE  /\ Min(Positions(t)) \in Positions(t) /\ Min(Positions(t)) \in 1 .. Len(t)
         /\ \A i \in Positions(t) : Min(Positions(t)) <= i
<1>1. Positions(t) \subseteq 1 .. Len(t) /\ Len(t) \in Nat
  BY PositionsFacts, LenProperties
<1>2. Positions(t) \subseteq Nat
  BY <1>1
<1> QED BY <1>1, <1>2, MinIsLeast

-----------------------------------------------------------------------------
(* The filter.                                                             *)

(* No stop string begins in what was let out, so that it stands in the     *)
(* whole text where it stands in the buffer.                               *)
LEMMA NoneIsSplit ==
  ASSUME TypeOK, OpenInv, ~stopped, ~closed, NEW chunk \in Seq(Chars), NEW i
  PROVE  i \in Positions(text \o chunk) <=>
           i \in Nat /\ i > Len(emitted) /\ i - Len(emitted) \in Positions(buffer \o chunk)
<1> DEFINE T == text \o chunk
           t == buffer \o chunk
           e == Len(emitted)
<1>1. stops \subseteq Strings /\ MaxText \in Nat
  BY StopFilterAssumption DEF TypeOK
<1>2. TailChars \in Nat
  BY <1>1, StringFacts
<1>3. emitted \in Seq(Chars) /\ buffer \in Seq(Chars) /\ text \in Seq(Chars)
  BY <1>1, <1>2, BoundedFacts DEF TypeOK
<1>4. /\ e \in Nat /\ Len(buffer) \in Nat /\ Len(chunk) \in Nat
      /\ Len(text) = e + Len(buffer) /\ Len(t) = Len(buffer) + Len(chunk)
      /\ Len(T) = e + Len(t) /\ T \in Seq(Chars) /\ t \in Seq(Chars)
      /\ \A k \in 1 .. Len(text) : T[k] = text[k]
  BY <1>3, ConcatProperties, LenProperties DEF OpenInv
<1>5. ASSUME NEW k \in 1 .. Len(t) PROVE T[e + k] = t[k]
  <2>1. (emitted \o buffer) \o chunk = emitted \o (buffer \o chunk)
    <3>1. emitted \in Seq(Chars) /\ buffer \in Seq(Chars) /\ chunk \in Seq(Chars)
      BY <1>3
    <3> QED BY ONLY <3>1, JoinThree, Zenon
  <2>2. T = emitted \o t
    BY <2>1 DEF OpenInv
  <2> QED BY <1>3, <1>4, <2>2, ConcatProperties
<1> HIDE DEF T, t, e
<1>6. ASSUME NEW s \in stops, At(s, T, i) PROVE i > e
  <2>1. /\ Len(s) \in Nat /\ Len(s) >= 1 /\ Len(s) - 1 <= TailChars
    BY <1>1, StringFacts
  <2>2. CASE i + Len(s) - 1 <= Len(text)
    <3>1. At(s, text, i)
      <4>1. i \in Nat \ {0} /\ \A k \in 1 .. Len(s) : T[i + k - 1] = s[k]
        BY <1>6 DEF At
      <4>2. ASSUME NEW k \in 1 .. Len(s) PROVE i + k - 1 \in 1 .. Len(text)
        BY <1>4, <2>1, <2>2, <4>1
      <4>3. \A k \in 1 .. Len(s) : text[i + k - 1] = s[k]
        BY <1>4, <4>1, <4>2
      <4> QED BY <2>2, <4>1, <4>3 DEF At
    <3> QED BY <1>1, <1>3, <3>1, PositionsFacts DEF OpenInv
  <2>3. CASE i + Len(s) - 1 > Len(text)
    <3>1. CASE emitted = <<>>
      BY <1>6, <3>1 DEF At, e
    <3>2. CASE emitted # <<>>
      <4>1. Len(buffer) = TailChars
        BY <3>2 DEF OpenInv
      <4> QED BY <1>2, <1>4, <1>6, <2>1, <2>3, <4>1 DEF At
    <3> QED BY <3>1, <3>2
  <2> QED BY <1>4, <1>6, <2>1, <2>2, <2>3 DEF At
<1>7. ASSUME NEW s \in stops, i \in Nat, i > e PROVE At(s, T, i) <=> At(s, t, i - e)
  <2>1. Len(s) \in Nat
    BY <1>1, StringFacts
  <2>2. i + Len(s) - 1 <= Len(T) <=> (i - e) + Len(s) - 1 <= Len(t)
    BY <1>4, <1>7, <2>1
  <2>3. ASSUME (i - e) + Len(s) - 1 <= Len(t), NEW k \in 1 .. Len(s)
        PROVE  T[i + k - 1] = t[(i - e) + k - 1]
    <3>1. (i - e) + k - 1 \in 1 .. Len(t)
      BY <1>4, <1>7, <2>1, <2>3
    <3>2. e + ((i - e) + k - 1) = i + k - 1
      BY <1>4, <1>7, <2>1
    <3> QED BY <1>5, <3>1, <3>2
  <2> QED BY <1>4, <1>7, <2>1, <2>2, <2>3 DEF At
<1>8. i \in Positions(T) <=> \E s \in stops : At(s, T, i)
  BY <1>1, <1>4, PositionsFacts
<1>9. i - e \in Positions(t) <=> \E s \in stops : At(s, t, i - e)
  BY <1>1, <1>4, PositionsFacts
<1>10. i \in Positions(T) <=> i \in Nat /\ i > e /\ i - e \in Positions(t)
  BY <1>6, <1>7, <1>8, <1>9 DEF At
<1> QED BY <1>10 DEF T, t, e

(* So the truncation of the whole is what was let out and the truncation   *)
(* of the buffer.                                                          *)
LEMMA TruncatesAlike ==
  ASSUME TypeOK, OpenInv, ~stopped, ~closed, NEW chunk \in Seq(Chars),
         Positions(buffer \o chunk) # {}
  PROVE  /\ Positions(text \o chunk) # {}
         /\ Truncate(text \o chunk) = emitted \o Truncate(buffer \o chunk)
         /\ Truncate(buffer \o chunk) \in Seq(Chars)
         /\ Len(Truncate(buffer \o chunk)) <= Len(buffer \o chunk)
<1> DEFINE T == text \o chunk
           t == buffer \o chunk
           e == Len(emitted)
           m == Min(Positions(t))
<1>1. stops \subseteq Strings /\ MaxText \in Nat
  BY StopFilterAssumption DEF TypeOK
<1>2. TailChars \in Nat
  BY <1>1, StringFacts
<1>3. emitted \in Seq(Chars) /\ buffer \in Seq(Chars) /\ text \in Seq(Chars)
  BY <1>1, <1>2, BoundedFacts DEF TypeOK
<1>4. (emitted \o buffer) \o chunk = emitted \o (buffer \o chunk)
  <2>1. emitted \in Seq(Chars) /\ buffer \in Seq(Chars) /\ chunk \in Seq(Chars)
    BY <1>3
  <2> QED BY ONLY <2>1, JoinThree, Zenon
<1>5. t \in Seq(Chars) /\ T = emitted \o t /\ T \in Seq(Chars)
  BY <1>3, <1>4, ConcatProperties DEF OpenInv
<1>6. /\ e \in Nat /\ Len(t) \in Nat /\ Len(T) = e + Len(t)
      /\ \A k \in 1 .. Len(T) : T[k] = IF k <= e THEN emitted[k] ELSE t[k - e]
  BY <1>3, <1>5, ConcatProperties, LenProperties
<1>7. m \in Positions(t) /\ m \in 1 .. Len(t) /\ \A i \in Positions(t) : m <= i
  BY <1>1, <1>5, FirstPosition
<1>8. \A i : i \in Positions(T) <=> i \in Nat /\ i > e /\ i - e \in Positions(t)
  BY NoneIsSplit
<1> HIDE DEF T, t, e, m
<1>9. e + m \in Positions(T)
  BY <1>6, <1>7, <1>8
<1>10. Min(Positions(T)) = e + m
  <2>1. /\ Min(Positions(T)) \in Positions(T) /\ Min(Positions(T)) \in Nat
        /\ Min(Positions(T)) <= e + m
    <3>1. Positions(T) # {}
      BY <1>9
    <3>2. /\ Min(Positions(T)) \in Positions(T) /\ Min(Positions(T)) \in 1 .. Len(T)
          /\ \A i \in Positions(T) : Min(Positions(T)) <= i
      BY <1>1, <1>5, <3>1, FirstPosition
    <3> QED BY <1>6, <1>9, <3>2
  <2>2. m <= Min(Positions(T)) - e
    BY <1>7, <1>8, <2>1
  <2>3. m \in Nat /\ e \in Nat
    BY <1>6, <1>7
  <2> QED BY ONLY <2>1, <2>2, <2>3
<1>11. /\ Truncate(t) = SubSeq(t, 1, m - 1) /\ Truncate(t) \in Seq(Chars)
       /\ Len(Truncate(t)) = m - 1
       /\ \A k \in 1 .. m - 1 : Truncate(t)[k] = t[k]
  <2>1. Truncate(t) = SubSeq(t, 1, m - 1)
    BY DEF Truncate, m
  <2>2. \A k \in 1 .. m - 1 : t[k] \in Chars
    BY <1>5, <1>6, <1>7, ElementOfSeq
  <2> QED BY <1>6, <1>7, <2>1, <2>2, SubSeqProperties
<1>12. /\ Truncate(T) \in Seq(Chars) /\ Len(Truncate(T)) = e + m - 1
       /\ \A k \in 1 .. e + m - 1 : Truncate(T)[k] = T[k]
  <2> DEFINE n == e + m - 1
  <2>1. n \in 0 .. Len(T) /\ Min(Positions(T)) - 1 = n
    BY <1>6, <1>7, <1>10
  <2> HIDE DEF n
  <2>2. Truncate(T) = SubSeq(T, 1, n)
    BY <2>1 DEF Truncate
  <2>3. \A k \in 1 .. n : T[k] \in Chars
    BY <1>5, <1>6, <2>1, ElementOfSeq
  <2>4. /\ SubSeq(T, 1, n) \in Seq(Chars) /\ Len(SubSeq(T, 1, n)) = n
        /\ \A k \in 1 .. n : SubSeq(T, 1, n)[k] = T[k]
    BY <1>6, <2>1, <2>3, SubSeqProperties
  <2> QED BY <2>2, <2>4 DEF n
<1>13. Truncate(T) = emitted \o Truncate(t)
  <2> DEFINE u == emitted \o Truncate(t)
  <2>1. /\ u \in Seq(Chars) /\ Len(u) = e + (m - 1)
        /\ \A k \in 1 .. e + (m - 1) :
             u[k] = IF k <= e THEN emitted[k] ELSE Truncate(t)[k - e]
    BY <1>3, <1>11, ConcatProperties DEF e
  <2> HIDE DEF u
  <2>2. ASSUME NEW k \in 1 .. e + m - 1 PROVE u[k] = T[k]
    <3>1. k \in 1 .. Len(T) /\ k \in 1 .. e + (m - 1)
      BY <1>6, <1>7
    <3>2. CASE k <= e
      BY <1>6, <2>1, <3>1, <3>2
    <3>3. CASE ~(k <= e)
      <4>1. k - e \in 1 .. m - 1
        BY <1>6, <1>7, <3>3
      <4> QED BY <1>6, <1>11, <2>1, <3>1, <3>3, <4>1
    <3> QED BY <3>2, <3>3
  <2>3. Len(u) = Len(Truncate(T)) /\ \A k \in 1 .. Len(Truncate(T)) : u[k] = Truncate(T)[k]
    BY <1>6, <1>7, <1>12, <2>1, <2>2
  <2>4. u = Truncate(T)
    BY <1>12, <2>1, <2>3, SeqEqual
  <2> QED BY <2>4 DEF u
<1> QED BY <1>6, <1>7, <1>9, <1>11, <1>13 DEF T, t

(* What is let out and what is held back are the buffer.                   *)
LEMMA LetOutFacts ==
  ASSUME stops \subseteq Strings, NEW t \in Seq(Chars)
  PROVE  /\ LetOut(t) = IF Len(t) > TailChars THEN Len(t) - TailChars ELSE 0
         /\ SubSeq(t, 1, LetOut(t)) \in Seq(Chars)
         /\ Len(SubSeq(t, 1, LetOut(t))) = LetOut(t)
         /\ SubSeq(t, LetOut(t) + 1, Len(t)) \in Seq(Chars)
         /\ Len(SubSeq(t, LetOut(t) + 1, Len(t))) = Len(t) - LetOut(t)
         /\ SubSeq(t, 1, LetOut(t)) \o SubSeq(t, LetOut(t) + 1, Len(t)) = t
<1>1. TailChars \in Nat /\ Len(t) \in Nat
  BY StringFacts, LenProperties
<1>2. LetOut(t) = IF Len(t) > TailChars THEN Len(t) - TailChars ELSE 0
  BY <1>1, StringFacts DEF LetOut
<1>3. LetOut(t) \in 0 .. Len(t)
  BY <1>1, <1>2
<1>4. \A k \in 1 .. Len(t) : t[k] \in Chars
  BY ElementOfSeq
<1>5. SubSeq(t, 1, LetOut(t)) \in Seq(Chars) /\ Len(SubSeq(t, 1, LetOut(t))) = LetOut(t)
  BY <1>1, <1>3, <1>4, SubSeqProperties
<1>6. /\ SubSeq(t, LetOut(t) + 1, Len(t)) \in Seq(Chars)
      /\ Len(SubSeq(t, LetOut(t) + 1, Len(t))) = Len(t) - LetOut(t)
  BY <1>1, <1>3, <1>4, SubSeqProperties
<1>7. SubSeq(t, 1, LetOut(t)) \o SubSeq(t, LetOut(t) + 1, Len(t)) = SubSeq(t, 1, Len(t))
  <2>1. 1 \in 1 .. Len(t) + 1 /\ LetOut(t) \in 1 - 1 .. Len(t)
        /\ Len(t) \in LetOut(t) .. Len(t)
    BY <1>1, <1>3
  <2> QED BY <2>1, ConcatAdjacentSubSeq
<1> QED BY <1>2, <1>5, <1>6, <1>7, SubSeqFull

(* A chunk that comes before a stop string has been found.                 *)
LEMMA OpenPush ==
  ASSUME IInv, ~stopped, NEW chunk \in BoundedSeq(Chars, MaxChunk), Push(chunk)
  PROVE  IInv'
<1> DEFINE T == text \o chunk
           t == buffer \o chunk
<1>1. stops \subseteq Strings /\ MaxText \in Nat /\ MaxChunk \in Nat /\ MaxStop \in Nat
  BY StopFilterAssumption DEF IInv, TypeOK
<1>2. TailChars \in Nat /\ TailChars' = TailChars
  BY <1>1, StringFacts DEF Push, TailChars
<1>3. /\ emitted \in Seq(Chars) /\ buffer \in Seq(Chars) /\ text \in Seq(Chars)
      /\ chunk \in Seq(Chars)
  BY <1>1, <1>2, BoundedFacts DEF IInv, TypeOK
<1>4. (emitted \o buffer) \o chunk = emitted \o (buffer \o chunk)
  <2>1. emitted \in Seq(Chars) /\ buffer \in Seq(Chars) /\ chunk \in Seq(Chars)
    BY <1>3
  <2> QED BY ONLY <2>1, JoinThree, Zenon
<1>5. /\ t \in Seq(Chars) /\ T = emitted \o t /\ T \in Seq(Chars)
      /\ Len(T) = Len(emitted) + Len(t) /\ Len(emitted) \in Nat /\ Len(t) \in Nat
      /\ Len(t) = Len(buffer) + Len(chunk) /\ Len(buffer) \in Nat /\ Len(chunk) \in Nat
  <2>1. t \in Seq(Chars) /\ Len(t) = Len(buffer) + Len(chunk)
        /\ Len(buffer) \in Nat /\ Len(chunk) \in Nat
    BY ONLY <1>3, JoinFacts
  <2>2. T = emitted \o t
    BY <1>4 DEF OpenInv, IInv
  <2> HIDE DEF T, t
  <2> QED BY ONLY <1>3, <2>1, <2>2, JoinFacts, Zenon
<1>6. Len(T) <= MaxText
  BY <1>3, ConcatProperties DEF Push
<1>7. /\ text' = T /\ seen' = Len(T) /\ stopped' = (Positions(t) # {})
      /\ ~closed /\ closed' = FALSE /\ stops' = stops
  BY DEF Push, IInv, TypeOK
<1>8. Given' = T /\ T \in BoundedSeq(Chars, MaxText) /\ Len(T) \in 0 .. Len(T)
  <2>1. Given' = SubSeq(T, 1, Len(T))
    BY <1>7 DEF Given
  <2> HIDE DEF T
  <2>2. T \in BoundedSeq(Chars, MaxText)
    BY <1>1, <1>5, <1>6, IsBounded
  <2>3. SubSeq(T, 1, Len(T)) = T /\ Len(T) \in Nat
    BY <1>5, SubSeqFull, LenProperties
  <2> QED BY <2>1, <2>2, <2>3
<1>9. CASE Positions(t) # {}
  <2>1. /\ stopped' = TRUE /\ emitted' = emitted \o Truncate(t) /\ buffer' = <<>>
    BY <1>7, <1>9 DEF Push
  <2>2. /\ Positions(T) # {} /\ Truncate(T) = emitted \o Truncate(t)
        /\ Truncate(t) \in Seq(Chars) /\ Len(Truncate(t)) <= Len(t)
    BY <1>3, <1>7, <1>9, TruncatesAlike DEF IInv
  <2>3. StoppedInv'
    <3>1. Positions(Given)' = Positions(T) /\ Truncate(Given)' = Truncate(T)
      BY <1>7, <1>8 DEF Positions, Truncate
    <3> QED BY <2>1, <2>2, <3>1 DEF StoppedInv
  <2>4. emitted' \in BoundedSeq(Chars, MaxText)
    <3>1. emitted' \in Seq(Chars) /\ Len(emitted') = Len(emitted) + Len(Truncate(t))
      BY <1>3, <2>1, <2>2, ConcatProperties
    <3>2. Len(Truncate(t)) \in Nat
      BY <2>2, LenProperties
    <3> QED BY <1>1, <1>5, <1>6, <2>2, <3>1, <3>2, BoundedFacts
  <2>5. buffer' \in BoundedSeq(Chars, TailChars)
    <3>1. <<>> \in Seq(Chars) /\ Len(<<>>) <= TailChars
      BY <1>2, EmptySeq
    <3> QED BY <1>2, <2>1, <3>1, IsBounded
  <2>6. TypeOK'
    BY <1>1, <1>2, <1>7, <1>8, <2>1, <2>4, <2>5 DEF TypeOK, Strings
  <2> QED BY <1>7, <2>1, <2>3, <2>6 DEF IInv, OpenInv
<1>10. CASE Positions(t) = {}
  <2> DEFINE out == SubSeq(t, 1, LetOut(t))
             rest == SubSeq(t, LetOut(t) + 1, Len(t))
  <2>1. /\ LetOut(t) = IF Len(t) > TailChars THEN Len(t) - TailChars ELSE 0
        /\ out \in Seq(Chars) /\ Len(out) = LetOut(t)
        /\ rest \in Seq(Chars) /\ Len(rest) = Len(t) - LetOut(t) /\ out \o rest = t
    BY <1>1, <1>5, LetOutFacts
  <2>2. stopped' = FALSE /\ emitted' = emitted \o out /\ buffer' = rest
    BY <1>7, <1>10, <2>1 DEF Push
  <2> HIDE DEF out, rest, t, T
  <2>3. emitted' \o buffer' = T
    <3>1. emitted \in Seq(Chars) /\ out \in Seq(Chars) /\ rest \in Seq(Chars)
      BY <1>3, <2>1
    <3>2. (emitted \o out) \o rest = emitted \o (out \o rest)
      BY ONLY <3>1, JoinThree, Zenon
    <3> QED BY <1>5, <2>1, <2>2, <3>2
  <2>4. Positions(text)' = {}
    <3>1. \A i : i \notin Positions(T)
      BY <1>3, <1>7, <1>10, <2>2, NoneIsSplit DEF IInv, T, t
    <3> QED BY <1>7, <3>1 DEF Positions
  <2>5. emitted' \in Seq(Chars) /\ Len(emitted') = Len(emitted) + LetOut(t)
    <3>1. emitted \in Seq(Chars) /\ out \in Seq(Chars)
      BY ONLY <1>3, <2>1
    <3>2. emitted \o out \in Seq(Chars) /\ Len(emitted \o out) = Len(emitted) + Len(out)
      BY ONLY <3>1, JoinFacts, Zenon
    <3>3. emitted' = emitted \o out /\ Len(out) = LetOut(t)
      BY ONLY <2>1, <2>2, Zenon
    <3> QED BY ONLY <3>2, <3>3, Zenon
  <2>6. /\ Len(t) \in Nat /\ Len(emitted) \in Nat /\ Len(T) = Len(emitted) + Len(t)
        /\ Len(t) = Len(buffer) + Len(chunk) /\ Len(buffer) \in Nat /\ Len(chunk) \in Nat
    BY ONLY <1>5, Zenon
  <2>7. /\ LetOut(t) = IF Len(t) > TailChars THEN Len(t) - TailChars ELSE 0
        /\ Len(buffer') = Len(t) - LetOut(t)
    BY ONLY <2>1, <2>2, Zenon
  <2>8. emitted' # <<>> => Len(buffer') = TailChars
    <3>1. CASE Len(t) > TailChars
      BY ONLY <1>2, <2>6, <2>7, <3>1
    <3>2. CASE ~(Len(t) > TailChars)
      <4>1. Len(emitted') = Len(emitted)
        BY ONLY <2>5, <2>6, <2>7, <3>2
      <4>2. emitted' # <<>> => emitted # <<>>
        BY <1>3, <2>5, <4>1, EmptySeq
      <4>3. emitted # <<>> => Len(buffer) = TailChars
        BY <1>7, <2>2 DEF IInv, OpenInv
      <4> QED BY ONLY <1>2, <2>6, <2>7, <3>2, <4>2, <4>3
    <3> QED BY <3>1, <3>2
  <2>9. emitted' \in BoundedSeq(Chars, MaxText) /\ buffer' \in BoundedSeq(Chars, TailChars)
    <3>1. LetOut(t) <= Len(t) /\ LetOut(t) \in Nat /\ Len(buffer') <= TailChars
      BY ONLY <1>2, <2>6, <2>7
    <3>2. buffer' \in Seq(Chars)
      BY ONLY <2>1, <2>2
    <3>3. Len(emitted') <= MaxText
      BY ONLY <1>1, <1>6, <2>5, <2>6, <3>1
    <3>4. emitted' \in BoundedSeq(Chars, MaxText)
      BY ONLY <1>1, <2>5, <3>3, IsBounded
    <3> QED BY ONLY <1>2, <3>1, <3>2, <3>4, IsBounded
  <2>10. TypeOK'
    BY <1>1, <1>2, <1>7, <1>8, <2>2, <2>9 DEF TypeOK, Strings
  <2>11. OpenInv'
    BY <1>2, <1>7, <2>3, <2>4, <2>8 DEF OpenInv
  <2> QED BY <1>7, <2>2, <2>10, <2>11 DEF IInv, StoppedInv
<1> QED BY <1>9, <1>10

(* One that comes afterwards.                                              *)
LEMMA StoppedPush ==
  ASSUME IInv, stopped, NEW chunk \in BoundedSeq(Chars, MaxChunk), Push(chunk)
  PROVE  IInv'
<1>1. /\ text' = text \o chunk /\ UNCHANGED <<stops, seen, buffer, stopped, emitted, closed>>
      /\ Len(text) + Len(chunk) <= MaxText
  BY DEF Push
<1>2. MaxText \in Nat /\ MaxChunk \in Nat /\ text \in Seq(Chars) /\ chunk \in Seq(Chars)
  BY StopFilterAssumption, BoundedFacts DEF IInv, TypeOK
<1>3. /\ text' \in Seq(Chars) /\ Len(text') = Len(text) + Len(chunk)
      /\ Len(text) \in Nat /\ Len(chunk) \in Nat
      /\ \A k \in 1 .. Len(text) : text'[k] = text[k]
  BY <1>1, <1>2, ConcatProperties, LenProperties
<1>4. text' \in BoundedSeq(Chars, MaxText) /\ seen \in 0 .. Len(text')
  <2>1. text' \in BoundedSeq(Chars, MaxText)
    BY <1>1, <1>2, <1>3, IsBounded
  <2> QED BY <1>3, <2>1 DEF IInv, TypeOK
<1>5. Given' = Given
  BY <1>1, <1>3 DEF Given, IInv, TypeOK
<1>6. /\ Positions(Given)' = Positions(Given) /\ Truncate(Given)' = Truncate(Given)
      /\ TailChars' = TailChars
  BY <1>1, <1>5 DEF Positions, Truncate, TailChars
<1> QED BY <1>1, <1>4, <1>6 DEF IInv, TypeOK, OpenInv, StoppedInv, Strings

(* What is held back comes out at the end.                                 *)
LEMMA FinishPreserves ==
  ASSUME IInv, Finish
  PROVE  IInv'
<1>1. /\ ~closed /\ closed' = TRUE /\ emitted' = emitted \o buffer /\ buffer' = <<>>
      /\ UNCHANGED <<stops, text, seen, stopped>>
  BY DEF Finish
<1>2. stops \subseteq Strings /\ MaxText \in Nat
  BY StopFilterAssumption DEF IInv, TypeOK
<1>3. TailChars \in Nat /\ TailChars' = TailChars
  BY <1>1, <1>2, StringFacts DEF TailChars
<1>4. emitted \in Seq(Chars) /\ buffer \in Seq(Chars) /\ text \in Seq(Chars)
  BY <1>2, <1>3, BoundedFacts DEF IInv, TypeOK
<1>5. /\ Positions(text)' = Positions(text) /\ Positions(Given)' = Positions(Given)
      /\ Truncate(Given)' = Truncate(Given)
  BY <1>1 DEF Positions, Truncate, Given
<1>6. stopped => emitted' = emitted
  BY <1>1, <1>4, ConcatEmptySeq DEF IInv, StoppedInv
<1>7. ~stopped => emitted' = text /\ emitted' \o buffer' = text
  BY <1>1, <1>4, ConcatEmptySeq DEF IInv, OpenInv
<1>8. TypeOK'
  <2>1. emitted' \in BoundedSeq(Chars, MaxText)
    BY <1>6, <1>7 DEF IInv, TypeOK
  <2>2. <<>> \in Seq(Chars) /\ Len(<<>>) <= TailChars
    BY <1>3, EmptySeq
  <2>3. buffer' \in BoundedSeq(Chars, TailChars)
    BY <1>1, <1>3, <2>2, IsBounded
  <2> QED BY <1>1, <1>3, <2>1, <2>3 DEF IInv, TypeOK, Strings
<1>9. OpenInv'
  BY <1>1, <1>5, <1>7 DEF IInv, OpenInv
<1>10. StoppedInv'
  BY <1>1, <1>5, <1>6 DEF IInv, StoppedInv
<1> QED BY <1>1, <1>8, <1>9, <1>10 DEF IInv

LEMMA InitInv == Init => IInv
<1> SUFFICES ASSUME Init PROVE IInv
  OBVIOUS
<1>1. /\ stops \subseteq Strings /\ text = <<>> /\ seen = 0 /\ buffer = <<>>
      /\ stopped = FALSE /\ emitted = <<>> /\ closed = FALSE
  BY DEF Init
<1>2. TailChars \in Nat /\ MaxText \in Nat
  BY <1>1, StringFacts, StopFilterAssumption
<1>3. <<>> \in Seq(Chars) /\ Len(<<>>) = 0
  BY EmptySeq
<1>4. <<>> \in BoundedSeq(Chars, MaxText) /\ <<>> \in BoundedSeq(Chars, TailChars)
  <2>1. Len(<<>>) <= MaxText /\ Len(<<>>) <= TailChars
    BY <1>2, <1>3
  <2>2. <<>> \in Seq(Chars)
    BY <1>3
  <2>3. <<>> \in BoundedSeq(Chars, MaxText)
    BY <1>2, <2>1, <2>2, IsBounded
  <2>4. <<>> \in BoundedSeq(Chars, TailChars)
    BY <1>2, <2>1, <2>2, IsBounded
  <2> QED BY <2>3, <2>4
<1>5. Positions(<<>>) = {} /\ <<>> \o <<>> = <<>>
  <2>1. Positions(<<>>) \subseteq 1 .. 0
    BY <1>1, <1>3, PositionsFacts
  <2> QED BY <1>3, <2>1, ConcatEmptySeq
<1>6. TypeOK
  <2>1. /\ text \in BoundedSeq(Chars, MaxText) /\ emitted \in BoundedSeq(Chars, MaxText)
        /\ buffer \in BoundedSeq(Chars, TailChars)
    BY <1>1, <1>4
  <2>2. seen \in 0 .. Len(text)
    BY <1>1, <1>3
  <2> QED BY <1>1, <2>1, <2>2 DEF TypeOK
<1>7. OpenInv
  BY <1>1, <1>3, <1>5 DEF OpenInv
<1> QED BY <1>1, <1>6, <1>7 DEF IInv, StoppedInv

(* The inductive invariant.                                                *)
THEOREM Invariance == Spec => []IInv
<1>1. ASSUME IInv, UNCHANGED vars PROVE IInv'
  <2>1. UNCHANGED <<stops, text, seen, buffer, stopped, emitted, closed>>
    BY <1>1 DEF vars
  <2>2. /\ Positions(text)' = Positions(text) /\ Positions(Given)' = Positions(Given)
        /\ Truncate(Given)' = Truncate(Given) /\ TailChars' = TailChars
    BY <2>1 DEF Positions, Truncate, Given, TailChars
  <2> QED BY <1>1, <2>1, <2>2 DEF IInv, TypeOK, OpenInv, StoppedInv, Strings
<1>2. ASSUME IInv, [Next]_vars PROVE IInv'
  BY <1>1, <1>2, OpenPush, StoppedPush, FinishPreserves DEF Next, Closed
<1> QED BY <1>2, InitInv, PTL DEF Spec

(* The types of every variable; no more is held back than the longest stop *)
(* string has, but one character (transformers.py:36, 47-54).              *)
THEOREM TypeCorrect == Spec => []TypeOK
<1>1. IInv => TypeOK
  BY DEF IInv
<1> QED BY <1>1, Invariance, PTL

(* What a stream has let out and holds back is the text, and what it has   *)
(* shown when it ends is the truncation of what it was given (38-60).      *)
THEOREM StreamTruncates == Spec => []StreamIsTruncation
<1>1. IInv => StreamIsTruncation
  <2> SUFFICES ASSUME IInv PROVE StreamIsTruncation
    OBVIOUS
  <2>1. text \in Seq(Chars) /\ emitted \in Seq(Chars)
    BY StopFilterAssumption, BoundedFacts DEF IInv, TypeOK
  <2>2. CASE stopped
    BY <2>2 DEF IInv, StoppedInv, StreamIsTruncation, Reference, Given
  <2>3. CASE ~stopped
    <3>1. SubSeq(text, 1, seen) = text
      BY <2>1, <2>3, SubSeqFull DEF IInv, OpenInv
    <3>2. closed => emitted = text
      BY <2>1, <2>3, ConcatEmptySeq DEF IInv, OpenInv
    <3> QED BY <2>3, <3>1, <3>2 DEF IInv, OpenInv, TypeOK, StreamIsTruncation, Reference
  <2> QED BY <2>2, <2>3
<1> QED BY <1>1, Invariance, PTL

-----------------------------------------------------------------------------
(* Of stop strings of one length, the first to be complete is the first in *)
(* the text: what comes after it does not matter.                          *)
LEMMA LaterTextIsCut ==
  ASSUME stops \subseteq Strings, \A s, u \in stops : Len(s) = Len(u),
         NEW t \in Seq(Chars), NEW n \in 0 .. Len(t),
         Positions(SubSeq(t, 1, n)) # {}
  PROVE  Positions(t) # {} /\ Truncate(SubSeq(t, 1, n)) = Truncate(t)
<1> DEFINE p == SubSeq(t, 1, n)
           m == Min(Positions(p))
<1>1. Len(t) \in Nat /\ \A k \in 1 .. Len(t) : t[k] \in Chars
  BY LenProperties, ElementOfSeq
<1>2. p \in Seq(Chars) /\ Len(p) = n /\ \A k \in 1 .. n : p[k] = t[k]
  BY <1>1, SubSeqProperties
<1> HIDE DEF p
<1>3. /\ m \in Positions(p) /\ m \in 1 .. n /\ \A i \in Positions(p) : m <= i
  BY <1>2, FirstPosition DEF p
<1> HIDE DEF m
<1>4. \A s \in stops : Len(s) \in Nat
  BY StringFacts
<1>5. ASSUME NEW s \in stops, NEW i, i + Len(s) - 1 <= n
      PROVE  At(s, p, i) <=> At(s, t, i)
  <2>1. ASSUME i \in Nat \ {0}, NEW k \in 1 .. Len(s) PROVE p[i + k - 1] = t[i + k - 1]
    <3>1. i + k - 1 \in 1 .. n
      BY <1>4, <1>5, <2>1
    <3> QED BY <1>2, <3>1
  <2>2. i \in Nat => i + Len(s) - 1 <= Len(p) /\ i + Len(s) - 1 <= Len(t)
    BY <1>1, <1>2, <1>4, <1>5
  <2> QED BY <2>1, <2>2 DEF At
<1>6. PICK s \in stops : At(s, p, m)
  BY <1>2, <1>3, PositionsFacts
<1>7. m \in Positions(t)
  <2>1. At(s, t, m)
    <3>1. m + Len(s) - 1 <= n
      BY <1>2, <1>6 DEF At
    <3> QED BY <1>5, <1>6, <3>1
  <2> QED BY <2>1, PositionsFacts
<1>8. ASSUME NEW i \in Positions(t) PROVE m <= i
  <2>1. PICK u \in stops : At(u, t, i)
    BY <1>8, PositionsFacts
  <2>2. CASE i + Len(u) - 1 <= n
    BY <1>2, <1>3, <1>5, <2>1, <2>2, PositionsFacts
  <2>3. CASE ~(i + Len(u) - 1 <= n)
    BY <1>2, <1>3, <1>4, <1>6, <2>1, <2>3 DEF At
  <2> QED BY <2>2, <2>3
<1>9. Min(Positions(t)) = m
  <2>1. Positions(t) # {}
    BY <1>7
  <2>2. /\ Min(Positions(t)) \in Positions(t) /\ Min(Positions(t)) \in 1 .. Len(t)
        /\ Min(Positions(t)) <= m
    BY <1>7, <2>1, FirstPosition
  <2> QED BY <1>3, <1>8, <2>2
<1>10. SubSeq(p, 1, m - 1) = SubSeq(t, 1, m - 1)
  <2> DEFINE l == m - 1
  <2>1. l \in 0 .. n /\ l \in Nat /\ l <= Len(t)
    BY <1>1, <1>3
  <2> HIDE DEF l
  <2>2. (\A k \in 1 .. l : p[k] \in Chars) /\ \A k \in 1 .. l : t[k] \in Chars /\ p[k] = t[k]
    BY <1>1, <1>2, <2>1
  <2>3. /\ SubSeq(p, 1, l) \in Seq(Chars) /\ Len(SubSeq(p, 1, l)) = l
        /\ \A k \in 1 .. l : SubSeq(p, 1, l)[k] = p[k]
    BY <2>1, <2>2, SubSeqProperties
  <2>4. /\ SubSeq(t, 1, l) \in Seq(Chars) /\ Len(SubSeq(t, 1, l)) = l
        /\ \A k \in 1 .. l : SubSeq(t, 1, l)[k] = t[k]
    BY <2>1, <2>2, SubSeqProperties
  <2>5. SubSeq(p, 1, l) = SubSeq(t, 1, l)
    BY <2>1, <2>2, <2>3, <2>4, SeqEqual
  <2> QED BY <2>5 DEF l
<1> QED BY <1>7, <1>9, <1>10 DEF Truncate, m, p

(* With stop strings of one length a stream shows what a completion of the *)
(* same text without streaming does, however it is chunked (188, 262).     *)
THEOREM StreamMatchesGenerate == Spec => []SameAsGenerate
<1>1. IInv => SameAsGenerate
  <2> SUFFICES ASSUME IInv, closed, \A s, t \in stops : Len(s) = Len(t)
               PROVE  emitted = Reference(text)
    BY DEF SameAsGenerate
  <2>1. text \in Seq(Chars) /\ emitted \in Seq(Chars) /\ seen \in 0 .. Len(text)
        /\ stops \subseteq Strings
    BY StopFilterAssumption, BoundedFacts DEF IInv, TypeOK
  <2>2. CASE stopped
    BY <2>1, <2>2, LaterTextIsCut DEF IInv, StoppedInv, Given, Reference
  <2>3. CASE ~stopped
    BY <2>1, <2>3, ConcatEmptySeq DEF IInv, OpenInv, Reference
  <2> QED BY <2>2, <2>3
<1> QED BY <1>1, Invariance, PTL
=============================================================================
