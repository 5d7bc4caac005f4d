------------------------------- MODULE Lemmas -------------------------------
(***************************************************************************)
(* Facts about sequences and finite sets that the proofs of several        *)
(* components need: what taking out the last element leaves, and how       *)
(* counts change when one element does.                                    *)
(***************************************************************************)
EXTENDS Integers, Sequences, FiniteSets, FiniteSetTheorems, SequenceTheorems,
        TLAPS

\* The places of a sequence that hold e.
Places(s, e) == {i \in 1..Len(s) : s[i] = e}

LEMMA FrontOf ==
  ASSUME NEW S, NEW s \in Seq(S), s # <<>>
  PROVE  /\ SubSeq(s, 1, Len(s)-1) \in Seq(S)
         /\ Len(SubSeq(s, 1, Len(s)-1)) = Len(s)-1
         /\ \A i \in 1..Len(s)-1 : SubSeq(s, 1, Len(s)-1)[i] = s[i]
<1> DEFINE n == Len(s)-1
<1>1. n \in Int /\ n >= 0 /\ 1 \in Int
  BY EmptySeq
<1>2. \A i \in 1..n : s[i] \in S
  BY <1>1, ElementOfSeq
<1> HIDE DEF n
<1>3. /\ SubSeq(s, 1, n) \in Seq(S)
      /\ Len(SubSeq(s, 1, n)) = IF 1 <= n THEN n-1+1 ELSE 0
      /\ \A i \in 1..n-1+1 : SubSeq(s, 1, n)[i] = s[1+i-1]
  BY <1>1, <1>2, SubSeqProperties
<1>4. /\ Len(SubSeq(s, 1, n)) = n
      /\ \A i \in 1..n : SubSeq(s, 1, n)[i] = s[i]
  BY <1>1, <1>3
<1>5. QED
  BY <1>3, <1>4 DEF n

\* remove(): the last element, and the sequence without it.
LEMMA LastTaken ==
  ASSUME NEW S, NEW s \in Seq(S), s # <<>>
  PROVE  /\ Len(s) \in Nat \ {0}
         /\ s[Len(s)] \in S
         /\ SubSeq(s, 1, Len(s)-1) \in Seq(S)
         /\ Len(SubSeq(s, 1, Len(s)-1)) = Len(s)-1
         /\ \A i \in 1..Len(s)-1 : SubSeq(s, 1, Len(s)-1)[i] = s[i]
<1>1. Len(s) \in Nat \ {0}
  BY EmptySeq
<1>2. Len(s) \in 1..Len(s)
  BY <1>1
<1>3. s[Len(s)] \in S
  BY <1>2, ElementOfSeq
<1>4. QED
  BY <1>1, <1>3, FrontOf

LEMMA CountAppend ==
  ASSUME NEW S, NEW s \in Seq(S), NEW x \in S, NEW e
  PROVE  /\ Cardinality(Places(s, e)) \in Nat
         /\ Cardinality(Places(Append(s, x), e)) =
              Cardinality(Places(s, e)) + (IF x = e THEN 1 ELSE 0)
<1>1. /\ Len(s) \in Nat /\ Len(Append(s, x)) = Len(s)+1
      /\ \A i \in 1..Len(s) : Append(s, x)[i] = s[i]
      /\ Append(s, x)[Len(s)+1] = x
  BY AppendProperties, LenProperties
<1>2. IsFiniteSet(Places(s, e))
  <2>1. IsFiniteSet(1..Len(s)) /\ Places(s, e) \in SUBSET (1..Len(s))
    BY <1>1, FS_Interval DEF Places
  <2>2. QED
    BY <2>1, FS_Subset
<1>3. Cardinality(Places(s, e)) \in Nat
  BY <1>2, FS_CardinalityType
<1>4. Len(s)+1 \notin Places(s, e)
  BY <1>1 DEF Places
<1>5. \A i \in 1..Len(s)+1 : i \in 1..Len(s) \/ i = Len(s)+1
  BY <1>1
<1>6. 1..Len(s) \subseteq 1..Len(s)+1 /\ Len(s)+1 \in 1..Len(s)+1
  BY <1>1
<1>7. CASE x = e
  <2>1. Places(Append(s, x), e) = Places(s, e) \cup {Len(s)+1}
    BY <1>1, <1>5, <1>6, <1>7 DEF Places
  <2>2. QED
    BY <1>2, <1>3, <1>4, <1>7, <2>1, FS_AddElement
<1>8. CASE x # e
  <2>1. Places(Append(s, x), e) = Places(s, e)
    BY <1>1, <1>5, <1>6, <1>8 DEF Places
  <2>2. QED
    BY <1>3, <1>8, <2>1
<1>9. QED
  BY <1>3, <1>7, <1>8

LEMMA CountRemove ==
  ASSUME NEW S, NEW s \in Seq(S), s # <<>>, NEW e
  PROVE  /\ Cardinality(Places(SubSeq(s, 1, Len(s)-1), e)) \in Nat
         /\ Cardinality(Places(s, e)) =
              Cardinality(Places(SubSeq(s, 1, Len(s)-1), e))
                + (IF s[Len(s)] = e THEN 1 ELSE 0)
<1> DEFINE f == SubSeq(s, 1, Len(s)-1)
<1>1. /\ Len(s) \in Nat \ {0} /\ s[Len(s)] \in S
      /\ f \in Seq(S) /\ Len(f) = Len(s)-1
      /\ \A i \in 1..Len(s)-1 : f[i] = s[i]
  BY LastTaken
<1>2. Append(f, s[Len(s)]) = s
  <2> DEFINE a == Append(f, s[Len(s)])
  <2>1. /\ a \in Seq(S) /\ Len(a) = Len(f)+1
        /\ \A i \in 1..Len(f) : a[i] = f[i]
        /\ a[Len(f)+1] = s[Len(s)]
    BY <1>1, AppendProperties
  <2>2. Len(a) = Len(s) /\ Len(f)+1 = Len(s)
    BY <1>1, <2>1
  <2>3. \A i \in 1..Len(a) : a[i] = s[i]
    <3>1. \A i \in 1..Len(s) : i \in 1..Len(s)-1 \/ i = Len(s)
      BY <1>1
    <3> HIDE DEF a, f
    <3>2. QED
      BY <1>1, <2>1, <2>2, <3>1
  <2> HIDE DEF a
  <2>4. a = s
    BY <2>1, <2>2, <2>3, SeqEqual
  <2>5. QED
    BY <2>4 DEF a
<1> HIDE DEF f
<1>3. /\ Cardinality(Places(f, e)) \in Nat
      /\ Cardinality(Places(Append(f, s[Len(s)]), e)) =
           Cardinality(Places(f, e)) + (IF s[Len(s)] = e THEN 1 ELSE 0)
  BY <1>1, CountAppend
<1>4. QED
  BY <1>2, <1>3 DEF f

\* Two sets that differ at most in x.
LEMMA CountChange ==
  ASSUME NEW S, IsFiniteSet(S), NEW x, NEW A \in SUBSET S, NEW B \in SUBSET S,
         A \ {x} = B \ {x}
  PROVE  /\ Cardinality(A) \in Nat /\ Cardinality(B) \in Nat
         /\ Cardinality(A) + (IF x \in B THEN 1 ELSE 0) =
              Cardinality(B) + (IF x \in A THEN 1 ELSE 0)
<1>1. IsFiniteSet(A) /\ IsFiniteSet(B)
  BY FS_Subset
<1>2. /\ Cardinality(A) \in Nat /\ Cardinality(B) \in Nat
  BY <1>1, FS_CardinalityType
<1>3. /\ Cardinality(A \ {x}) = IF x \in A THEN Cardinality(A)-1 ELSE Cardinality(A)
      /\ Cardinality(B \ {x}) = IF x \in B THEN Cardinality(B)-1 ELSE Cardinality(B)
  BY <1>1, FS_RemoveElement
<1>4. QED
  BY <1>2, <1>3
=============================================================================
