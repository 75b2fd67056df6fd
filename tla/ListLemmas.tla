----------------------------- MODULE ListLemmas -----------------------------
(***************************************************************************)
(* Facts about lists without repetitions, which is how the pools keep what *)
(* is free and what is queued, and about the natural numbers, that the     *)
(* proofs about the pools rest on.                                         *)
(***************************************************************************)
EXTENDS Integers, Sequences, FiniteSets, SequencesExt, FiniteSetTheorems, SequenceTheorems,
        WellFoundedInduction, TLAPS

(***************************************************************************)
(* Sequences as lists of distinct elements.                                *)
(***************************************************************************)

\* The elements of a sequence.
LEMMA RangeOf ==
    ASSUME NEW S, NEW s \in Seq(S)
    PROVE  /\ Range(s) = {s[i] : i \in 1..Len(s)}
           /\ Range(s) \subseteq S
BY DEF Range

\* Distinct positions hold distinct elements.
LEMMA InjectiveOf ==
    ASSUME NEW S, NEW s \in Seq(S)
    PROVE  IsInjective(s) <=> \A i, j \in 1..Len(s) : s[i] = s[j] => i = j
BY DEF IsInjective

\* What is on a list once its head is taken off (AllocateFree).
LEMMA TailOfInjective ==
    ASSUME NEW S, NEW s \in Seq(S), s # <<>>, IsInjective(s)
    PROVE  /\ Head(s) \in Range(s) /\ Tail(s) \in Seq(S)
           /\ Range(Tail(s)) = Range(s) \ {Head(s)}
           /\ IsInjective(Tail(s))
<1>1. /\ Len(s) \in Nat \ {0} /\ Head(s) = s[1] /\ Tail(s) \in Seq(S)
      /\ Len(Tail(s)) = Len(s) - 1
      /\ \A i \in 1..Len(Tail(s)) : Tail(s)[i] = s[i + 1]
  OBVIOUS
<1>2. \A i, j \in 1..Len(s) : s[i] = s[j] => i = j
  BY InjectiveOf
<1>3. /\ Range(s) = {s[i] : i \in 1..Len(s)}
      /\ Range(Tail(s)) = {Tail(s)[i] : i \in 1..Len(Tail(s))}
  BY <1>1, RangeOf
<1>4. Range(Tail(s)) = Range(s) \ {Head(s)}
  <2>1. ASSUME NEW i \in 1..Len(Tail(s)) PROVE Tail(s)[i] \in Range(s) \ {Head(s)}
    <3>1. i + 1 \in 1..Len(s) /\ 1 \in 1..Len(s) /\ i + 1 # 1
      BY <1>1
    <3> QED BY <1>1, <1>2, <1>3, <3>1
  <2>2. ASSUME NEW i \in 1..Len(s), s[i] # Head(s) PROVE s[i] \in Range(Tail(s))
    <3>1. i - 1 \in 1..Len(Tail(s)) /\ Tail(s)[i - 1] = s[i]
      BY <1>1, <2>2
    <3> QED BY <1>3, <3>1
  <2> QED BY <1>3, <2>1, <2>2
<1>5. \A i, j \in 1..Len(Tail(s)) : Tail(s)[i] = Tail(s)[j] => i = j
  <2>1. \A i \in 1..Len(Tail(s)) : i + 1 \in 1..Len(s)
    BY <1>1
  <2> QED BY <1>1, <1>2, <2>1
<1>6. IsInjective(Tail(s))
  BY <1>1, <1>5, InjectiveOf
<1> QED BY <1>1, <1>3, <1>4, <1>6

\* Two lists one after the other (Destruct, Flush).
LEMMA ConcatOfInjective ==
    ASSUME NEW S, NEW s \in Seq(S), NEW t \in Seq(S)
    PROVE  /\ s \o t \in Seq(S)
           /\ Range(s \o t) = Range(s) \cup Range(t)
           /\ IsInjective(s) /\ IsInjective(t) /\ Range(s) \cap Range(t) = {} => IsInjective(s \o t)
<1> DEFINE u == s \o t
<1>1. /\ u \in Seq(S) /\ Len(s) \in Nat /\ Len(t) \in Nat /\ Len(u) = Len(s) + Len(t)
      /\ \A i \in 1..Len(s) : u[i] = s[i]
      /\ \A i \in 1..Len(u) : i > Len(s) => u[i] = t[i - Len(s)]
  OBVIOUS
<1>2. /\ Range(s) = {s[i] : i \in 1..Len(s)}
      /\ Range(t) = {t[i] : i \in 1..Len(t)}
      /\ Range(u) = {u[i] : i \in 1..Len(u)}
  BY <1>1, RangeOf
<1> HIDE DEF u
<1>3. \A i \in 1..Len(u) : \/ i \in 1..Len(s) /\ u[i] = s[i]
                           \/ i > Len(s) /\ i - Len(s) \in 1..Len(t) /\ u[i] = t[i - Len(s)]
  BY <1>1
<1>4. Range(u) = Range(s) \cup Range(t)
  <2>1. Range(u) \subseteq Range(s) \cup Range(t)
    BY <1>2, <1>3
  <2>2. ASSUME NEW i \in 1..Len(s) PROVE s[i] \in Range(u)
    <3>1. i \in 1..Len(u)
      BY <1>1
    <3> QED BY <1>1, <1>2, <3>1
  <2>3. ASSUME NEW i \in 1..Len(t) PROVE t[i] \in Range(u)
    <3>1. i + Len(s) \in 1..Len(u) /\ i + Len(s) > Len(s) /\ (i + Len(s)) - Len(s) = i
      BY <1>1
    <3>2. u[i + Len(s)] = t[i]
      BY <1>1, <3>1
    <3> QED BY <1>2, <3>1, <3>2
  <2> QED BY <1>2, <2>1, <2>2, <2>3
<1>5. ASSUME IsInjective(s), IsInjective(t), Range(s) \cap Range(t) = {}
      PROVE  IsInjective(u)
  <2>1. /\ \A i, j \in 1..Len(s) : s[i] = s[j] => i = j
        /\ \A i, j \in 1..Len(t) : t[i] = t[j] => i = j
        /\ \A i \in 1..Len(s), j \in 1..Len(t) : s[i] # t[j]
    BY <1>2, <1>5, InjectiveOf
  <2>2. ASSUME NEW i \in 1..Len(u), NEW j \in 1..Len(u), u[i] = u[j] PROVE i = j
    <3>1. i \in Int /\ j \in Int /\ Len(s) \in Int
      BY <1>1
    <3>2. CASE i \in 1..Len(s) /\ j \in 1..Len(s)
      BY <1>1, <2>1, <2>2, <3>2
    <3>3. CASE i > Len(s) /\ j > Len(s)
      <4>1. /\ i - Len(s) \in 1..Len(t) /\ j - Len(s) \in 1..Len(t)
            /\ t[i - Len(s)] = t[j - Len(s)]
        BY <1>1, <1>3, <2>2, <3>1, <3>3
      <4>2. i - Len(s) = j - Len(s)
        BY <2>1, <4>1
      <4> QED BY <3>1, <4>2
    <3>4. CASE i \in 1..Len(s) /\ j > Len(s)
      BY <1>1, <1>3, <2>1, <2>2, <3>4
    <3>5. CASE j \in 1..Len(s) /\ i > Len(s)
      BY <1>1, <1>3, <2>1, <2>2, <3>5
    <3> QED BY <1>3, <3>2, <3>3, <3>4, <3>5
  <2> QED BY <1>1, <2>2, InjectiveOf
<1> QED BY <1>1, <1>4, <1>5 DEF u

\* A single element as a list.
LEMMA SingletonList ==
    ASSUME NEW S, NEW x \in S
    PROVE  <<x>> \in Seq(S) /\ Len(<<x>>) = 1 /\ Range(<<x>>) = {x} /\ IsInjective(<<x>>)
<1>1. <<x>> \in Seq(S) /\ Len(<<x>>) = 1 /\ <<x>>[1] = x
  OBVIOUS
<1>2. Range(<<x>>) = {<<x>>[i] : i \in 1..1}
  BY <1>1, RangeOf
<1>3. \A i, j \in 1..Len(<<x>>) : i = j
  BY <1>1
<1>4. IsInjective(<<x>>)
  BY <1>1, <1>3, InjectiveOf
<1> QED BY <1>1, <1>2, <1>4

\* The length and the elements of two lists one after the other.
LEMMA ConcatElements ==
    ASSUME NEW S, NEW s \in Seq(S), NEW t \in Seq(S)
    PROVE  Len(s \o t) = Len(s) + Len(t) /\ Range(s \o t) = Range(s) \cup Range(t)
<1>1. Len(s \o t) = Len(s) + Len(t)
  OBVIOUS
<1> QED BY <1>1, ConcatOfInjective

\* A list that gets a new head (Destruct).
LEMMA PrependOfInjective ==
    ASSUME NEW S, NEW s \in Seq(S), NEW x \in S
    PROVE  /\ <<x>> \o s \in Seq(S) /\ Len(<<x>> \o s) = Len(s) + 1
           /\ Range(<<x>> \o s) = {x} \cup Range(s)
           /\ IsInjective(s) /\ x \notin Range(s) => IsInjective(<<x>> \o s)
<1> DEFINE h == <<x>>
<1>1. h \in Seq(S) /\ Len(h) = 1 /\ Range(h) = {x} /\ IsInjective(h)
  BY SingletonList
<1>2. Len(s) \in Nat
  OBVIOUS
<1> HIDE DEF h
<1>3. /\ h \o s \in Seq(S) /\ Range(h \o s) = Range(h) \cup Range(s)
      /\ IsInjective(h) /\ IsInjective(s) /\ Range(h) \cap Range(s) = {} => IsInjective(h \o s)
  BY <1>1, ConcatOfInjective
<1>4. Len(h \o s) = Len(h) + Len(s)
  BY <1>1, ConcatElements
<1>5. h \o s \in Seq(S) /\ Len(h \o s) = Len(s) + 1 /\ Range(h \o s) = {x} \cup Range(s)
  BY <1>1, <1>2, <1>3, <1>4
<1>6. IsInjective(s) /\ x \notin Range(s) => IsInjective(h \o s)
  BY <1>1, <1>3
<1> QED BY <1>5, <1>6 DEF h

\* A list that gets a new last element (Gc).
LEMMA AppendOfInjective ==
    ASSUME NEW S, NEW s \in Seq(S), NEW x \in S
    PROVE  /\ Append(s, x) \in Seq(S) /\ Len(Append(s, x)) = Len(s) + 1
           /\ Range(Append(s, x)) = Range(s) \cup {x}
           /\ IsInjective(s) /\ x \notin Range(s) => IsInjective(Append(s, x))
<1>1. Append(s, x) = s \o <<x>> /\ Append(s, x) \in Seq(S) /\ Len(Append(s, x)) = Len(s) + 1
  OBVIOUS
<1>2. <<x>> \in Seq(S) /\ Range(<<x>>) = {x} /\ IsInjective(<<x>>)
  BY SingletonList
<1>3. /\ Range(s \o <<x>>) = Range(s) \cup Range(<<x>>)
      /\ IsInjective(s) /\ IsInjective(<<x>>) /\ Range(s) \cap Range(<<x>>) = {} => IsInjective(s \o <<x>>)
  BY <1>2, ConcatOfInjective, ZenonT(30)
<1> QED BY <1>1, <1>2, <1>3

\* The order in which a queue reaches the free list (Flush).
LEMMA ReverseOfInjective ==
    ASSUME NEW S, NEW s \in Seq(S)
    PROVE  /\ Reverse(s) \in Seq(S)
           /\ Range(Reverse(s)) = Range(s)
           /\ IsInjective(s) => IsInjective(Reverse(s))
<1> DEFINE r == Reverse(s)
<1>1. /\ r \in Seq(S) /\ Len(r) = Len(s) /\ Len(s) \in Nat
      /\ \A i \in 1..Len(s) : (Len(s) - i) + 1 \in 1..Len(s) /\ r[i] = s[(Len(s) - i) + 1]
  BY DEF Reverse
<1>2. /\ Range(s) = {s[i] : i \in 1..Len(s)}
      /\ Range(r) = {r[i] : i \in 1..Len(s)}
  BY <1>1, RangeOf
<1> HIDE DEF r
<1>3. Range(r) = Range(s)
  <2>1. ASSUME NEW i \in 1..Len(s) PROVE s[i] \in Range(r)
    <3>1. (Len(s) - i) + 1 \in 1..Len(s) /\ (Len(s) - ((Len(s) - i) + 1)) + 1 = i
      BY <1>1
    <3>2. r[(Len(s) - i) + 1] = s[i]
      BY <1>1, <3>1
    <3> QED BY <1>2, <3>1, <3>2
  <2> QED BY <1>1, <1>2, <2>1
<1>4. ASSUME IsInjective(s) PROVE IsInjective(r)
  <2>1. \A i, j \in 1..Len(s) : s[i] = s[j] => i = j
    BY <1>4, InjectiveOf
  <2>2. \A i, j \in 1..Len(s) : r[i] = r[j] => (Len(s) - i) + 1 = (Len(s) - j) + 1
    BY <1>1, <2>1
  <2>3. \A i, j \in 1..Len(r) : r[i] = r[j] => i = j
    BY <1>1, <2>2
  <2> QED BY <1>1, <2>3, InjectiveOf
<1> QED BY <1>1, <1>3, <1>4 DEF r

\* A list without repetitions has as many elements as it is long.
LEMMA CardinalityOfList ==
    ASSUME NEW S, NEW s \in Seq(S), IsInjective(s)
    PROVE  IsFiniteSet(Range(s)) /\ Cardinality(Range(s)) = Len(s)
<1>1. Len(s) \in Nat /\ Range(s) = {s[i] : i \in 1..Len(s)} /\ s \in [1..Len(s) -> Range(s)]
  BY RangeOf
<1>2. IsFiniteSet(1..Len(s)) /\ Cardinality(1..Len(s)) = Len(s)
  <2>1. 1 \in Int /\ Len(s) \in Int
    BY <1>1
  <2>2. IsFiniteSet(1..Len(s)) /\ Cardinality(1..Len(s)) = IF 1 > Len(s) THEN 0 ELSE Len(s) - 1 + 1
    BY <2>1, FS_Interval
  <2> QED BY <1>1, <2>2
<1>3. \A i, j \in 1..Len(s) : s[i] = s[j] => i = j
  BY InjectiveOf
<1>4. s \in Bijection(1..Len(s), Range(s))
  BY <1>1, <1>3 DEF Bijection, Injection, Surjection
<1>5. ExistsBijection(1..Len(s), Range(s))
  BY <1>4 DEF ExistsBijection
<1> QED BY <1>2, <1>5, FS_Bijection

(***************************************************************************)
(* Natural numbers.                                                        *)
(***************************************************************************)

\* Every set of natural numbers has a least element: the order is well-founded.
LEMMA LeastNatural ==
    ASSUME NEW T \in SUBSET Nat, T # {}
    PROVE  \E x \in T : \A y \in T : x <= y
<1> DEFINE R == OpToRel(<, Nat)
<1>1. IsWellFoundedOn(R, Nat)
  BY NatLessThanWellFounded
<1> HIDE DEF R
<1>2. PICK x \in T : \A y \in T : ~(<<y, x>> \in R)
  BY <1>1, WFMin
<1>3. ASSUME NEW y \in T PROVE x <= y
  <2>1. ASSUME NEW m \in Nat, NEW n \in Nat, m < n PROVE <<m, n>> \in R
    BY <2>1 DEF R, OpToRel
  <2>2. x \in Nat /\ y \in Nat /\ ~(y < x)
    BY <1>2, <2>1
  <2> QED BY <2>2, SMT
<1> QED BY <1>3, Zenon

\* Induction, for properties given as the set of the numbers that have them.
LEMMA InductionOnNat ==
    ASSUME NEW S, 0 \in S, \A n \in Nat : n \in S => n + 1 \in S
    PROVE  Nat \subseteq S
<1> DEFINE T == Nat \ S
<1>1. SUFFICES ASSUME T # {} PROVE FALSE
  BY Zenon DEF T
<1>2. PICK x \in T : \A y \in T : x <= y
  BY <1>1, LeastNatural
<1>3. x - 1 \in Nat /\ (x - 1) + 1 = x /\ ~(x <= x - 1)
  BY <1>2
<1> QED BY <1>2, <1>3

\* Multiples of s are ordered as their factors, and dividing takes the factor out.
LEMMA Multiples ==
    ASSUME NEW s \in Nat \ {0}, NEW j \in Nat, NEW k \in Nat
    PROVE  /\ s * k \in Nat /\ s * k + s = s * (k + 1)
           /\ s * j <= s * k <=> j <= k
           /\ (s * k) \div s = k
OBVIOUS

\* How often s fits into n.
LEMMA Quotient ==
    ASSUME NEW s \in Nat \ {0}, NEW n \in Nat, NEW k \in Nat
    PROVE  n \div s \in Nat /\ (s * k <= n <=> k <= n \div s)
OBVIOUS
=============================================================================
