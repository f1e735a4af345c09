---------------------------- MODULE QueueLemmas ----------------------------
(***************************************************************************)
(* What Append and Tail do to the elements of a queue without duplicates.  *)
(***************************************************************************)
EXTENDS Naturals, Sequences, Functions, TLAPS

\* Append adds one element, at the end.
LEMMA AppendFacts ==
    ASSUME NEW S, NEW s \in Seq(S), NEW x \in S
    PROVE  /\ Append(s, x) \in Seq(S)
           /\ Append(s, x) # <<>>
           /\ Range(Append(s, x)) = Range(s) \cup {x}
           /\ IsInjective(s) /\ x \notin Range(s) => IsInjective(Append(s, x))
<1>1. /\ Append(s, x) \in Seq(S)
      /\ Len(s) \in Nat
      /\ Len(Append(s, x)) = Len(s) + 1
      /\ \A i \in 1..Len(s) : Append(s, x)[i] = s[i]
      /\ Append(s, x)[Len(s) + 1] = x
  OBVIOUS
<1>2. Append(s, x) # <<>>
  BY <1>1
<1>3. DOMAIN s = 1..Len(s) /\ DOMAIN Append(s, x) = 1..(Len(s) + 1)
  BY <1>1
<1>4. Range(Append(s, x)) = Range(s) \cup {x}
  <2>1. \A y \in Range(Append(s, x)) : y \in Range(s) \cup {x}
    BY <1>1, <1>3 DEF Range
  <2>2. \A y \in Range(s) \cup {x} : y \in Range(Append(s, x))
    BY <1>1, <1>3 DEF Range
  <2>3. QED
    BY <2>1, <2>2
<1>5. ASSUME IsInjective(s), x \notin Range(s)
      PROVE  IsInjective(Append(s, x))
  BY <1>1, <1>3, <1>5 DEF IsInjective, Range
<1>6. QED
  BY <1>1, <1>2, <1>4, <1>5

\* Tail removes the first element, and only that one from an injective
\* sequence.
LEMMA TailFacts ==
    ASSUME NEW S, NEW s \in Seq(S), s # <<>>
    PROVE  /\ Head(s) \in S
           /\ Tail(s) \in Seq(S)
           /\ Range(s) = Range(Tail(s)) \cup {Head(s)}
           /\ IsInjective(s) => /\ IsInjective(Tail(s))
                                /\ Head(s) \notin Range(Tail(s))
<1>1. Head(s) \in S /\ Tail(s) \in Seq(S) /\ Len(s) \in Nat \ {0}
  OBVIOUS
<1>2. /\ Head(s) = s[1]
      /\ Len(Tail(s)) = Len(s) - 1
      /\ \A i \in 1..Len(Tail(s)) : Tail(s)[i] = s[i + 1]
  OBVIOUS
<1>3. Range(s) = Range(Tail(s)) \cup {Head(s)}
  <2>1. ASSUME NEW i \in 1..Len(s)
        PROVE  s[i] \in Range(Tail(s)) \cup {Head(s)}
    <3>1. CASE i = 1
      BY <3>1, <1>2
    <3>2. CASE i # 1
      <4>1. i - 1 \in 1..Len(Tail(s)) /\ Tail(s)[i - 1] = s[i]
        BY <3>2, <1>1, <1>2
      <4>2. i - 1 \in DOMAIN Tail(s)
        BY <4>1, <1>1
      <4>3. Tail(s)[i - 1] \in Range(Tail(s))
        BY <4>2, Zenon DEF Range
      <4>4. QED
        BY <4>1, <4>3
    <3>3. QED
      BY <3>1, <3>2
  <2>2. ASSUME NEW i \in 1..Len(Tail(s))
        PROVE  Tail(s)[i] \in Range(s)
    BY <1>1, <1>2 DEF Range
  <2>3. Head(s) \in Range(s)
    BY <1>1, <1>2 DEF Range
  <2>4. DOMAIN s = 1..Len(s) /\ DOMAIN Tail(s) = 1..Len(Tail(s))
    BY <1>1
  <2>5. \A y \in Range(s) : y \in Range(Tail(s)) \cup {Head(s)}
    BY <2>1, <2>4 DEF Range
  <2>6. \A y \in Range(Tail(s)) : y \in Range(s)
    BY <2>2, <2>4 DEF Range
  <2>7. QED
    BY <2>3, <2>5, <2>6
<1>4. ASSUME IsInjective(s)
      PROVE  IsInjective(Tail(s)) /\ Head(s) \notin Range(Tail(s))
  BY <1>1, <1>2, <1>4 DEF IsInjective, Range
<1>5. QED
  BY <1>1, <1>3, <1>4

\* The elements of a sequence over S are in S.
LEMMA RangeFacts ==
    ASSUME NEW S, NEW s \in Seq(S)
    PROVE  \A x \in Range(s) : x \in S
  BY DEF Range

\* The empty sequence has no elements.
LEMMA EmptyFacts ==
    ASSUME NEW S, NEW s \in Seq(S)
    PROVE  /\ s = <<>> <=> Range(s) = {}
           /\ s = <<>> => IsInjective(s)
<1>1. s = <<>> => Range(s) = {} /\ IsInjective(s)
  BY DEF Range, IsInjective
<1>2. s # <<>> => Range(s) # {}
  <2>1. s # <<>> => 1 \in DOMAIN s
    OBVIOUS
  <2>2. QED
    BY <2>1 DEF Range
<1>3. QED
  BY <1>1, <1>2
=============================================================================
