---------------------------- MODULE QueueLemmas ----------------------------
(***************************************************************************)
(* Facts about queues that the proofs of several components use.           *)
(***************************************************************************)
EXTENDS Integers, Sequences, SequenceTheorems, TLAPS

\* A queue whose elements are each replaced by one of the same type.
LEMMA MapInSeq ==
  ASSUME NEW S, NEW s \in Seq(S), NEW f, f = [i \in DOMAIN s |-> f[i]],
         \A i \in DOMAIN s : f[i] \in S
  PROVE  f \in Seq(S) /\ Len(f) = Len(s) /\ DOMAIN f = DOMAIN s
<1>1. DOMAIN s = 1 .. Len(s) /\ Len(s) \in Nat
  BY LenProperties
<1>2. f \in [1 .. Len(s) -> S]
  BY <1>1
<1>3. f \in Seq(S)
  BY <1>1, <1>2, IsASeq
<1>4. DOMAIN f = 1 .. Len(f) /\ Len(f) \in Nat
  BY <1>3, LenProperties
<1> QED
  BY <1>1, <1>3, <1>4

\* The elements of a queue have its type.
LEMMA ElementType ==
  ASSUME NEW S, NEW s \in Seq(S)
  PROVE  \A i \in DOMAIN s : i \in Nat /\ s[i] \in S
<1>1. DOMAIN s = 1 .. Len(s) /\ s \in [1 .. Len(s) -> S] /\ Len(s) \in Nat
  BY LenProperties
<1> QED
  BY <1>1

\* Where the elements of a queue are after it lost its head.
LEMMA TailIndex ==
  ASSUME NEW S, NEW s \in Seq(S), s # <<>>
  PROVE  /\ 1 \in DOMAIN s /\ Head(s) = s[1]
         /\ \A i \in DOMAIN Tail(s) : i \in Nat /\ 1 < i + 1 /\ i + 1 \in DOMAIN s
                                     /\ Tail(s)[i] = s[i + 1]
<1>1. /\ Len(s) \in Nat /\ Len(s) > 0 /\ DOMAIN s = 1 .. Len(s)
      /\ DOMAIN Tail(s) = 1 .. Len(s) - 1
  BY HeadTailProperties, LenProperties, EmptySeq
<1> QED
  BY <1>1, HeadTailProperties

\* An element of a queue that was appended to is an old one or the last.
LEMMA AppendIndex ==
  ASSUME NEW S, NEW s \in Seq(S), NEW e \in S
  PROVE  \A i \in DOMAIN Append(s, e) :
           \/ i \in DOMAIN s /\ Append(s, e)[i] = s[i]
           \/ /\ \A j \in DOMAIN Append(s, e) : j <= i
              /\ Append(s, e)[i] = e
<1>1. Len(s) \in Nat /\ DOMAIN s = 1 .. Len(s) /\ DOMAIN Append(s, e) = 1 .. Len(s) + 1
  BY AppendProperties, LenProperties
<1> QED
  BY <1>1, AppendProperties

\* An element of a queue but the head is one of what is left of it.
LEMMA TailCovers ==
  ASSUME NEW S, NEW s \in Seq(S), s # <<>>
  PROVE  \A j \in DOMAIN s : j > 1 => j - 1 \in DOMAIN Tail(s) /\ Tail(s)[j - 1] = s[j]
<1>1. /\ Len(s) \in Nat /\ Len(s) > 0 /\ DOMAIN s = 1 .. Len(s)
      /\ DOMAIN Tail(s) = 1 .. Len(s) - 1
  BY HeadTailProperties, LenProperties, EmptySeq
<1> QED
  BY <1>1, HeadTailProperties

\* What was appended is last, and what was there before it is still there.
LEMMA AppendCovers ==
  ASSUME NEW S, NEW s \in Seq(S), NEW e \in S
  PROVE  /\ \A j \in DOMAIN s : j \in DOMAIN Append(s, e) /\ Append(s, e)[j] = s[j]
         /\ \E k \in DOMAIN Append(s, e) :
              Append(s, e)[k] = e /\ \A j \in DOMAIN s : j < k
<1>1. Len(s) \in Nat /\ DOMAIN s = 1 .. Len(s) /\ DOMAIN Append(s, e) = 1 .. Len(s) + 1
  BY AppendProperties, LenProperties
<1>2. Len(s) + 1 \in DOMAIN Append(s, e) /\ Append(s, e)[Len(s) + 1] = e
  BY <1>1, AppendProperties
<1> QED
  BY <1>1, <1>2, AppendProperties

LEMMA NoElements ==
  ASSUME NEW S, NEW s \in Seq(S), \A i \in DOMAIN s : FALSE
  PROVE  s = <<>>
<1>1. DOMAIN s = 1 .. Len(s) /\ Len(s) \in Nat
  BY LenProperties
<1>2. ASSUME Len(s) # 0 PROVE FALSE
  <2>1. 1 \in 1 .. Len(s)
    BY <1>1, <1>2
  <2> QED
    BY <1>1, <2>1
<1>3. Len(s) = 0
  BY <1>2
<1> QED
  BY <1>3, EmptySeq

\* The last element of a queue stays its last until it is the head.
LEMMA TailLast ==
  ASSUME NEW S, NEW s \in Seq(S), s # <<>>
  PROVE  /\ Tail(s) # <<>> => Tail(s)[Len(Tail(s))] = s[Len(s)]
         /\ Tail(s) = <<>> => Head(s) = s[Len(s)]
<1>1. /\ Len(s) \in Nat /\ Len(s) > 0
      /\ Tail(s) \in Seq(S) /\ Len(Tail(s)) = Len(s) - 1 /\ Head(s) = s[1]
      /\ \A i \in 1 .. Len(Tail(s)) : Tail(s)[i] = s[i + 1]
  BY HeadTailProperties, LenProperties, EmptySeq
<1>2. ASSUME Tail(s) # <<>> PROVE Tail(s)[Len(Tail(s))] = s[Len(s)]
  <2>1. Len(Tail(s)) # 0
    BY <1>1, <1>2, EmptySeq
  <2>2. Len(Tail(s)) \in 1 .. Len(Tail(s))
    BY <1>1, <2>1
  <2> QED
    BY <1>1, <2>2
<1>3. ASSUME Tail(s) = <<>> PROVE Head(s) = s[Len(s)]
  <2>1. Len(Tail(s)) = 0
    BY <1>1, <1>3, EmptySeq
  <2>2. Len(s) \in Nat /\ Len(Tail(s)) = Len(s) - 1
    BY <1>1
  <2>3. Len(s) = 1
    BY <2>1, <2>2
  <2> QED
    BY <1>1, <2>3
<1> QED
  BY <1>2, <1>3

-----------------------------------------------------------------------------
(* The ids of the commands in a queue. *)

IdsOf(s) == [i \in DOMAIN s |-> s[i].id]

LEMMA IdsOfType ==
  ASSUME NEW S, NEW T, \A c \in S : c.id \in T, NEW s \in Seq(S)
  PROVE  /\ IdsOf(s) \in Seq(T) /\ Len(IdsOf(s)) = Len(s) /\ Len(s) \in Nat
         /\ \A i \in 1 .. Len(s) : s[i] \in S /\ IdsOf(s)[i] = s[i].id
<1>1. DOMAIN s = 1 .. Len(s) /\ Len(s) \in Nat /\ \A i \in 1 .. Len(s) : s[i] \in S
  BY LenProperties, ElementType
<1>2. IdsOf(s) = [i \in 1 .. Len(s) |-> s[i].id]
  BY <1>1 DEF IdsOf
<1>3. IdsOf(s) \in Seq(T)
  BY <1>1, <1>2, IsASeq
<1>4. DOMAIN IdsOf(s) = 1 .. Len(IdsOf(s)) /\ Len(IdsOf(s)) \in Nat
  BY <1>3, LenProperties
<1> QED
  BY <1>1, <1>2, <1>3, <1>4

LEMMA IdsEmpty == IdsOf(<<>>) = <<>>
<1>1. <<>> \in Seq({[id |-> 0]}) /\ Len(<<>>) = 0
  BY EmptySeq
<1>2. IdsOf(<<>>) \in Seq({0}) /\ Len(IdsOf(<<>>)) = 0
  <2>1. \A c \in {[id |-> 0]} : c.id \in {0}
    OBVIOUS
  <2> QED
    BY <1>1, <2>1, IdsOfType
<1> QED
  BY <1>2, EmptySeq

LEMMA IdsAppend ==
  ASSUME NEW S, NEW T, \A c \in S : c.id \in T, NEW s \in Seq(S), NEW e \in S
  PROVE  IdsOf(Append(s, e)) = Append(IdsOf(s), e.id)
<1>1. /\ Append(s, e) \in Seq(S) /\ Len(Append(s, e)) = Len(s) + 1 /\ Len(s) \in Nat
      /\ \A i \in 1 .. Len(s) : Append(s, e)[i] = s[i]
      /\ Append(s, e)[Len(s) + 1] = e
  BY AppendProperties, LenProperties
<1>2. /\ IdsOf(s) \in Seq(T) /\ Len(IdsOf(s)) = Len(s)
      /\ \A i \in 1 .. Len(s) : IdsOf(s)[i] = s[i].id
  BY IdsOfType
<1>3. /\ IdsOf(Append(s, e)) \in Seq(T) /\ Len(IdsOf(Append(s, e))) = Len(s) + 1
      /\ \A i \in 1 .. Len(s) + 1 : IdsOf(Append(s, e))[i] = Append(s, e)[i].id
  BY <1>1, IdsOfType
<1>4. /\ Append(IdsOf(s), e.id) \in Seq(T) /\ Len(Append(IdsOf(s), e.id)) = Len(s) + 1
      /\ \A i \in 1 .. Len(s) : Append(IdsOf(s), e.id)[i] = IdsOf(s)[i]
      /\ Append(IdsOf(s), e.id)[Len(s) + 1] = e.id
  BY <1>2, AppendProperties
<1>5. \A i \in 1 .. Len(s) + 1 : IdsOf(Append(s, e))[i] = Append(IdsOf(s), e.id)[i]
  BY <1>1, <1>2, <1>3, <1>4
<1> QED
  BY <1>3, <1>4, <1>5, SeqEqual

LEMMA IdsTail ==
  ASSUME NEW S, NEW T, \A c \in S : c.id \in T, NEW s \in Seq(S), s # <<>>
  PROVE  IdsOf(Tail(s)) = SubSeq(IdsOf(s), 2, Len(IdsOf(s)))
<1>1. /\ Tail(s) \in Seq(S) /\ Len(Tail(s)) = Len(s) - 1 /\ Len(s) \in Nat /\ Len(s) > 0
      /\ \A i \in 1 .. Len(Tail(s)) : Tail(s)[i] = s[i + 1]
  BY HeadTailProperties, LenProperties, EmptySeq
<1>2. /\ IdsOf(s) \in Seq(T) /\ Len(IdsOf(s)) = Len(s)
      /\ \A i \in 1 .. Len(s) : IdsOf(s)[i] = s[i].id
  BY IdsOfType
<1>3. IdsOf(s) # <<>>
  BY <1>1, <1>2, EmptySeq
<1>4. /\ Tail(IdsOf(s)) \in Seq(T) /\ Len(Tail(IdsOf(s))) = Len(s) - 1
      /\ \A i \in 1 .. Len(Tail(IdsOf(s))) : Tail(IdsOf(s))[i] = IdsOf(s)[i + 1]
  BY <1>2, <1>3, HeadTailProperties
<1>5. /\ IdsOf(Tail(s)) \in Seq(T) /\ Len(IdsOf(Tail(s))) = Len(s) - 1
      /\ \A i \in 1 .. Len(s) - 1 : IdsOf(Tail(s))[i] = Tail(s)[i].id
  BY <1>1, IdsOfType
<1>6. \A i \in 1 .. Len(s) - 1 : IdsOf(Tail(s))[i] = Tail(IdsOf(s))[i]
  BY <1>1, <1>2, <1>4, <1>5
<1>7. IdsOf(Tail(s)) = Tail(IdsOf(s))
  BY <1>4, <1>5, <1>6, SeqEqual
<1> QED
  BY <1>2, <1>3, <1>7, TailIsSubSeq
=============================================================================
