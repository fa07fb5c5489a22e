---------------------------- MODULE ChannelLemmas ----------------------------
(***************************************************************************)
(* Lemmas about the channels of the models, which are sequences, about     *)
(* counting and about induction, that the proofs of several components     *)
(* share.                                                                  *)
(***************************************************************************)
EXTENDS Integers, Sequences, FiniteSets, Functions, TLAPS, FiniteSetTheorems,
        SequenceTheorems

-----------------------------------------------------------------------------
(* Channels: receiving takes the head off, sending appends. *)

(* A receive takes a message of the channel and leaves a shorter one.      *)
LEMMA ReceiveType ==
  ASSUME NEW S, NEW s \in Seq(S), s # <<>>
  PROVE  /\ Head(s) \in S
         /\ Tail(s) \in Seq(S)
         /\ Len(s) \in Nat \ {0}
         /\ Len(Tail(s)) = Len(s) - 1
BY HeadTailProperties, EmptySeq, LenProperties

(* A receive removes the head from the channel's contents, and nothing     *)
(* else when no message is there twice.                                    *)
LEMMA ReceiveContents ==
  ASSUME NEW S, NEW s \in Seq(S), s # <<>>, IsInjective(s)
  PROVE  /\ Range(Tail(s)) = Range(s) \ {Head(s)}
         /\ Head(s) \in Range(s)
         /\ IsInjective(Tail(s))
<1>1. /\ Len(s) \in Nat \ {0}
      /\ DOMAIN s = 1 .. Len(s)
      /\ Head(s) = s[1]
  BY ReceiveType, LenProperties
<1>2. /\ DOMAIN Tail(s) = 1 .. Len(s) - 1
      /\ \A i \in 1 .. Len(s) - 1 : Tail(s)[i] = s[i + 1]
  BY <1>1, ReceiveType, HeadTailProperties, LenProperties
<1>3. IsInjective(Tail(s))
  <2>. SUFFICES ASSUME NEW a \in 1 .. Len(s) - 1, NEW b \in 1 .. Len(s) - 1,
                       Tail(s)[a] = Tail(s)[b]
                PROVE  a = b
    BY <1>2 DEF IsInjective
  <2>1. s[a + 1] = s[b + 1] /\ a + 1 \in DOMAIN s /\ b + 1 \in DOMAIN s
    BY <1>1, <1>2
  <2>. QED  BY <2>1, <1>1 DEF IsInjective
<1>4. ASSUME NEW x \in Range(Tail(s))  PROVE x \in Range(s) \ {Head(s)}
  <2>1. PICK i \in 1 .. Len(s) - 1 : x = s[i + 1]
    BY <1>2, <1>4 DEF Range
  <2>2. i + 1 \in DOMAIN s /\ 1 \in DOMAIN s /\ i + 1 # 1
    BY <1>1
  <2>. QED  BY <2>1, <2>2, <1>1 DEF Range, IsInjective
<1>5. ASSUME NEW x \in Range(s) \ {Head(s)}  PROVE x \in Range(Tail(s))
  <2>1. PICK i \in 1 .. Len(s) : x = s[i]
    BY <1>1, <1>5 DEF Range
  <2>2. i # 1
    BY <2>1, <1>1, <1>5
  <2>3. i - 1 \in 1 .. Len(s) - 1 /\ (i - 1) + 1 = i
    BY <2>2, <1>1
  <2>4. Tail(s)[i - 1] = x
    BY <2>1, <2>3, <1>2
  <2>. QED  BY <2>3, <2>4, <1>2 DEF Range
<1>6. Head(s) \in Range(s)
  BY <1>1 DEF Range
<1>. QED  BY <1>3, <1>4, <1>5, <1>6

(* A send adds the message to the channel's contents, and leaves no        *)
(* message there twice when it was not there before.                       *)
LEMMA SendContents ==
  ASSUME NEW S, NEW s \in Seq(S), NEW x \in S
  PROVE  /\ Range(Append(s, x)) = Range(s) \union {x}
         /\ IsInjective(s) /\ x \notin Range(s) => IsInjective(Append(s, x))
<1>1. /\ Len(s) \in Nat
      /\ DOMAIN s = 1 .. Len(s)
      /\ DOMAIN Append(s, x) = 1 .. Len(s) + 1
      /\ Append(s, x)[Len(s) + 1] = x
      /\ \A i \in 1 .. Len(s) : Append(s, x)[i] = s[i]
  BY AppendProperties, LenProperties
<1>2. Range(Append(s, x)) = Range(s) \union {x}
  BY <1>1 DEF Range
<1>3. ASSUME IsInjective(s), x \notin Range(s)  PROVE IsInjective(Append(s, x))
  BY <1>1, <1>3 DEF Range, IsInjective
<1>. QED  BY <1>2, <1>3

(* The contents of an empty channel, and of one that is not.              *)
LEMMA EmptyContents ==
  /\ Range(<<>>) = {} /\ IsInjective(<<>>)
  /\ \A S : <<>> \in Seq(S) /\ Len(<<>>) = 0
BY EmptySeq DEF Range, IsInjective

LEMMA ContentsType ==
  ASSUME NEW S, NEW s \in Seq(S)
  PROVE  Range(s) \subseteq S
BY LenProperties, ElementOfSeq DEF Range

(* A send keeps the channel a sequence, one longer.                        *)
LEMMA SendType ==
  ASSUME NEW S, NEW s \in Seq(S), NEW x \in S
  PROVE  Append(s, x) \in Seq(S) /\ Len(Append(s, x)) = Len(s) + 1 /\ Len(s) \in Nat
BY AppendProperties, LenProperties

-----------------------------------------------------------------------------
(* Counting *)

(* One more, and one less.                                                 *)
LEMMA OneMore ==
  ASSUME NEW S, NEW x, IsFiniteSet(S), x \notin S
  PROVE  /\ IsFiniteSet(S \union {x})
         /\ Cardinality(S \union {x}) = Cardinality(S) + 1
         /\ Cardinality(S) \in Nat
BY FS_AddElement, FS_CardinalityType

LEMMA OneLess ==
  ASSUME NEW S, NEW x, IsFiniteSet(S), x \in S
  PROVE  /\ IsFiniteSet(S \ {x})
         /\ Cardinality(S \ {x}) = Cardinality(S) - 1
         /\ Cardinality(S) \in Nat
BY FS_RemoveElement, FS_CardinalityType

(* A set whose elements are all equal has at most one.                     *)
LEMMA AtMostOne ==
  ASSUME NEW S, \A x, y \in S : x = y
  PROVE  IsFiniteSet(S) /\ Cardinality(S) <= 1
<1>1. CASE S = {}
  BY <1>1, FS_EmptySet
<1>2. CASE S # {}
  <2>1. PICK x : x \in S
    BY <1>2
  <2>2. S = {x}
    BY <2>1
  <2>3. IsFiniteSet({x}) /\ Cardinality({x}) = 1
    BY FS_Singleton
  <2>. QED  BY <2>2, <2>3
<1>. QED  BY <1>1, <1>2

-----------------------------------------------------------------------------
(* Counting the messages of a type in a channel *)

IndicesOf(s, type) == {i \in 1 .. Len(s) : s[i].type = type}
NumberOf(s, type) == Cardinality(IndicesOf(s, type))

LEMMA NumberType ==
  ASSUME NEW S, NEW s \in Seq(S), NEW type
  PROVE  IsFiniteSet(IndicesOf(s, type)) /\ NumberOf(s, type) \in Nat
<1>1. IsFiniteSet(1 .. Len(s)) /\ IndicesOf(s, type) \in SUBSET (1 .. Len(s))
  BY LenProperties, FS_Interval DEF IndicesOf
<1>. QED  BY <1>1, FS_Subset, FS_CardinalityType DEF NumberOf

(* A send adds one message of its type, and none of another.               *)
LEMMA NumberAfterSend ==
  ASSUME NEW S, NEW s \in Seq(S), NEW x \in S, NEW type
  PROVE  /\ x.type = type => NumberOf(Append(s, x), type) = NumberOf(s, type) + 1
         /\ x.type # type => NumberOf(Append(s, x), type) = NumberOf(s, type)
<1>1. /\ Len(s) \in Nat
      /\ Len(Append(s, x)) = Len(s) + 1
      /\ Append(s, x)[Len(s) + 1] = x
      /\ \A i \in 1 .. Len(s) : Append(s, x)[i] = s[i]
  BY AppendProperties, LenProperties
<1>2. 1 .. Len(s) + 1 = (1 .. Len(s)) \union {Len(s) + 1} /\ Len(s) + 1 \notin 1 .. Len(s)
  BY <1>1
<1>3. CASE x.type = type
  <2>1. IndicesOf(Append(s, x), type) = IndicesOf(s, type) \union {Len(s) + 1}
    BY <1>1, <1>2, <1>3 DEF IndicesOf
  <2>2. Len(s) + 1 \notin IndicesOf(s, type)
    BY <1>2 DEF IndicesOf
  <2>. QED  BY <1>3, <2>1, <2>2, NumberType, OneMore DEF NumberOf
<1>4. CASE x.type # type
  <2>1. IndicesOf(Append(s, x), type) = IndicesOf(s, type)
    BY <1>1, <1>2, <1>4 DEF IndicesOf
  <2>. QED  BY <1>4, <2>1 DEF NumberOf
<1>. QED  BY <1>3, <1>4

(* A receive takes one message of the head's type, and none of another.    *)
LEMMA NumberAfterReceive ==
  ASSUME NEW S, NEW s \in Seq(S), s # <<>>, NEW type
  PROVE  NumberOf(s, type) = NumberOf(Tail(s), type)
                               + (IF Head(s).type = type THEN 1 ELSE 0)
<1>1. /\ Len(s) \in Nat \ {0}
      /\ Tail(s) \in Seq(S)
      /\ Len(Tail(s)) = Len(s) - 1
      /\ Head(s) = s[1]
      /\ \A i \in 1 .. Len(s) - 1 : Tail(s)[i] = s[i + 1]
  BY ReceiveType, HeadTailProperties
<1>. DEFINE Rest == IndicesOf(s, type) \ {1}
<1>2. IsFiniteSet(IndicesOf(s, type)) /\ NumberOf(s, type) \in Nat
  BY NumberType
<1>3. IsFiniteSet(IndicesOf(Tail(s), type)) /\ NumberOf(Tail(s), type) \in Nat
  BY <1>1, NumberType
<1>4. Cardinality(Rest) = NumberOf(Tail(s), type)
  <2>. DEFINE shift == [i \in IndicesOf(Tail(s), type) |-> i + 1]
  <2>1. shift \in [IndicesOf(Tail(s), type) -> Rest]
    BY <1>1 DEF IndicesOf
  <2>2. \A i, j \in IndicesOf(Tail(s), type) : shift[i] = shift[j] => i = j
    BY <1>1 DEF IndicesOf
  <2>3. \A j \in Rest : \E i \in IndicesOf(Tail(s), type) : shift[i] = j
    <3>. SUFFICES ASSUME NEW j \in Rest
                  PROVE  \E i \in IndicesOf(Tail(s), type) : shift[i] = j
      OBVIOUS
    <3>1. j - 1 \in 1 .. Len(s) - 1 /\ (j - 1) + 1 = j /\ s[j].type = type
      BY <1>1 DEF IndicesOf
    <3>2. j - 1 \in IndicesOf(Tail(s), type)
      BY <1>1, <3>1 DEF IndicesOf
    <3>. QED  BY <3>1, <3>2
  <2>4. shift \in Bijection(IndicesOf(Tail(s), type), Rest)
    BY <2>1, <2>2, <2>3 DEF Bijection, Injection, Surjection, IsInjective
  <2>5. ExistsBijection(IndicesOf(Tail(s), type), Rest)
    BY <2>4 DEF ExistsBijection
  <2>. QED  BY <1>3, <2>5, FS_Bijection DEF NumberOf
<1>5. Cardinality(Rest) = IF 1 \in IndicesOf(s, type) THEN NumberOf(s, type) - 1
                                                    ELSE NumberOf(s, type)
  BY <1>2, FS_RemoveElement DEF NumberOf
<1>6. 1 \in IndicesOf(s, type) <=> Head(s).type = type
  BY <1>1 DEF IndicesOf
<1>. QED  BY <1>2, <1>3, <1>4, <1>5, <1>6

(* A channel that holds no message twice holds as many as its length.      *)
LEMMA ContentsNumber ==
  ASSUME NEW S, NEW s \in Seq(S), IsInjective(s)
  PROVE  IsFiniteSet(Range(s)) /\ Cardinality(Range(s)) = Len(s)
<1>1. Len(s) \in Nat /\ DOMAIN s = 1 .. Len(s)
  BY LenProperties
<1>2. IsFiniteSet(1 .. Len(s)) /\ Cardinality(1 .. Len(s)) = Len(s)
  BY <1>1, FS_Interval
<1>3. s = [i \in 1 .. Len(s) |-> s[i]]
  BY <1>1, SeqDef
<1>4. s \in [1 .. Len(s) -> Range(s)]
  BY <1>1, <1>3 DEF Range
<1>5. s \in Bijection(1 .. Len(s), Range(s))
  BY <1>1, <1>4 DEF Bijection, Injection, Surjection, IsInjective, Range
<1>6. ExistsBijection(1 .. Len(s), Range(s))
  BY <1>5 DEF ExistsBijection
<1>. QED  BY <1>2, <1>6, FS_Bijection

-----------------------------------------------------------------------------
(* Sums of counters *)

(* SumFunction adds the values up in the order in which CHOOSE picks the   *)
(* elements of the domain; SumsOver is the recursion it stands for.        *)
AnyOf(T) == CHOOSE x \in T : TRUE
SumsOver(f, S, h) ==
  h = [T \in SUBSET S |-> IF T = {} THEN 0 ELSE f[AnyOf(T)] + h[T \ {AnyOf(T)}]]

(* SumFunction is any solution of the recursion.                           *)
LEMMA SumIsSolution ==
  ASSUME NEW f
  PROVE  SumFunction(f) = (CHOOSE h : SumsOver(f, DOMAIN f, h))[DOMAIN f]
BY DEF SumFunction, SumFunctionOnSet, FoldFunctionOnSet, MapThenFoldSet, SumsOver, AnyOf

(* A value drawn as a set of that many units, and all the units over T:    *)
(* counting them is a sum that needs no order.                             *)
Units(f, x) == {x} \X (1 .. f[x])
AllUnits(f, T) == UNION {Units(f, x) : x \in T}

(* There are finitely many units.                                          *)
LEMMA UnitsFinite ==
  ASSUME NEW S, IsFiniteSet(S), NEW f \in [S -> Nat], NEW T \in SUBSET S
  PROVE  IsFiniteSet(AllUnits(f, T)) /\ Cardinality(AllUnits(f, T)) \in Nat
<1>1. IsFiniteSet(T)
  BY FS_Subset
<1>2. ASSUME NEW x \in T
      PROVE  IsFiniteSet(Units(f, x))
  <2>1. IsFiniteSet(1 .. f[x])
    BY FS_Interval
  <2>. QED  BY <2>1, FS_Singleton, FS_Product DEF Units
<1>. DEFINE C == {Units(f, x) : x \in T}
<1>. DEFINE c == [x \in T |-> Units(f, x)]
<1>3. c \in Surjection(T, C)
  BY DEF Surjection
<1>4. IsFiniteSet(C)
  BY <1>1, <1>3, FS_Surjection
<1>5. IsFiniteSet(AllUnits(f, T))
  BY <1>2, <1>4, FS_UNION DEF AllUnits
<1>. QED  BY <1>5, FS_CardinalityType

(* The units over a set are those of one element and those of the others.  *)
LEMMA UnitsAdd ==
  ASSUME NEW S, IsFiniteSet(S), NEW f \in [S -> Nat], NEW T \in SUBSET S, NEW x \in T
  PROVE  Cardinality(AllUnits(f, T)) = f[x] + Cardinality(AllUnits(f, T \ {x}))
<1>1. AllUnits(f, T) = Units(f, x) \union AllUnits(f, T \ {x})
  BY DEF AllUnits
<1>2. Units(f, x) \intersect AllUnits(f, T \ {x}) = {}
  BY DEF AllUnits, Units
<1>3. IsFiniteSet(Units(f, x)) /\ Cardinality(Units(f, x)) = f[x]
  <2>1. IsFiniteSet(1 .. f[x]) /\ Cardinality(1 .. f[x]) = f[x]
    BY FS_Interval
  <2>2. IsFiniteSet({x}) /\ Cardinality({x}) = 1
    BY FS_Singleton
  <2>3. IsFiniteSet({x} \X (1 .. f[x]))
        /\ Cardinality({x} \X (1 .. f[x])) = Cardinality({x}) * Cardinality(1 .. f[x])
    BY <2>1, <2>2, FS_Product
  <2>. QED  BY <2>1, <2>2, <2>3 DEF Units
<1>4. IsFiniteSet(AllUnits(f, T \ {x})) /\ Cardinality(AllUnits(f, T \ {x})) \in Nat
  BY UnitsFinite
<1>5. Cardinality(AllUnits(f, T)) = Cardinality(Units(f, x)) + Cardinality(AllUnits(f, T \ {x}))
                                - Cardinality(Units(f, x) \intersect AllUnits(f, T \ {x}))
  BY <1>1, <1>3, <1>4, FS_Union
<1>6. Cardinality(Units(f, x) \intersect AllUnits(f, T \ {x})) = 0
  BY <1>2, FS_EmptySet
<1>. QED  BY <1>3, <1>4, <1>5, <1>6

(* The sum is the number of units.  Induction over the subsets of the      *)
(* domain: of the subsets for which the recursion gives another number one *)
(* would be minimal, and taking an element away leaves a smaller one.      *)
LEMMA SumIsUnits ==
  ASSUME NEW S, IsFiniteSet(S), NEW f \in [S -> Nat]
  PROVE  SumFunction(f) = Cardinality(AllUnits(f, S))
<1>. DEFINE h == [T \in SUBSET S |-> Cardinality(AllUnits(f, T))]
<1>1. SumsOver(f, S, h)
  <2>1. h[{}] = 0
    BY FS_EmptySet DEF AllUnits
  <2>2. ASSUME NEW T \in SUBSET S, T # {}
        PROVE  h[T] = f[AnyOf(T)] + h[T \ {AnyOf(T)}]
    <3>1. AnyOf(T) \in T
      BY <2>2 DEF AnyOf
    <3>. QED  BY <3>1, UnitsAdd
  <2>. HIDE DEF h
  <2>3. h = [T \in SUBSET S |-> h[T]]
    BY DEF h
  <2>. QED  BY <2>1, <2>2, <2>3 DEF SumsOver
<1>. HIDE DEF h
<1>2. ASSUME NEW g, SumsOver(f, S, g)
      PROVE  g[S] = h[S]
  <2>. DEFINE Bad == {T \in SUBSET S : g[T] # h[T]}
  <2>1. Bad \subseteq FiniteSubsetsOf(S)
    BY FS_Subset DEF FiniteSubsetsOf
  <2>2. SUFFICES ASSUME Bad # {}  PROVE FALSE
    OBVIOUS
  <2>3. IsWellFoundedOn(StrictSubsetOrdering(S), FiniteSubsetsOf(S))
    BY FS_StrictSubsetOrderingWellFounded
  <2>. HIDE DEF Bad
  <2>4. PICK T \in Bad : \A U \in Bad : ~ (<<U, T>> \in StrictSubsetOrdering(S))
    BY <2>1, <2>2, <2>3, WFMin
  <2>5. T \in SUBSET S /\ g[T] # h[T]
    BY DEF Bad
  <2>6. T # {}
    BY <1>1, <1>2, <2>5 DEF SumsOver
  <2>7. AnyOf(T) \in T
    BY <2>6 DEF AnyOf
  <2>. DEFINE U == T \ {AnyOf(T)}
  <2>8. <<U, T>> \in StrictSubsetOrdering(S)
    BY <2>5, <2>7 DEF StrictSubsetOrdering
  <2>9. g[U] = h[U]
    BY <2>4, <2>5, <2>8 DEF Bad
  <2>10. g[T] = f[AnyOf(T)] + g[U] /\ h[T] = f[AnyOf(T)] + h[U]
    BY <1>1, <1>2, <2>5, <2>6 DEF SumsOver
  <2>. QED  BY <2>5, <2>9, <2>10
<1>3. SumsOver(f, S, CHOOSE g : SumsOver(f, S, g))
  BY <1>1
<1>4. SumFunction(f) = h[S]
  BY <1>2, <1>3, SumIsSolution
<1>. QED  BY <1>4 DEF h

(* One value grows by one, and so does the sum.                            *)
LEMMA SumGrows ==
  ASSUME NEW S, IsFiniteSet(S), NEW f \in [S -> Nat], NEW g \in [S -> Nat], NEW w \in S,
         g = [f EXCEPT ![w] = f[w] + 1]
  PROVE  /\ SumFunction(f) \in Nat
         /\ SumFunction(g) = SumFunction(f) + 1
<1>. DEFINE p == <<w, f[w] + 1>>
<1>1. AllUnits(g, S) = AllUnits(f, S) \union {p}
  <2>1. Units(g, w) = Units(f, w) \union {p}
    BY DEF Units
  <2>2. \A x \in S \ {w} : Units(g, x) = Units(f, x)
    BY DEF Units
  <2>. QED  BY <2>1, <2>2 DEF AllUnits
<1>2. p \notin AllUnits(f, S)
  <2>1. \A x \in S : p \in Units(f, x) => x = w /\ f[w] + 1 \in 1 .. f[w]
    BY DEF Units
  <2>. QED  BY <2>1 DEF AllUnits
<1>3. IsFiniteSet(AllUnits(f, S)) /\ Cardinality(AllUnits(f, S)) \in Nat
  BY UnitsFinite
<1>4. Cardinality(AllUnits(f, S) \union {p}) = Cardinality(AllUnits(f, S)) + 1
  BY <1>2, <1>3, OneMore
<1>. QED  BY <1>1, <1>3, <1>4, SumIsUnits

(* The sum of no values but zero.                                          *)
LEMMA SumOfZeros ==
  ASSUME NEW S, IsFiniteSet(S)
  PROVE  SumFunction([x \in S |-> 0]) = 0
<1>. DEFINE z == [x \in S |-> 0]
<1>1. z \in [S -> Nat]
  OBVIOUS
<1>2. AllUnits(z, S) = {}
  BY DEF AllUnits, Units
<1>. HIDE DEF z
<1>3. SumFunction(z) = Cardinality(AllUnits(z, S))
  BY <1>1, SumIsUnits
<1>. QED  BY <1>2, <1>3, FS_EmptySet DEF z

-----------------------------------------------------------------------------
(* Induction, through sets: an operator cannot be handed to a theorem, but a *)
(* set can.                                                                  *)

\* Of a set of numbers that is not empty, one is least.
LEMMA LeastNumber ==
  ASSUME NEW S \in SUBSET Nat, S # {}
  PROVE  \E m \in S : \A k \in S : m <= k
<1>. DEFINE T == {0 .. n : n \in S}
<1>1. T \subseteq FiniteSubsetsOf(Nat) /\ T # {}
  <2>1. \A n \in S : IsFiniteSet(0 .. n) /\ 0 .. n \subseteq Nat
    BY FS_Interval
  <2>. QED  BY <2>1 DEF FiniteSubsetsOf
<1>2. IsWellFoundedOn(StrictSubsetOrdering(Nat), FiniteSubsetsOf(Nat))
  BY FS_StrictSubsetOrderingWellFounded
<1>. HIDE DEF T
<1>3. PICK t \in T : \A u \in T : ~ (<<u, t>> \in StrictSubsetOrdering(Nat))
  BY <1>1, <1>2, WFMin
<1>. USE DEF T
<1>4. PICK m \in S : t = 0 .. m
  OBVIOUS
<1>5. ASSUME NEW k \in S, ~ (m <= k) PROVE FALSE
  <2>1. 0 .. k \subseteq 0 .. m /\ 0 .. k # 0 .. m /\ 0 .. m \subseteq Nat
    BY <1>5
  <2>2. <<0 .. k, 0 .. m>> \in StrictSubsetOrdering(Nat)
    BY <2>1 DEF StrictSubsetOrdering
  <2>. QED  BY <1>3, <1>4, <2>2
<1>. QED  BY <1>5

LEMMA SetInduction ==
  ASSUME NEW S, 0 \in S, \A n \in Nat : n \in S => n + 1 \in S
  PROVE  Nat \subseteq S
<1>. SUFFICES ASSUME Nat \ S # {} PROVE FALSE
  OBVIOUS
<1>1. PICK m \in Nat \ S : \A k \in Nat \ S : m <= k
  BY LeastNumber
<1>2. m # 0 /\ m - 1 \in Nat /\ (m - 1) + 1 = m
  BY <1>1
<1>3. m - 1 \in S
  BY <1>1, <1>2
<1>. QED BY <1>2, <1>3

\* Whatever a step does to a value, it can be done any number of times.
Iterates(f, x, next) == f = [n \in Nat |-> IF n = 0 THEN x ELSE next[f[n - 1]]]

LEMMA IterationExists ==
  ASSUME NEW V, NEW x \in V, NEW next \in [V -> V]
  PROVE  \E f \in [Nat -> V] : Iterates(f, x, next)
<1>. DEFINE Upto(k, g) == /\ g \in [0 .. k -> V] /\ g[0] = x
                          /\ \A n \in 1 .. k : g[n] = next[g[n - 1]]
            S == {k \in Nat : \E g : Upto(k, g)}
\* Up to a number.
<1>1. Nat \subseteq S
  <2>1. 0 \in S
    <3>1. Upto(0, [n \in 0 .. 0 |-> x])
      OBVIOUS
    <3>. QED  BY <3>1
  <2>2. ASSUME NEW k \in Nat, k \in S PROVE k + 1 \in S
    <3>1. PICK g : Upto(k, g)
      BY <2>2
    <3>. DEFINE h == [n \in 0 .. k + 1 |-> IF n <= k THEN g[n] ELSE next[g[k]]]
    <3>2. h \in [0 .. k + 1 -> V] /\ h[0] = x
      BY <3>1
    <3>3. ASSUME NEW n \in 1 .. k + 1 PROVE h[n] = next[h[n - 1]]
      <4>1. h[n - 1] = g[n - 1] /\ n - 1 \in 0 .. k
        OBVIOUS
      <4>2. CASE n <= k
        BY <3>1, <4>1, <4>2
      <4>3. CASE n = k + 1
        BY <4>1, <4>3
      <4>. QED  BY <4>2, <4>3
    <3>. HIDE DEF h
    <3>4. Upto(k + 1, h)
      BY <3>2, <3>3
    <3>. QED  BY <3>4
  <2>. HIDE DEF S
  <2>. QED  BY <2>1, <2>2, SetInduction
\* Those up to two numbers agree.
<1>2. ASSUME NEW k \in Nat, NEW l \in Nat, NEW g, NEW h, Upto(k, g), Upto(l, h)
      PROVE  \A n \in Nat : n <= k /\ n <= l => g[n] = h[n]
  <2>. DEFINE T == {n \in Nat : n <= k /\ n <= l => g[n] = h[n]}
  <2>1. 0 \in T
    BY <1>2
  <2>2. ASSUME NEW n \in Nat, n \in T PROVE n + 1 \in T
    <3>. SUFFICES ASSUME n + 1 <= k, n + 1 <= l PROVE g[n + 1] = h[n + 1]
      OBVIOUS
    <3>1. n + 1 \in 1 .. k /\ n + 1 \in 1 .. l /\ (n + 1) - 1 = n /\ g[n] = h[n]
      BY <2>2
    <3>. QED  BY <1>2, <3>1
  <2>. HIDE DEF T
  <2>3. Nat \subseteq T
    BY <2>1, <2>2, SetInduction
  <2>. QED  BY <2>3 DEF T
<1>. DEFINE path == [k \in Nat |-> CHOOSE g : Upto(k, g)]
            f == [n \in Nat |-> path[n][n]]
<1>3. ASSUME NEW k \in Nat PROVE Upto(k, path[k])
  <2>1. \E g : Upto(k, g)
    BY <1>1
  <2>. HIDE DEF Upto
  <2>. QED  BY <2>1
<1>. HIDE DEF path
<1>4. f \in [Nat -> V]
  <2>1. ASSUME NEW n \in Nat PROVE path[n][n] \in V
    BY <1>3
  <2>. QED  BY <2>1
<1>5. f[0] = x
  BY <1>3
<1>6. ASSUME NEW n \in Nat, n # 0 PROVE f[n] = next[f[n - 1]]
  <2>1. n - 1 \in Nat /\ n \in 1 .. n /\ n - 1 <= n
    BY <1>6
  <2>2. Upto(n, path[n]) /\ Upto(n - 1, path[n - 1])
    BY <1>3, <2>1
  <2>3. path[n][n] = next[path[n][n - 1]]
    BY <2>1, <2>2
  <2>4. path[n][n - 1] = path[n - 1][n - 1]
    <3>. HIDE DEF Upto
    <3>. QED  BY <1>2, <2>1, <2>2
  <2>. QED  BY <2>1, <2>3, <2>4
<1>7. f = [n \in Nat |-> f[n]]
  OBVIOUS
<1>. HIDE DEF f
<1>8. Iterates(f, x, next)
  BY <1>5, <1>6, <1>7 DEF Iterates
<1>. QED  BY <1>4, <1>8
=============================================================================
