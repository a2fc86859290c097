-------------------------------- MODULE Sums --------------------------------
(***************************************************************************)
(* Facts about the sums of the community module Functions, for the proofs  *)
(* about what a router and an account add up.                              *)
(*                                                                         *)
(* SumFunctionOnSet and SumFunction add what a function gives for the      *)
(* members of a finite set.  They are folds: a recursive function on the   *)
(* subsets of the set that takes away one chosen member at a time.  That   *)
(* such a function exists, and that the order in which it takes members    *)
(* away is of no account, is proved by the smallest subset that would be   *)
(* an exception.                                                           *)
(***************************************************************************)
EXTENDS Functions, Sequences, FiniteSetTheorems, WellFoundedInduction, TLAPS

Chosen(s) == CHOOSE x \in s : TRUE

\* g is the recursive function that SumFunctionOnSet(f, S) evaluates at S.
IsSumFunction(g, f, S) ==
    g = [s \in SUBSET S |-> IF s = {} THEN 0 ELSE f[Chosen(s)] + g[s \ {Chosen(s)}]]

\* f gives a number for every member of S.
Numbers(f, S) == \A x \in S : f[x] \in Int

\* A set of numbers has a least one.
LEMMA LeastNumber ==
    ASSUME NEW S \in SUBSET Nat, S # {}
    PROVE  \E m \in S : \A k \in S : m <= k
<1>1. PICK R : R = OpToRel(<, Nat)
  OBVIOUS
<1>2. IsWellFoundedOn(R, Nat)
  BY <1>1, NatLessThanWellFounded
<1>3. PICK m \in S : \A k \in S : <<k, m>> \notin R
  BY <1>2, WFMin, Zenon
<1>4. \A k \in Nat : k < m => <<k, m>> \in R
  BY <1>1 DEF OpToRel
<1>5. ASSUME NEW k \in S PROVE m <= k
  <2>1. m \in Nat /\ k \in Nat
    BY <1>3
  <2>2. ~(k < m)
    BY <1>3, <1>4, <2>1
  <2> QED
    BY <2>1, <2>2
<1> QED
  BY <1>3, <1>5

\* Of the subsets of a finite set that are exceptions, one is smallest.
LEMMA SmallestSubset ==
    ASSUME NEW S, IsFiniteSet(S), NEW Bad \in SUBSET (SUBSET S), Bad # {}
    PROVE  \E T \in Bad :
             /\ IsFiniteSet(T)
             /\ \A U \in SUBSET S : Cardinality(U) < Cardinality(T) => U \notin Bad
             /\ \A x \in T : T \ {x} \notin Bad
<1> DEFINE sizes == {Cardinality(T) : T \in Bad}
<1>1. \A T \in SUBSET S : IsFiniteSet(T) /\ Cardinality(T) \in Nat
  BY FS_Subset, FS_CardinalityType
<1>2. sizes \in SUBSET Nat /\ sizes # {}
  BY <1>1
<1> HIDE DEF sizes
<1>3. PICK m \in sizes : \A k \in sizes : m <= k
  BY <1>2, LeastNumber
<1>4. PICK T \in Bad : m = Cardinality(T)
  BY <1>3 DEF sizes
<1>5. \A U \in SUBSET S : Cardinality(U) < Cardinality(T) => U \notin Bad
  <2> SUFFICES ASSUME NEW U \in SUBSET S, U \in Bad PROVE ~(Cardinality(U) < Cardinality(T))
    OBVIOUS
  <2>1. Cardinality(U) \in sizes
    BY DEF sizes
  <2> QED
    BY <1>1, <1>3, <1>4, <2>1
<1>6. \A x \in T : T \ {x} \notin Bad
  <2> SUFFICES ASSUME NEW x \in T PROVE T \ {x} \notin Bad
    OBVIOUS
  <2>1. Cardinality(T \ {x}) = Cardinality(T) - 1
    BY <1>1, <1>4, FS_RemoveElement
  <2> QED
    BY <1>1, <1>4, <1>5, <2>1
<1> QED
  BY <1>1, <1>4, <1>5, <1>6

\* The member a fold takes away next is one.
LEMMA ChosenIn == ASSUME NEW s, s # {} PROVE Chosen(s) \in s
BY DEF Chosen

\* The recursive function exists: if it does on subsets of less than n members
\* then it does on those of n.
LEMMA SumFunctionExists ==
    ASSUME NEW f, NEW S, IsFiniteSet(S)
    PROVE  \E g : IsSumFunction(g, f, S)
<1> DEFINE Rec(g, s) == IF s = {} THEN 0 ELSE f[Chosen(s)] + g[s \ {Chosen(s)}]
           Upto(n) == {T \in SUBSET S : Cardinality(T) <= n}
           Right(g, n) == /\ g = [s \in SUBSET S |-> g[s]]
                          /\ \A T \in Upto(n) : g[T] = Rec(g, T)
           Bad == {n \in Nat : ~ \E g : Right(g, n)}
<1>1. \A T \in SUBSET S : IsFiniteSet(T) /\ Cardinality(T) \in Nat
  BY FS_Subset, FS_CardinalityType
<1>2. Right([s \in SUBSET S |-> 0], 0)
  <2>1. \A T \in Upto(0) : T = {}
    BY <1>1, FS_EmptySet
  <2> QED
    BY <2>1
<1>3. ASSUME NEW n \in Nat, NEW g, Right(g, n)
      PROVE  Right([s \in SUBSET S |-> Rec(g, s)], n + 1)
  <2> DEFINE h == [s \in SUBSET S |-> Rec(g, s)]
  <2>1. ASSUME NEW T \in Upto(n + 1), T # {}
        PROVE  h[T] = Rec(h, T)
    <3>1. PICK c : c = Chosen(T) /\ c \in T
      BY <2>1, ChosenIn
    <3>2. T \ {c} \in SUBSET S /\ Cardinality(T \ {c}) <= n
      BY <1>1, <3>1, FS_RemoveElement
    <3>3. g[T \ {c}] = Rec(g, T \ {c})
      BY <1>3, <3>2
    <3>4. h[T \ {c}] = g[T \ {c}]
      BY <3>2, <3>3
    <3>5. h[T] = f[c] + g[T \ {c}]
      BY <2>1, <3>1
    <3>6. Rec(h, T) = f[c] + h[T \ {c}]
      BY <2>1, <3>1
    <3> QED
      BY <3>4, <3>5, <3>6
  <2>2. \A T \in Upto(n + 1) : h[T] = Rec(h, T)
    BY <2>1
  <2>3. h = [s \in SUBSET S |-> h[s]]
    OBVIOUS
  <2> QED
    BY <2>2, <2>3
<1>4. \A n \in Nat : \E g : Right(g, n)
  <2> HIDE DEF Rec, Upto, Right
  <2> SUFFICES ASSUME Bad # {} PROVE FALSE
    OBVIOUS
  <2>1. PICK m \in Bad : \A k \in Bad : m <= k
    BY LeastNumber
  <2>2. m \in Nat /\ m # 0 /\ ~ \E g : Right(g, m)
    <3>1. m \in Nat /\ ~ \E g : Right(g, m)
      BY <2>1
    <3> QED
      BY <1>2, <3>1
  <2>3. m - 1 \in Nat /\ m - 1 \notin Bad
    <3>1. m - 1 \in Nat /\ ~(m <= m - 1)
      BY <2>2
    <3> QED
      BY <2>1, <3>1
  <2>4. PICK g : Right(g, m - 1)
    BY <2>3
  <2>5. Right([s \in SUBSET S |-> Rec(g, s)], (m - 1) + 1)
    BY <1>3, <2>3, <2>4
  <2>6. (m - 1) + 1 = m
    BY <2>2
  <2> QED
    BY <2>2, <2>5, <2>6
<1>5. PICK g : Right(g, Cardinality(S))
  BY <1>1, <1>4
<1>6. \A T \in SUBSET S : Cardinality(T) <= Cardinality(S)
  BY FS_Subset
<1>7. \A T \in SUBSET S : g[T] = Rec(g, T)
  BY <1>5, <1>6
<1>8. g = [s \in SUBSET S |-> Rec(g, s)]
  BY <1>5, <1>7
<1> QED
  BY <1>8 DEF IsSumFunction

\* What the sum is.
LEMMA SumIsRecursive ==
    ASSUME NEW f, NEW S, IsFiniteSet(S)
    PROVE  \E g : IsSumFunction(g, f, S) /\ SumFunctionOnSet(f, S) = g[S]
<1>1. SumFunctionOnSet(f, S) = (CHOOSE g : IsSumFunction(g, f, S))[S]
  BY DEF SumFunctionOnSet, FoldFunctionOnSet, MapThenFoldSet, IsSumFunction, Chosen
<1>2. IsSumFunction(CHOOSE g : IsSumFunction(g, f, S), f, S)
  BY SumFunctionExists
<1> QED
  BY <1>1, <1>2

\* Two such functions agree on the sets on which what they add agrees.
LEMMA SumFunctionsAgree ==
    ASSUME NEW f, NEW S, NEW g, IsSumFunction(g, f, S),
           NEW k, NEW T, NEW h, IsSumFunction(h, k, T),
           NEW U, IsFiniteSet(U), U \subseteq S, U \subseteq T, \A x \in U : f[x] = k[x]
    PROVE  g[U] = h[U]
<1> DEFINE Bad == {V \in SUBSET U : g[V] # h[V]}
<1> SUFFICES ASSUME Bad # {} PROVE FALSE
  OBVIOUS
<1>0. Bad \in SUBSET (SUBSET U)
  OBVIOUS
<1>1. PICK V \in Bad : \A x \in V : V \ {x} \notin Bad
  <2> HIDE DEF Bad
  <2> QED
    BY <1>0, SmallestSubset, ZenonT(60)
<1>2. V # {}
  <2>1. g[{}] = 0 /\ h[{}] = 0
    BY DEF IsSumFunction
  <2> QED
    BY <1>1, <2>1
<1>3. PICK c : c = Chosen(V) /\ c \in V
  BY <1>2, ChosenIn
<1>4. g[V \ {c}] = h[V \ {c}] /\ f[c] = k[c]
  BY <1>1, <1>3
<1>5. V \in SUBSET S /\ V \in SUBSET T
  BY <1>1
<1>6. g[V] = f[c] + g[V \ {c}]
  BY ONLY <1>2, <1>3, <1>5, IsSumFunction(g, f, S) DEF IsSumFunction
<1>7. h[V] = k[c] + h[V \ {c}]
  BY ONLY <1>2, <1>3, <1>5, IsSumFunction(h, k, T) DEF IsSumFunction
<1> QED
  BY <1>1, <1>4, <1>6, <1>7

\* The sums of numbers are numbers,
LEMMA SumFunctionNumbers ==
    ASSUME NEW f, NEW S, IsFiniteSet(S), Numbers(f, S), NEW g, IsSumFunction(g, f, S)
    PROVE  \A T \in SUBSET S : g[T] \in Int
<1> DEFINE Bad == {V \in SUBSET S : g[V] \notin Int}
<1> SUFFICES ASSUME Bad # {} PROVE FALSE
  OBVIOUS
<1>0. Bad \in SUBSET (SUBSET S)
  OBVIOUS
<1>1. PICK V \in Bad : \A x \in V : V \ {x} \notin Bad
  <2> HIDE DEF Bad
  <2> QED
    BY <1>0, SmallestSubset, ZenonT(60)
<1>2. V # {}
  BY <1>1 DEF IsSumFunction
<1>3. PICK c : c = Chosen(V) /\ c \in V
  BY <1>2, ChosenIn
<1>4. g[V \ {c}] \in Int /\ f[c] \in Int
  BY <1>1, <1>3 DEF Numbers
<1>5. V \in SUBSET S
  BY <1>1
<1>6. g[V] = f[c] + g[V \ {c}]
  BY ONLY <1>2, <1>3, <1>5, IsSumFunction(g, f, S) DEF IsSumFunction
<1> QED
  BY <1>1, <1>4, <1>6

\* and any member may be taken away first.
LEMMA SumFunctionRemoves ==
    ASSUME NEW f, NEW S, IsFiniteSet(S), Numbers(f, S), NEW g, IsSumFunction(g, f, S)
    PROVE  \A T \in SUBSET S : \A x \in T : g[T] = f[x] + g[T \ {x}]
<1> DEFINE Good(V) == \A x \in V : g[V] = f[x] + g[V \ {x}]
           Bad == {V \in SUBSET S : ~Good(V)}
<1> SUFFICES ASSUME Bad # {} PROVE FALSE
  OBVIOUS
<1>0. Bad \in SUBSET (SUBSET S)
  OBVIOUS
<1>1. PICK V \in Bad : \A x \in V : V \ {x} \notin Bad
  <2> HIDE DEF Bad
  <2> QED
    BY <1>0, SmallestSubset, ZenonT(60)
<1>2. PICK x \in V : g[V] # f[x] + g[V \ {x}]
  BY <1>1
<1>3. PICK c : c = Chosen(V) /\ c \in V
  BY <1>2, ChosenIn
<1>4. V \in SUBSET S
  BY <1>1
<1>5. g[V] = f[c] + g[V \ {c}]
  BY ONLY <1>2, <1>3, <1>4, IsSumFunction(g, f, S) DEF IsSumFunction
<1>6. x # c
  BY <1>2, <1>5
<1>7. Good(V \ {c}) /\ Good(V \ {x})
  BY <1>1, <1>2, <1>3
<1> DEFINE others == V \ {x, c}
<1>8. (V \ {c}) \ {x} = others /\ (V \ {x}) \ {c} = others
  OBVIOUS
<1>9. g[V \ {c}] = f[x] + g[others] /\ g[V \ {x}] = f[c] + g[others]
  BY <1>2, <1>3, <1>6, <1>7, <1>8
<1>10. f[x] \in Int /\ f[c] \in Int /\ g[others] \in Int
  BY <1>2, <1>3, <1>4, SumFunctionNumbers DEF Numbers
<1> QED
  BY <1>2, <1>5, <1>9, <1>10
------------------------------------------------------------------------------
(* The facts to cite. *)

\* The sum over nothing.
LEMMA SumEmpty == ASSUME NEW f PROVE SumFunctionOnSet(f, {}) = 0
<1>1. PICK g : IsSumFunction(g, f, {}) /\ SumFunctionOnSet(f, {}) = g[{}]
  BY SumIsRecursive, FS_EmptySet
<1> QED
  BY <1>1 DEF IsSumFunction

\* The sum depends on what the function gives for the members only.
LEMMA SumSame ==
    ASSUME NEW S, IsFiniteSet(S), NEW f, NEW k, \A x \in S : f[x] = k[x]
    PROVE  SumFunctionOnSet(f, S) = SumFunctionOnSet(k, S)
<1>1. PICK g : IsSumFunction(g, f, S) /\ SumFunctionOnSet(f, S) = g[S]
  BY SumIsRecursive
<1>2. PICK h : IsSumFunction(h, k, S) /\ SumFunctionOnSet(k, S) = h[S]
  BY SumIsRecursive
<1> QED
  BY <1>1, <1>2, SumFunctionsAgree

\* A sum of numbers is a number.
LEMMA SumInt ==
    ASSUME NEW S, IsFiniteSet(S), NEW f, Numbers(f, S)
    PROVE  SumFunctionOnSet(f, S) \in Int
<1>1. PICK g : IsSumFunction(g, f, S) /\ SumFunctionOnSet(f, S) = g[S]
  BY SumIsRecursive
<1> QED
  BY <1>1, SumFunctionNumbers

\* Any member can be taken away first.
LEMMA SumRemove ==
    ASSUME NEW S, IsFiniteSet(S), NEW f, Numbers(f, S), NEW x \in S
    PROVE  SumFunctionOnSet(f, S) = f[x] + SumFunctionOnSet(f, S \ {x})
<1>1. PICK g : IsSumFunction(g, f, S) /\ SumFunctionOnSet(f, S) = g[S]
  BY SumIsRecursive
<1>2. IsFiniteSet(S \ {x})
  BY FS_RemoveElement
<1>3. PICK h : /\ IsSumFunction(h, f, S \ {x})
               /\ SumFunctionOnSet(f, S \ {x}) = h[S \ {x}]
  BY <1>2, SumIsRecursive
<1>4. g[S] = f[x] + g[S \ {x}]
  BY <1>1, SumFunctionRemoves
<1>5. g[S \ {x}] = h[S \ {x}]
  BY <1>1, <1>2, <1>3, SumFunctionsAgree
<1> QED
  BY <1>1, <1>3, <1>4, <1>5

\* A new member adds what the function gives for it.
LEMMA SumAdd ==
    ASSUME NEW S, IsFiniteSet(S), NEW f, Numbers(f, S), NEW x, x \notin S, f[x] \in Int
    PROVE  SumFunctionOnSet(f, S \cup {x}) = f[x] + SumFunctionOnSet(f, S)
<1>1. IsFiniteSet(S \cup {x}) /\ Numbers(f, S \cup {x})
  BY FS_AddElement DEF Numbers
<1>2. (S \cup {x}) \ {x} = S
  OBVIOUS
<1>3. x \in S \cup {x}
  OBVIOUS
<1> QED
  BY <1>1, <1>2, <1>3, SumRemove

\* One member counts for something else.
LEMMA SumUpdate ==
    ASSUME NEW S, IsFiniteSet(S), NEW f, Numbers(f, S), NEW x \in S,
           NEW k, k[x] \in Int, \A y \in S \ {x} : k[y] = f[y]
    PROVE  SumFunctionOnSet(k, S) = SumFunctionOnSet(f, S) + k[x] - f[x]
<1>1. Numbers(k, S) /\ Numbers(f, S \ {x})
  BY DEF Numbers
<1>2. IsFiniteSet(S \ {x})
  BY FS_RemoveElement
<1>3. SumFunctionOnSet(k, S) = k[x] + SumFunctionOnSet(k, S \ {x})
  BY <1>1, SumRemove
<1>4. SumFunctionOnSet(f, S) = f[x] + SumFunctionOnSet(f, S \ {x})
  BY SumRemove
<1>5. SumFunctionOnSet(k, S \ {x}) = SumFunctionOnSet(f, S \ {x})
  BY <1>2, SumSame
<1>6. SumFunctionOnSet(f, S \ {x}) \in Int /\ f[x] \in Int
  BY <1>1, <1>2, SumInt DEF Numbers
<1> QED
  BY <1>3, <1>4, <1>5, <1>6

\* A sum is no more than another that is no more anywhere.
LEMMA SumMonotone ==
    ASSUME NEW S, IsFiniteSet(S), NEW f, NEW k, Numbers(f, S), Numbers(k, S),
           \A x \in S : f[x] <= k[x]
    PROVE  SumFunctionOnSet(f, S) <= SumFunctionOnSet(k, S)
<1> DEFINE Bad == {V \in SUBSET S : ~(SumFunctionOnSet(f, V) <= SumFunctionOnSet(k, V))}
<1> SUFFICES ASSUME Bad # {} PROVE FALSE
  OBVIOUS
<1>0. Bad \in SUBSET (SUBSET S)
  OBVIOUS
<1>1. PICK V \in Bad : IsFiniteSet(V) /\ \A x \in V : V \ {x} \notin Bad
  <2> HIDE DEF Bad
  <2> QED
    BY <1>0, SmallestSubset, ZenonT(60)
<1>2. V # {}
  BY <1>1, SumEmpty
<1>3. PICK c : c \in V
  BY <1>2
<1>4. /\ IsFiniteSet(V \ {c}) /\ V \ {c} \notin Bad /\ V \ {c} \in SUBSET S
      /\ Numbers(f, V) /\ Numbers(k, V) /\ Numbers(f, V \ {c}) /\ Numbers(k, V \ {c})
  BY <1>1, <1>3, FS_RemoveElement DEF Numbers
<1>5. /\ SumFunctionOnSet(f, V) = f[c] + SumFunctionOnSet(f, V \ {c})
      /\ SumFunctionOnSet(k, V) = k[c] + SumFunctionOnSet(k, V \ {c})
  BY <1>1, <1>3, <1>4, SumRemove
<1>6. /\ SumFunctionOnSet(f, V \ {c}) \in Int /\ SumFunctionOnSet(k, V \ {c}) \in Int
      /\ f[c] \in Int /\ k[c] \in Int /\ f[c] <= k[c]
  BY <1>1, <1>3, <1>4, SumInt DEF Numbers
<1>7. SumFunctionOnSet(f, V \ {c}) <= SumFunctionOnSet(k, V \ {c})
  BY <1>4
<1> QED
  BY <1>1, <1>5, <1>6, <1>7

\* The members that count for nothing may be left out.
LEMMA SumOfPart ==
    ASSUME NEW S, IsFiniteSet(S), NEW f, Numbers(f, S), NEW T \in SUBSET S,
           \A x \in S \ T : f[x] = 0
    PROVE  SumFunctionOnSet(f, S) = SumFunctionOnSet(f, T)
<1> DEFINE Bad == {V \in SUBSET S : T \subseteq V
                                    /\ SumFunctionOnSet(f, V) # SumFunctionOnSet(f, T)}
<1> SUFFICES ASSUME Bad # {} PROVE FALSE
  OBVIOUS
<1>0. Bad \in SUBSET (SUBSET S)
  OBVIOUS
<1>1. PICK V \in Bad : IsFiniteSet(V) /\ \A x \in V : V \ {x} \notin Bad
  <2> HIDE DEF Bad
  <2> QED
    BY <1>0, SmallestSubset, ZenonT(60)
<1>2. PICK c : c \in V \ T
  BY <1>1
<1>3. /\ IsFiniteSet(V \ {c}) /\ T \subseteq V \ {c} /\ V \ {c} \in SUBSET S
      /\ V \ {c} \notin Bad /\ Numbers(f, V) /\ Numbers(f, V \ {c})
  BY <1>1, <1>2, FS_RemoveElement DEF Numbers
<1>4. SumFunctionOnSet(f, V) = f[c] + SumFunctionOnSet(f, V \ {c}) /\ f[c] = 0
  BY <1>1, <1>2, <1>3, SumRemove
<1>5. SumFunctionOnSet(f, V \ {c}) \in Int
  BY <1>3, SumInt
<1> QED
  BY <1>1, <1>3, <1>4, <1>5

\* What is counted may have other names.
LEMMA SumRenamed ==
    ASSUME NEW S, IsFiniteSet(S), NEW f, Numbers(f, S),
           NEW k, NEW b, \A x \in S : k[b[x]] = f[x],
           \A x, y \in S : b[x] = b[y] => x = y
    PROVE  SumFunctionOnSet(k, {b[x] : x \in S}) = SumFunctionOnSet(f, S)
<1> DEFINE Named(V) == {b[x] : x \in V}
           Bad == {V \in SUBSET S :
                     ~(IsFiniteSet(Named(V))
                       /\ SumFunctionOnSet(k, Named(V)) = SumFunctionOnSet(f, V))}
<1> SUFFICES ASSUME Bad # {} PROVE FALSE
  OBVIOUS
<1>0. Bad \in SUBSET (SUBSET S)
  OBVIOUS
<1>1. PICK V \in Bad : IsFiniteSet(V) /\ \A x \in V : V \ {x} \notin Bad
  <2> HIDE DEF Bad
  <2> QED
    BY <1>0, SmallestSubset, ZenonT(60)
<1>2. V # {}
  <2>1. Named({}) = {}
    OBVIOUS
  <2> QED
    BY <1>1, <2>1, SumEmpty, FS_EmptySet
<1>3. PICK c : c \in V
  BY <1>2
<1> DEFINE less == V \ {c}
<1>4. Named(V) = Named(less) \cup {b[c]}
  BY <1>3
<1>5. b[c] \notin Named(less)
  BY <1>1, <1>3
<1>6. less \notin Bad /\ less \in SUBSET S /\ Numbers(f, V) /\ Numbers(k, Named(less))
      /\ k[b[c]] = f[c] /\ f[c] \in Int
  BY <1>1, <1>3 DEF Numbers
<1>7. IsFiniteSet(Named(less)) /\ SumFunctionOnSet(k, Named(less)) = SumFunctionOnSet(f, less)
  BY <1>6
<1> HIDE DEF Named, less
<1>8. SumFunctionOnSet(k, Named(V)) = f[c] + SumFunctionOnSet(k, Named(less))
  BY <1>4, <1>5, <1>6, <1>7, SumAdd
<1>9. SumFunctionOnSet(f, V) = f[c] + SumFunctionOnSet(f, less)
  BY <1>1, <1>3, <1>6, SumRemove DEF less
<1>10. IsFiniteSet(Named(V))
  BY <1>4, <1>7, FS_AddElement, SMTT(60)
<1> QED
  BY <1>1, <1>7, <1>8, <1>9, <1>10

\* Two sets with no member in common.
LEMMA SumUnion ==
    ASSUME NEW S, NEW T, IsFiniteSet(S), IsFiniteSet(T), S \cap T = {},
           NEW f, Numbers(f, S), Numbers(f, T)
    PROVE  SumFunctionOnSet(f, S \cup T) = SumFunctionOnSet(f, S) + SumFunctionOnSet(f, T)
<1> DEFINE Good(V) == /\ IsFiniteSet(S \cup V)
                      /\ SumFunctionOnSet(f, S \cup V)
                           = SumFunctionOnSet(f, S) + SumFunctionOnSet(f, V)
           Bad == {V \in SUBSET T : ~Good(V)}
<1> SUFFICES ASSUME Bad # {} PROVE FALSE
  OBVIOUS
<1>0. Bad \in SUBSET (SUBSET T)
  OBVIOUS
<1>1. PICK V \in Bad : IsFiniteSet(V) /\ \A x \in V : V \ {x} \notin Bad
  <2> HIDE DEF Bad
  <2> QED
    BY <1>0, SmallestSubset, ZenonT(60)
<1>2. SumFunctionOnSet(f, S) \in Int
  BY SumInt
<1>3. V # {}
  <2>1. S \cup {} = S
    OBVIOUS
  <2>2. Good({})
    BY <1>2, <2>1, SumEmpty
  <2> QED
    BY <1>1, <2>2
<1>4. PICK c : c \in V
  BY <1>3
<1> DEFINE less == V \ {c}
<1>5. /\ IsFiniteSet(S \cup less)
      /\ SumFunctionOnSet(f, S \cup less)
           = SumFunctionOnSet(f, S) + SumFunctionOnSet(f, less)
  BY <1>1, <1>4
<1>6. Numbers(f, V) /\ Numbers(f, less) /\ Numbers(f, S \cup less) /\ f[c] \in Int
  BY <1>1, <1>4 DEF Numbers
<1>7. c \notin S \cup less /\ (S \cup less) \cup {c} = S \cup V /\ IsFiniteSet(less)
  BY <1>1, <1>4, FS_RemoveElement
<1>8. SumFunctionOnSet(f, S \cup V) = f[c] + SumFunctionOnSet(f, S \cup less)
  BY <1>5, <1>6, <1>7, SumAdd, ZenonT(60)
<1>9. SumFunctionOnSet(f, V) = f[c] + SumFunctionOnSet(f, less)
  BY <1>1, <1>4, <1>6, SumRemove
<1>10. SumFunctionOnSet(f, less) \in Int
  BY <1>6, <1>7, SumInt
<1>11. IsFiniteSet(S \cup V)
  BY <1>5, <1>7, FS_AddElement
<1>12. Good(V)
  BY <1>2, <1>5, <1>6, <1>8, <1>9, <1>10, <1>11
<1> QED
  BY <1>1, <1>12

\* A sum of natural numbers is one, and no less than the sum of some of them.
LEMMA SumNat ==
    ASSUME NEW S, IsFiniteSet(S), NEW f, \A x \in S : f[x] \in Nat
    PROVE  SumFunctionOnSet(f, S) \in Nat
<1> DEFINE zero == [x \in S |-> 0]
<1>1. Numbers(f, S) /\ Numbers(zero, S) /\ \A x \in S : zero[x] <= f[x]
  BY DEF Numbers
<1>2. SumFunctionOnSet(zero, S) = SumFunctionOnSet(zero, {})
  BY <1>1, SumOfPart
<1>3. SumFunctionOnSet(zero, {}) = 0
  BY SumEmpty
<1>4. SumFunctionOnSet(zero, S) <= SumFunctionOnSet(f, S)
  BY <1>1, SumMonotone
<1> QED
  BY <1>1, <1>2, <1>3, <1>4, SumInt

\* Less is in a part than in the whole, where nothing is below zero.
LEMMA SumSubset ==
    ASSUME NEW S, IsFiniteSet(S), NEW f, \A x \in S : f[x] \in Nat, NEW T \in SUBSET S
    PROVE  SumFunctionOnSet(f, T) <= SumFunctionOnSet(f, S)
<1>1. IsFiniteSet(T) /\ IsFiniteSet(S \ T)
  BY FS_Subset
<1>2. PICK R : R = S \ T
  OBVIOUS
<1>3. SumFunctionOnSet(f, T \cup R) = SumFunctionOnSet(f, T) + SumFunctionOnSet(f, R)
  BY <1>1, <1>2, SumUnion DEF Numbers
<1>4. SumFunctionOnSet(f, T) \in Nat /\ SumFunctionOnSet(f, R) \in Nat
  BY <1>1, <1>2, SumNat
<1>5. T \cup R = S
  BY <1>2
<1>6. SumFunctionOnSet(f, S) = SumFunctionOnSet(f, T) + SumFunctionOnSet(f, R)
  BY <1>3, <1>5
<1> QED
  BY <1>4, <1>6

\* An image of a finite set is finite.
LEMMA FiniteImage ==
    ASSUME NEW S, IsFiniteSet(S), NEW b
    PROVE  IsFiniteSet({b[x] : x \in S})
<1> DEFINE f == [x \in S |-> b[x]]
<1>1. f \in Surjection(S, {b[x] : x \in S})
  BY DEF Surjection
<1> QED
  BY <1>1, FS_Surjection
------------------------------------------------------------------------------
(* Sums over sequences. *)

\* A sequence that has one more number at its end.
LEMMA SumLonger ==
    ASSUME NEW n \in Nat, NEW f, NEW g, Numbers(f, 1..n),
           \A i \in 1..n : g[i] = f[i], g[n + 1] \in Int
    PROVE  SumFunctionOnSet(g, 1..(n + 1)) = SumFunctionOnSet(f, 1..n) + g[n + 1]
<1>1. IsFiniteSet(1..n) /\ n + 1 \notin 1..n /\ (1..n) \cup {n + 1} = 1..(n + 1)
  <2>1. IsFiniteSet(1..n)
    BY FS_Interval
  <2>2. n + 1 \notin 1..n /\ (1..n) \cup {n + 1} = 1..(n + 1)
    OBVIOUS
  <2> QED
    BY <2>1, <2>2
<1>2. Numbers(g, 1..n)
  BY DEF Numbers
<1>3. SumFunctionOnSet(g, 1..(n + 1)) = g[n + 1] + SumFunctionOnSet(g, 1..n)
  BY <1>1, <1>2, SumAdd
<1>4. SumFunctionOnSet(g, 1..n) = SumFunctionOnSet(f, 1..n)
  BY <1>1, SumSame
<1>5. SumFunctionOnSet(f, 1..n) \in Int
  BY <1>1, SumInt
<1> QED
  BY <1>3, <1>4, <1>5

\* A sequence that is one after another one.
LEMMA SumInTwoParts ==
    ASSUME NEW m \in Nat, NEW n \in Nat, NEW h, NEW f, NEW g,
           NEW I, I = 1..m, NEW J, J = 1..n, NEW K, K = 1..(m + n),
           Numbers(f, I), Numbers(g, J),
           \A i \in I : h[i] = f[i], \A j \in J : h[m + j] = g[j]
    PROVE  SumFunctionOnSet(h, K) = SumFunctionOnSet(f, I) + SumFunctionOnSet(g, J)
<1>1. PICK b : b = [j \in 1..n |-> m + j]
  OBVIOUS
<1>2. PICK T : T = {b[j] : j \in 1..n}
  OBVIOUS
<1>3. IsFiniteSet(1..m) /\ IsFiniteSet(1..n)
  BY FS_Interval
<1>4. IsFiniteSet(T)
  BY <1>2, <1>3, FiniteImage
<1>5. \A j \in 1..n : b[j] = m + j /\ h[b[j]] = g[j]
  BY <1>1
<1>6. \A i, j \in 1..n : b[i] = b[j] => i = j
  BY <1>5
<1>7. SumFunctionOnSet(h, T) = SumFunctionOnSet(g, 1..n)
  <2>1. PICK S : S = 1..n
    OBVIOUS
  <2>2. IsFiniteSet(S) /\ Numbers(g, S) /\ T = {b[j] : j \in S}
    BY <1>2, <1>3, <2>1
  <2>3. /\ \A j \in S : h[b[j]] = g[j]
        /\ \A i, j \in S : b[i] = b[j] => i = j
    BY <1>5, <1>6, <2>1
  <2>4. SumFunctionOnSet(h, {b[j] : j \in S}) = SumFunctionOnSet(g, S)
    BY ONLY <2>2, <2>3, SumRenamed
  <2> QED
    BY <2>1, <2>2, <2>4
<1>8. (1..m) \cap T = {} /\ (1..m) \cup T = 1..(m + n)
  <2>1. \A x \in T : x \in Int /\ m < x /\ x <= m + n
    BY <1>2, <1>5
  <2>2. ASSUME NEW x \in Int, m < x, x <= m + n PROVE x \in T
    <3>1. x - m \in 1..n /\ b[x - m] = x
      BY <1>5, <2>2
    <3> QED
      BY <1>2, <3>1
  <2> QED
    BY <2>1, <2>2
<1>9. Numbers(h, 1..m) /\ Numbers(h, T)
  BY <1>2, <1>5 DEF Numbers
<1>10. SumFunctionOnSet(h, (1..m) \cup T) = SumFunctionOnSet(h, 1..m) + SumFunctionOnSet(h, T)
  BY <1>3, <1>4, <1>8, <1>9, SumUnion
<1>11. SumFunctionOnSet(h, 1..m) = SumFunctionOnSet(f, 1..m)
  BY <1>3, SumSame
<1> QED
  BY <1>7, <1>8, <1>10, <1>11
=============================================================================
