----------------------------- MODULE DataLemmas -----------------------------
(***************************************************************************)
(* Lemmas on the data of the models: sums over finite sets, used for the   *)
(* counters in SwitchProofs, and the frame codec, for every tag and every  *)
(* payload, used in FrameProofs for the codec and in SwitchProofs for the  *)
(* switch.                                                                 *)
(***************************************************************************)
EXTENDS Frame, Functions, FiniteSets, FiniteSetTheorems, WellFoundedInduction, TLAPS

(***************************************************************************)
(* Induction without an operator to instantiate: what is to be proved of   *)
(* every element is that a set contains it.  A least element of Nat is all *)
(* it rests on.                                                            *)
(***************************************************************************)
LEMMA NatMin ==
  ASSUME NEW T \in SUBSET Nat, T # {}
  PROVE  \E n \in T : \A m \in T : n <= m
<1> DEFINE Less == {ss \in Nat \X Nat : ss[1] < ss[2]}
<1>1. IsWellFoundedOn(Less, Nat)
  BY NatLessThanWellFounded, Zenon DEF OpToRel
<1>2. \E n \in T : \A m \in T : ~(<<m, n>> \in Less)
  <2> HIDE DEF Less
  <2> QED BY <1>1, WFMin
<1>3. \A m, n \in Nat : m < n => <<m, n>> \in Less
  OBVIOUS
<1> HIDE DEF Less
<1>4. PICK n \in T : \A m \in T : ~(<<m, n>> \in Less)
  BY <1>2
<1>5. \A m \in T : m \in Nat /\ n \in Nat /\ ~(m < n)
  BY <1>3, <1>4
<1> QED BY <1>4, <1>5

\* Induction on finite sets, over a set of sets rather than a predicate.
LEMMA FiniteInduction ==
  ASSUME NEW S, IsFiniteSet(S), NEW G,
         \A T \in SUBSET S : (\A x \in T : T \ {x} \in G) => T \in G
  PROVE  S \in G
<1> DEFINE bad == {Cardinality(T) : T \in {T \in SUBSET S : T \notin G}}
<1> SUFFICES ASSUME S \notin G PROVE FALSE
  OBVIOUS
<1>1. bad \in SUBSET Nat /\ bad # {}
  BY FS_Subset, FS_CardinalityType
<1>2. PICK n \in bad : \A m \in bad : n <= m
  <2> HIDE DEF bad
  <2> QED BY <1>1, NatMin
<1>3. PICK T \in SUBSET S : T \notin G /\ n = Cardinality(T)
  BY <1>2
<1>4. PICK x \in T : T \ {x} \notin G
  BY <1>3
<1>5. Cardinality(T \ {x}) = n - 1 /\ n \in Nat
  BY <1>3, <1>4, FS_Subset, FS_RemoveElement, FS_CardinalityType
<1>6. n - 1 \in bad
  BY <1>3, <1>4, <1>5
<1> QED BY <1>2, <1>5, <1>6

----------------------------------------------------------------------------
(***************************************************************************)
(* SumFunctionOnSet(g, S), which is a recursive function on the subsets of *)
(* S that takes the elements in an order of its own: that there is such a  *)
(* function, and that the order makes no difference.                       *)
(***************************************************************************)
Folds(iter, g, S) ==
  iter = [s \in SUBSET S |->
            IF s = {} THEN 0
            ELSE g[CHOOSE x \in s : TRUE] + iter[s \ {CHOOSE x \in s : TRUE}]]

LEMMA SumIsFold ==
  ASSUME NEW g, NEW S
  PROVE  SumFunctionOnSet(g, S) = (CHOOSE fold : Folds(fold, g, S))[S]
BY Zenon DEF SumFunctionOnSet, FoldFunctionOnSet, MapThenFoldSet, Folds

\* By cardinality: a function for the sets of n elements gives one for n + 1.
LEMMA FoldExists ==
  ASSUME NEW g, NEW S, IsFiniteSet(S)
  PROVE  \E iter : Folds(iter, g, S)
<1> DEFINE Small(n) == {s \in SUBSET S : Cardinality(s) <= n}
           first(s) == CHOOSE x \in s : TRUE
           Layer(h, n) ==
             h = [s \in Small(n) |-> IF s = {} THEN 0 ELSE g[first(s)] + h[s \ {first(s)}]]
           bad == {n \in Nat : ~\E h : Layer(h, n)}
<1>1. \A s \in SUBSET S : IsFiniteSet(s) /\ Cardinality(s) \in Nat
  BY FS_Subset, FS_CardinalityType
<1>2. ASSUME NEW s \in SUBSET S, s # {}
      PROVE  /\ first(s) \in s /\ s \ {first(s)} \in SUBSET S
             /\ Cardinality(s \ {first(s)}) = Cardinality(s) - 1
  <2>1. first(s) \in s
    BY <1>2
  <2> HIDE DEF first
  <2> QED BY <1>1, <1>2, <2>1, FS_RemoveElement
<1>3. \A s \in SUBSET S : Cardinality(s) = 0 => s = {}
  BY <1>1, FS_EmptySet
<1> HIDE DEF first
<1>4. \E h : Layer(h, 0)
  <2>1. \A s \in Small(0) : s = {}
    BY <1>1, <1>3
  <2>2. Layer([s \in Small(0) |-> 0], 0)
    BY <2>1
  <2> QED BY <2>2
<1>5. ASSUME NEW n \in Nat, NEW h, Layer(h, n)
      PROVE  \E k : Layer(k, n + 1)
  <2> DEFINE k == [s \in Small(n + 1) |->
                     IF s = {} THEN 0 ELSE g[first(s)] + h[s \ {first(s)}]]
  <2>1. ASSUME NEW s \in Small(n + 1), s # {}
        PROVE  s \ {first(s)} \in Small(n) /\ s \ {first(s)} \in Small(n + 1)
    BY <1>1, <1>2, <2>1
  <2>2. \A s \in Small(n) : k[s] = h[s]
    <3>1. \A s \in Small(n) : s \in Small(n + 1)
      BY <1>1
    <3>2. \A s \in Small(n) :
            h[s] = IF s = {} THEN 0 ELSE g[first(s)] + h[s \ {first(s)}]
      BY <1>5
    <3> QED BY <3>1, <3>2
  <2>3. \A s \in Small(n + 1) :
          k[s] = IF s = {} THEN 0 ELSE g[first(s)] + k[s \ {first(s)}]
    BY <2>1, <2>2
  <2>4. Layer(k, n + 1)
    BY <2>3
  <2> QED BY <2>4
<1>6. \A n \in Nat : \E h : Layer(h, n)
  <2> HIDE DEF Layer
  <2> SUFFICES ASSUME bad # {} PROVE FALSE
    OBVIOUS
  <2>1. PICK n \in bad : \A m \in bad : n <= m
    <3>1. bad \in SUBSET Nat
      OBVIOUS
    <3> HIDE DEF bad
    <3> QED BY <3>1, NatMin
  <2>2. n # 0 /\ n \in Nat
    BY <1>4
  <2>3. n - 1 \in Nat /\ n - 1 \notin bad
    BY <2>1, <2>2
  <2>4. PICK h : Layer(h, n - 1)
    BY <2>3
  <2>5. n - 1 + 1 = n
    BY <2>2
  <2> QED BY <1>5, <2>1, <2>3, <2>4, <2>5
<1>7. PICK h : Layer(h, Cardinality(S))
  BY <1>1, <1>6
<1>8. Small(Cardinality(S)) = SUBSET S
  BY <1>1, FS_Subset
<1> QED BY <1>7, <1>8 DEF Folds, first

\* Folds of the same values agree, over whatever sets they are taken.
LEMMA FoldsAgree ==
  ASSUME NEW T, IsFiniteSet(T),
         NEW g, NEW S, T \subseteq S, NEW iter, Folds(iter, g, S),
         NEW h, NEW R, T \subseteq R, NEW other, Folds(other, h, R),
         \A x \in T : g[x] = h[x]
  PROVE  iter[T] = other[T]
<1> DEFINE same == {s \in SUBSET T : iter[s] = other[s]}
<1>1. ASSUME NEW s \in SUBSET T, \A x \in s : s \ {x} \in same
      PROVE  s \in same
  <2>1. /\ iter[s] = IF s = {} THEN 0
                     ELSE g[CHOOSE x \in s : TRUE] + iter[s \ {CHOOSE x \in s : TRUE}]
        /\ other[s] = IF s = {} THEN 0
                      ELSE h[CHOOSE x \in s : TRUE] + other[s \ {CHOOSE x \in s : TRUE}]
    BY DEF Folds
  <2>2. CASE s # {}
    <3>1. (CHOOSE x \in s : TRUE) \in s
      BY <2>2
    <3> QED BY <1>1, <2>1, <2>2, <3>1
  <2> QED BY <2>1, <2>2
<1>2. T \in same
  <2> HIDE DEF same
  <2> QED BY <1>1, FiniteInduction
<1> QED BY <1>2

LEMMA SumOfNone == ASSUME NEW g PROVE SumFunctionOnSet(g, {}) = 0
<1> DEFINE iter == CHOOSE fold : Folds(fold, g, {})
<1>1. Folds(iter, g, {})
  BY FoldExists, FS_EmptySet
<1>2. iter[{}] = 0
  <2> HIDE DEF iter
  <2> QED BY <1>1 DEF Folds
<1> QED BY <1>2, SumIsFold

\* The sum of the values of g on S depends on nothing else.
LEMMA SumOfEqual ==
  ASSUME NEW S, IsFiniteSet(S), NEW g, NEW h, \A x \in S : g[x] = h[x]
  PROVE  SumFunctionOnSet(g, S) = SumFunctionOnSet(h, S)
<1> DEFINE iter == CHOOSE fold : Folds(fold, g, S)
           other == CHOOSE fold : Folds(fold, h, S)
<1>1. Folds(iter, g, S) /\ Folds(other, h, S)
  BY FoldExists
<1>2. iter[S] = other[S]
  <2> HIDE DEF iter, other
  <2> QED BY <1>1, FoldsAgree
<1> QED BY <1>2, SumIsFold

LEMMA SumOfSome ==
  ASSUME NEW S, IsFiniteSet(S), S # {}, NEW g
  PROVE  \E x \in S : SumFunctionOnSet(g, S) = g[x] + SumFunctionOnSet(g, S \ {x})
<1> DEFINE x == CHOOSE x \in S : TRUE
           iter == CHOOSE fold : Folds(fold, g, S)
           rest == CHOOSE fold : Folds(fold, g, S \ {x})
<1>1. x \in S
  OBVIOUS
<1>2. IsFiniteSet(S \ {x})
  BY FS_Subset
<1>3. Folds(iter, g, S) /\ Folds(rest, g, S \ {x})
  BY <1>2, FoldExists
<1>4. iter[S] = g[x] + iter[S \ {x}]
  <2> HIDE DEF iter
  <2> QED BY <1>3 DEF Folds
<1>5. iter[S \ {x}] = rest[S \ {x}]
  <2> HIDE DEF iter, rest
  <2> QED BY <1>1, <1>2, <1>3, FoldsAgree
<1>6. SumFunctionOnSet(g, S) = iter[S] /\ SumFunctionOnSet(g, S \ {x}) = rest[S \ {x}]
  BY SumIsFold
<1> QED BY <1>1, <1>4, <1>5, <1>6

LEMMA SumType ==
  ASSUME NEW S, IsFiniteSet(S), NEW g, \A x \in S : g[x] \in Int
  PROVE  SumFunctionOnSet(g, S) \in Int
<1> DEFINE typed == {T \in SUBSET S : SumFunctionOnSet(g, T) \in Int}
<1>1. ASSUME NEW T \in SUBSET S, \A x \in T : T \ {x} \in typed
      PROVE  SumFunctionOnSet(g, T) \in Int
  <2>1. CASE T = {}
    BY <2>1, SumOfNone
  <2>2. CASE T # {}
    <3>1. PICK x \in T : SumFunctionOnSet(g, T) = g[x] + SumFunctionOnSet(g, T \ {x})
      BY <2>2, SumOfSome, FS_Subset
    <3> QED BY <1>1, <3>1
  <2> QED BY <2>1, <2>2
<1>2. S \in typed
  <2>1. \A T \in SUBSET S : (\A x \in T : T \ {x} \in typed) => T \in typed
    BY <1>1
  <2> HIDE DEF typed
  <2> QED BY <2>1, FiniteInduction
<1> QED BY <1>2

\* Any element may be taken first.
LEMMA SumWithout ==
  ASSUME NEW S, IsFiniteSet(S), NEW g, \A x \in S : g[x] \in Int, NEW x \in S
  PROVE  SumFunctionOnSet(g, S) = g[x] + SumFunctionOnSet(g, S \ {x})
<1> DEFINE good == {T \in SUBSET S : \A y \in T :
                      SumFunctionOnSet(g, T) = g[y] + SumFunctionOnSet(g, T \ {y})}
<1>1. ASSUME NEW T \in SUBSET S, \A z \in T : T \ {z} \in good, NEW y \in T
      PROVE  SumFunctionOnSet(g, T) = g[y] + SumFunctionOnSet(g, T \ {y})
  <2>1. IsFiniteSet(T)
    BY FS_Subset
  <2>2. PICK z \in T : SumFunctionOnSet(g, T) = g[z] + SumFunctionOnSet(g, T \ {z})
    BY <2>1, SumOfSome
  <2>3. CASE y # z
    <3>1. y \in T \ {z} /\ z \in T \ {y}
      BY <2>3
    <3>2. SumFunctionOnSet(g, T \ {z}) = g[y] + SumFunctionOnSet(g, (T \ {z}) \ {y})
      BY <1>1, <3>1
    <3>3. SumFunctionOnSet(g, T \ {y}) = g[z] + SumFunctionOnSet(g, (T \ {y}) \ {z})
      BY <1>1, <3>1
    <3>4. (T \ {z}) \ {y} = (T \ {y}) \ {z}
      OBVIOUS
    <3>5. SumFunctionOnSet(g, (T \ {z}) \ {y}) \in Int
      <4>1. IsFiniteSet((T \ {z}) \ {y}) /\ \A x_1 \in (T \ {z}) \ {y} : g[x_1] \in Int
        BY <2>1, FS_Subset
      <4> QED BY <4>1, SumType
    <3>6. g[y] \in Int /\ g[z] \in Int
      OBVIOUS
    <3> DEFINE r == SumFunctionOnSet(g, (T \ {z}) \ {y})
               a == SumFunctionOnSet(g, T) 
               b == SumFunctionOnSet(g, T \ {z})
               c == SumFunctionOnSet(g, T \ {y})
    <3>7. r \in Int /\ a = g[z] + b /\ b = g[y] + r /\ c = g[z] + r
      BY <2>2, <3>2, <3>3, <3>4, <3>5
    <3>8. a = g[y] + c
      <4> HIDE DEF r, a, b, c
      <4> QED BY <3>6, <3>7
    <3> QED BY <3>8
  <2> QED BY <2>2, <2>3
<1>2. S \in good
  <2>1. \A T \in SUBSET S : (\A y \in T : T \ {y} \in good) => T \in good
    BY <1>1
  <2> HIDE DEF good
  <2> QED BY <2>1, FiniteInduction
<1> QED BY <1>2

\* Sums are added term by term.
LEMMA SumPlus ==
  ASSUME NEW S, IsFiniteSet(S), NEW g, NEW h, NEW both,
         \A x \in S : g[x] \in Int /\ h[x] \in Int /\ both[x] = g[x] + h[x]
  PROVE  SumFunctionOnSet(both, S) = SumFunctionOnSet(g, S) + SumFunctionOnSet(h, S)
<1> DEFINE good == {T \in SUBSET S : SumFunctionOnSet(both, T)
                      = SumFunctionOnSet(g, T) + SumFunctionOnSet(h, T)}
<1>1. ASSUME NEW T \in SUBSET S, \A x \in T : T \ {x} \in good
      PROVE  T \in good
  <2>1. CASE T = {}
    BY <2>1, SumOfNone
  <2>2. ASSUME NEW x \in T PROVE T \in good
    <3>1. IsFiniteSet(T) /\ IsFiniteSet(T \ {x})
      BY FS_Subset
    <3>2. g[x] \in Int /\ h[x] \in Int /\ both[x] = g[x] + h[x]
      OBVIOUS
    <3>3. /\ SumFunctionOnSet(g, T) = g[x] + SumFunctionOnSet(g, T \ {x})
          /\ SumFunctionOnSet(h, T) = h[x] + SumFunctionOnSet(h, T \ {x})
          /\ SumFunctionOnSet(both, T) = both[x] + SumFunctionOnSet(both, T \ {x})
      BY <3>1, SumWithout
    <3>4. SumFunctionOnSet(g, T \ {x}) \in Int /\ SumFunctionOnSet(h, T \ {x}) \in Int
      BY <3>1, SumType
    <3>5. SumFunctionOnSet(both, T \ {x})
            = SumFunctionOnSet(g, T \ {x}) + SumFunctionOnSet(h, T \ {x})
      BY <1>1
    <3> QED BY <3>2, <3>3, <3>4, <3>5
  <2> QED BY <2>1, <2>2
<1>2. S \in good
  <2> HIDE DEF good
  <2> QED BY <1>1, FiniteInduction
<1> QED BY <1>2

\* Elements that count for nothing may be left out.
LEMMA SumOfRest ==
  ASSUME NEW S, IsFiniteSet(S), NEW g, \A x \in S : g[x] \in Int,
         NEW T \in SUBSET S, \A x \in S \ T : g[x] = 0
  PROVE  SumFunctionOnSet(g, S) = SumFunctionOnSet(g, T)
<1> DEFINE good == {R \in SUBSET S :
                      SumFunctionOnSet(g, R) = SumFunctionOnSet(g, R \cap T)}
<1>1. ASSUME NEW R \in SUBSET S, \A x \in R : R \ {x} \in good
      PROVE  R \in good
  <2>1. CASE R \subseteq T
    <3>1. R \cap T = R
      BY <2>1
    <3> QED BY <3>1
  <2>2. ASSUME NEW x \in R, x \notin T PROVE R \in good
    <3>1. IsFiniteSet(R)
      BY FS_Subset
    <3>2. SumFunctionOnSet(g, R) = g[x] + SumFunctionOnSet(g, R \ {x})
      BY <3>1, SumWithout
    <3>3. IsFiniteSet(R \ {x}) /\ \A y \in R \ {x} : g[y] \in Int
      BY <3>1, FS_Subset
    <3>4. SumFunctionOnSet(g, R \ {x}) \in Int
      BY <3>3, SumType
    <3>5. g[x] = 0
      BY <2>2
    <3>6. (R \ {x}) \cap T = R \cap T
      BY <2>2
    <3>7. SumFunctionOnSet(g, R \ {x}) = SumFunctionOnSet(g, R \cap T)
      BY <1>1, <3>6
    <3> QED BY <3>2, <3>4, <3>5, <3>7
  <2> QED BY <2>1, <2>2
<1>2. S \in good
  <2> HIDE DEF good
  <2> QED BY <1>1, FiniteInduction
<1>3. S \cap T = T
  OBVIOUS
<1> QED BY <1>2, <1>3

LEMMA SumOfOne ==
  ASSUME NEW x, NEW g, g[x] \in Int
  PROVE  SumFunctionOnSet(g, {x}) = g[x]
<1>1. SumFunctionOnSet(g, {x}) = g[x] + SumFunctionOnSet(g, {x} \ {x})
  BY SumWithout, FS_Singleton
<1>2. {x} \ {x} = {}
  OBVIOUS
<1> QED BY <1>1, <1>2, SumOfNone

\* Counting is adding ones.
LEMMA SumOfOnes ==
  ASSUME NEW S, IsFiniteSet(S), NEW g, \A x \in S : g[x] = 1
  PROVE  SumFunctionOnSet(g, S) = Cardinality(S)
<1> DEFINE good == {T \in SUBSET S : SumFunctionOnSet(g, T) = Cardinality(T)}
<1>1. ASSUME NEW T \in SUBSET S, \A x \in T : T \ {x} \in good
      PROVE  T \in good
  <2>1. CASE T = {}
    BY <2>1, SumOfNone, FS_EmptySet
  <2>2. ASSUME NEW x \in T PROVE T \in good
    <3>1. IsFiniteSet(T) /\ \A y \in T : g[y] \in Int
      BY FS_Subset
    <3>2. SumFunctionOnSet(g, T) = g[x] + SumFunctionOnSet(g, T \ {x})
      BY <3>1, SumWithout
    <3>3. Cardinality(T \ {x}) = Cardinality(T) - 1 /\ Cardinality(T) \in Nat
      BY <3>1, FS_RemoveElement, FS_CardinalityType
    <3>4. SumFunctionOnSet(g, T \ {x}) = Cardinality(T \ {x}) /\ g[x] = 1
      BY <1>1
    <3> QED BY <3>2, <3>3, <3>4
  <2> QED BY <2>1, <2>2
<1>2. S \in good
  <2> HIDE DEF good
  <2> QED BY <1>1, FiniteInduction
<1> QED BY <1>2

----------------------------------------------------------------------------
\* Remainders, for any modulus.

LEMMA DivMod ==
  ASSUME NEW M \in Nat \ {0}, NEW a \in Int
  PROVE  /\ a \div M \in Int /\ (a % M) \in 0 .. M - 1
         /\ a = M * (a \div M) + (a % M)
OBVIOUS

LEMMA SmallMultiple ==
  ASSUME NEW M \in Nat \ {0}, NEW k \in Int, M * k < M, -M < M * k
  PROVE  k = 0
<1>1. CASE k >= 1
  <2>1. k - 1 \in Nat /\ M * k = M * (k - 1) + M
    BY <1>1
  <2>2. M * (k - 1) \in Nat
    BY <2>1
  <2> QED BY <2>1, <2>2
<1>2. CASE k <= -1
  <2>1. -k - 1 \in Nat /\ M * k = -(M * (-k - 1)) - M
    BY <1>2
  <2>2. M * (-k - 1) \in Nat
    BY <2>1
  <2> QED BY <2>1, <2>2
<1> QED BY <1>1, <1>2

\* Numbers a multiple of M apart leave the same remainder.
LEMMA ModSame ==
  ASSUME NEW M \in Nat \ {0}, NEW a \in Int, NEW b \in Int, NEW k \in Int,
         a = b + M * k
  PROVE  (a % M) = (b % M)
<1> DEFINE q == a \div M
           r == a % M
           o == b \div M
           s == b % M
<1>1. q \in Int /\ r \in Int /\ a = M * q + r /\ 0 <= r /\ r < M
  BY DivMod
<1>2. o \in Int /\ s \in Int /\ b = M * o + s /\ 0 <= s /\ s < M
  BY DivMod
<1> SUFFICES r = s
  OBVIOUS
<1> HIDE DEF q, r, o, s
<1>3. M * (q - o - k) = s - r
  <2>1. M * (q - o - k) = M * q - M * o - M * k
    BY <1>1, <1>2
  <2>2. M * q \in Int /\ M * o \in Int /\ M * k \in Int
    BY <1>1, <1>2
  <2> QED BY <1>1, <1>2, <2>1, <2>2
<1>4. q - o - k \in Int /\ s - r < M /\ -M < s - r
  BY <1>1, <1>2
<1>5. q - o - k = 0
  BY <1>3, <1>4, SmallMultiple
<1>6. s - r = 0
  BY <1>3, <1>5
<1> QED BY <1>1, <1>2, <1>6

LEMMA ModTwice ==
  ASSUME NEW M \in Nat \ {0}, NEW a \in Int
  PROVE  (a % M) % M = a % M
<1>1. a \div M \in Int /\ (a % M) \in Int /\ a = (a % M) + M * (a \div M)
  BY DivMod
<1> QED BY <1>1, ModSame

\* A remainder may be taken of a term before it is added, or of both terms
\* before they are subtracted.
LEMMA ModPlus ==
  ASSUME NEW M \in Nat \ {0}, NEW a \in Int, NEW b \in Int
  PROVE  ((a % M) + b) % M = (a + b) % M
<1>1. a \div M \in Int /\ (a % M) \in Int /\ a = M * (a \div M) + (a % M)
  BY DivMod
<1>2. M * (a \div M) \in Int
  BY <1>1
<1>3. a + b = ((a % M) + b) + M * (a \div M)
  BY <1>1, <1>2
<1>4. (a % M) + b \in Int /\ a + b \in Int
  BY <1>1
<1> DEFINE q == a \div M
           r == (a % M) + b
           sum == a + b
<1>5. q \in Int /\ r \in Int /\ sum \in Int /\ sum = r + M * q
  BY <1>1, <1>3, <1>4
<1> HIDE DEF q, r, sum
<1>6. (sum % M) = (r % M)
  BY <1>5, ModSame
<1> QED BY <1>6 DEF r, sum

LEMMA ModMinus ==
  ASSUME NEW M \in Nat \ {0}, NEW a \in Int, NEW b \in Int
  PROVE  ((a % M) - (b % M)) % M = (a - b) % M
<1>1. a \div M \in Int /\ (a % M) \in Int /\ a = M * (a \div M) + (a % M)
  BY DivMod
<1>2. b \div M \in Int /\ (b % M) \in Int /\ b = M * (b \div M) + (b % M)
  BY DivMod
<1> DEFINE k == a \div M - b \div M
<1>3. k \in Int /\ M * k = M * (a \div M) - M * (b \div M)
  BY <1>1, <1>2
<1>4. M * (a \div M) \in Int /\ M * (b \div M) \in Int
  BY <1>1, <1>2
<1> HIDE DEF k
<1>5. a - b = ((a % M) - (b % M)) + M * k
  BY <1>1, <1>2, <1>3, <1>4
<1>6. (a % M) - (b % M) \in Int /\ a - b \in Int
  BY <1>1, <1>2
<1> DEFINE r == (a % M) - (b % M)
           difference == a - b
<1>7. k \in Int /\ r \in Int /\ difference \in Int /\ difference = r + M * k
  BY <1>3, <1>5, <1>6
<1> HIDE DEF r, difference
<1>8. (difference % M) = (r % M)
  BY <1>7, ModSame
<1> QED BY <1>8 DEF r, difference

\* Sums of numbers with the same remainders have the same remainder.
LEMMA SumMod ==
  ASSUME NEW M \in Nat \ {0}, NEW S, IsFiniteSet(S), NEW g, NEW h,
         \A x \in S : g[x] \in Int /\ h[x] \in Int /\ (g[x] % M) = (h[x] % M)
  PROVE  SumFunctionOnSet(g, S) % M = SumFunctionOnSet(h, S) % M
<1> DEFINE good == {T \in SUBSET S : SumFunctionOnSet(g, T) % M = SumFunctionOnSet(h, T) % M}
<1>1. ASSUME NEW T \in SUBSET S, \A x \in T : T \ {x} \in good
      PROVE  T \in good
  <2>1. CASE T = {}
    BY <2>1, SumOfNone
  <2>2. ASSUME NEW x \in T PROVE T \in good
    <3> DEFINE a == SumFunctionOnSet(g, T \ {x})
               b == SumFunctionOnSet(h, T \ {x})
    <3>1. IsFiniteSet(T) /\ IsFiniteSet(T \ {x})
      BY FS_Subset
    <3>2. g[x] \in Int /\ h[x] \in Int /\ (g[x] % M) = (h[x] % M)
      OBVIOUS
    <3>3. SumFunctionOnSet(g, T) = g[x] + a /\ SumFunctionOnSet(h, T) = h[x] + b
      BY <3>1, SumWithout
    <3>4. a \in Int /\ b \in Int
      BY <3>1, SumType
    <3>5. (a % M) = (b % M)
      BY <1>1
    <3> HIDE DEF a, b
    <3>6. (g[x] + a) % M = (h[x] + b) % M
      <4>1. ((g[x] % M) + a) % M = (g[x] + a) % M /\ ((h[x] % M) + b) % M = (h[x] + b) % M
        BY <3>2, <3>4, ModPlus
      <4>2. (h[x] % M) \in Int
        BY <3>2, DivMod
      <4>3. ((a % M) + (h[x] % M)) % M = (a + (h[x] % M)) % M
        BY <3>4, <4>2, ModPlus
      <4>4. ((b % M) + (h[x] % M)) % M = (b + (h[x] % M)) % M
        BY <3>4, <4>2, ModPlus
      <4>5. a + (h[x] % M) = (h[x] % M) + a /\ b + (h[x] % M) = (h[x] % M) + b
        BY <3>4, <4>2
      <4> QED BY <3>2, <3>5, <4>1, <4>3, <4>4, <4>5, Zenon
    <3> QED BY <3>3, <3>6
  <2> QED BY <2>1, <2>2
<1>2. S \in good
  <2> HIDE DEF good
  <2> QED BY <1>1, FiniteInduction
<1> QED BY <1>2

----------------------------------------------------------------------------
\* Quotient and remainder by 4096 and 8192.  Bounds are given as inequalities
\* here: the SMT backend handles them better than membership in an interval.
LEMMA Div4096 ==
  ASSUME NEW q \in Int, 0 <= q, NEW r \in Int, 0 <= r, r <= 4095
  PROVE  (q * 4096 + r) \div 4096 = q /\ (q * 4096 + r) % 4096 = r
OBVIOUS

LEMMA Div8192 ==
  ASSUME NEW q \in Int, 0 <= q, NEW r \in Int, 0 <= r, r <= 8191
  PROVE  (q * 8192 + r) \div 8192 = q
OBVIOUS

LEMMA InWord == \A n : n \in Word <=> n \in Int /\ 0 <= n /\ n <= 65535
<1>1. U16_MAX \in Int /\ \A n \in Int : n <= U16_MAX <=> n <= 65535
  BY DEF U16_MAX
<1> QED BY <1>1 DEF Word

LEMMA InVid == \A n : n \in 0 .. VID_MAX <=> n \in Int /\ 0 <= n /\ n <= 4095
<1>1. VID_MAX \in Int /\ \A n \in Int : n <= VID_MAX <=> n <= 4095
  BY DEF VID_MAX
<1> QED BY <1>1

\* The three TCI fields never overlap: what to_tci packs, from_tci unpacks.
LEMMA TciFields ==
  ASSUME NEW p \in Int, 0 <= p, p <= 7,
         NEW d \in Int, 0 <= d, d <= 1,
         NEW v \in Int, 0 <= v, v <= 4095
  PROVE  LET tci == p * 8192 + d * 4096 + v
         IN  /\ tci \in Int /\ 0 <= tci /\ tci <= 65535
             /\ (tci \div 8192) % 8 = p
             /\ (tci \div 4096) % 2 = d
             /\ tci % 4096 = v
<1> DEFINE tci == p * 8192 + d * 4096 + v
<1>1. tci \in Int /\ 0 <= tci /\ tci <= 65535
  OBVIOUS
<1>2. tci \div 8192 = p
  <2>1. d * 4096 + v \in Int /\ 0 <= d * 4096 + v /\ d * 4096 + v <= 8191
    OBVIOUS
  <2>2. tci = p * 8192 + (d * 4096 + v)
    OBVIOUS
  <2> QED BY <2>1, <2>2, Div8192
<1>3. tci \div 4096 = p * 2 + d /\ tci % 4096 = v
  <2>1. p * 2 + d \in Int /\ 0 <= p * 2 + d
    OBVIOUS
  <2>2. tci = (p * 2 + d) * 4096 + v
    OBVIOUS
  <2> QED BY <2>1, <2>2, Div4096
<1>4. p % 8 = p /\ (p * 2 + d) % 2 = d
  OBVIOUS
<1> QED BY <1>1, <1>2, <1>3, <1>4

\* A tag in range survives the wire.
LEMMA TagRoundTrip ==
  ASSUME NEW tag \in WireTag
  PROVE  /\ to_tci(tag) \in Word
         /\ from_tci(to_tci(tag)) = tag
<1>1. /\ tag.pcp \in Int /\ 0 <= tag.pcp /\ tag.pcp <= 7
      /\ tag.vid \in Int /\ 0 <= tag.vid /\ tag.vid <= 4095
      /\ tag.dei \in BOOLEAN
      /\ tag = [pcp |-> tag.pcp, dei |-> tag.dei, vid |-> tag.vid]
  <2>1. /\ tag.pcp \in 0 .. 7 /\ tag.vid \in 0 .. VID_MAX /\ tag.dei \in BOOLEAN
        /\ tag = [pcp |-> tag.pcp, dei |-> tag.dei, vid |-> tag.vid]
    BY DEF WireTag
  <2>2. tag.pcp \in Int /\ 0 <= tag.pcp /\ tag.pcp <= 7
    BY DEF WireTag
  <2>3. tag.vid \in Int /\ 0 <= tag.vid /\ tag.vid <= 4095
    BY <2>1, InVid
  <2> QED BY <2>1, <2>2, <2>3
<1>2. PICK d \in Int : 0 <= d /\ d <= 1 /\ (d = 1 <=> tag.dei)
  <2>1. CASE tag.dei
    <3> WITNESS 1 \in Int
    <3> QED BY <2>1
  <2>2. CASE ~tag.dei
    <3> WITNESS 0 \in Int
    <3> QED BY <2>2
  <2> QED BY <2>1, <2>2
<1>3. (IF tag.dei THEN 4096 ELSE 0) = d * 4096
  BY <1>2
<1>4. tag.pcp % 8 = tag.pcp /\ tag.vid % 4096 = tag.vid
  BY <1>1
<1>5. to_tci(tag) = tag.pcp * 8192 + d * 4096 + tag.vid
  BY <1>3, <1>4 DEF to_tci
<1>6. /\ (to_tci(tag) \div 8192) % 8 = tag.pcp
      /\ (to_tci(tag) \div 4096) % 2 = d
      /\ to_tci(tag) % 4096 = tag.vid
  BY <1>1, <1>2, <1>5, TciFields
<1>7. (d = 1) = tag.dei
  BY <1>1, <1>2
<1>8. from_tci(to_tci(tag)) = [pcp |-> tag.pcp, dei |-> tag.dei, vid |-> tag.vid]
  BY <1>6, <1>7 DEF from_tci
<1>9. to_tci(tag) \in Word
  <2>1. /\ to_tci(tag) \in Int /\ 0 <= to_tci(tag) /\ to_tci(tag) <= 65535
    BY <1>1, <1>2, <1>5, TciFields
  <2> QED BY <2>1, InWord
<1> QED BY <1>1, <1>8, <1>9

\* Every TCI is the TCI of the tag it is read as.
LEMMA TciRoundTrip ==
  ASSUME NEW tci \in Word
  PROVE  /\ from_tci(tci) \in WireTag
         /\ to_tci(from_tci(tci)) = tci
<1> DEFINE p == tci \div 8192
           q == tci \div 4096
           v == tci % 4096
<1>0. tci \in Int /\ 0 <= tci /\ tci <= 65535
  BY InWord
<1>1. /\ tci = 4096 * q + v
      /\ q \in Int /\ 0 <= q /\ q <= 15
      /\ v \in Int /\ 0 <= v /\ v <= 4095
  BY <1>0
<1>2. /\ q = 2 * p + (q % 2)
      /\ p \in Int /\ 0 <= p /\ p <= 7
      /\ q % 2 \in Int /\ 0 <= q % 2 /\ q % 2 <= 1
  BY <1>0
<1> HIDE DEF p, q, v
<1>3. p % 8 = p /\ v % 4096 = v
  BY <1>1, <1>2
<1>4. from_tci(tci) = [pcp |-> p, dei |-> (q % 2) = 1, vid |-> v]
  BY <1>3 DEF from_tci, p, q, v
<1>5. from_tci(tci) \in WireTag
  <2>1. p \in 0 .. 7 /\ v \in 0 .. VID_MAX /\ ((q % 2) = 1) \in BOOLEAN
    BY <1>1, <1>2, InVid
  <2> QED BY <1>4, <2>1 DEF WireTag
<1>6. (IF (q % 2) = 1 THEN 4096 ELSE 0) = (q % 2) * 4096
  BY <1>2
<1>7. to_tci(from_tci(tci)) = p * 8192 + (q % 2) * 4096 + v
  <2>1. /\ from_tci(tci).pcp = p
        /\ from_tci(tci).vid = v
        /\ from_tci(tci).dei = ((q % 2) = 1)
    BY <1>4
  <2>2. (IF from_tci(tci).dei THEN 4096 ELSE 0) = (q % 2) * 4096
    <3>1. CASE (q % 2) = 1
      <4>1. from_tci(tci).dei = TRUE
        BY <2>1, <3>1
      <4> QED BY <3>1, <4>1
    <3>2. CASE (q % 2) # 1
      <4>1. from_tci(tci).dei = FALSE
        BY <2>1, <3>2
      <4>2. q % 2 = 0
        BY <1>2, <3>2
      <4> QED BY <4>1, <4>2
    <3> QED BY <3>1, <3>2
  <2> QED BY <1>3, <2>1, <2>2 DEF to_tci
<1> QED BY <1>1, <1>2, <1>5, <1>7
LEMMA NoTagNotOnWire == NoTag \notin WireTag
<1>1. \A n : n \in 0 .. 7 => n \in 0 .. 255
  OBVIOUS
<1>2. \A n : n \in 0 .. VID_MAX => n \in Word
  BY InVid, InWord
<1>3. \A tag \in WireTag : tag \in Dot1qTag
  BY <1>1, <1>2, Zenon DEF WireTag, Dot1qTag
<1> QED BY <1>3, TagAssumption

----------------------------------------------------------------------------
\* The two ways to count the bytes of a frame.
LEMMA ByteCount ==
  ASSUME NEW n \in Nat, NEW k \in Nat
  PROVE  /\ 12 + 2 * (1 + n) + k = 14 + 2 * n + k
         /\ 12 + 2 * (3 + n) + k = 18 + 2 * n + k
         /\ 14 + 2 * n + k \in Nat /\ 18 + 2 * n + k \in Nat
         /\ ~(12 + 2 * (1 + n) + k < 14)
         /\ ~(12 + 2 * (3 + n) + k < 14) /\ ~(12 + 2 * (3 + n) + k < 18)
         /\ k <= 1 /\ ~(12 + 2 * n + k < 14) => n >= 1
         /\ k <= 1 /\ ~(12 + 2 * n + k < 18) => n >= 3
OBVIOUS

LEMMA OddLen ==
  ASSUME NEW odd \in OddByte
  PROVE  Len(odd) \in Nat /\ Len(odd) <= 1
<1>1. CASE odd = << >>
  BY <1>1
<1>2. CASE \E byte \in 0 .. 255 : odd = <<byte>>
  BY <1>2
<1> QED BY <1>1, <1>2 DEF OddByte

\* What write_into emits, parse reads back, field by field.
LEMMA WriteParse ==
  ASSUME NEW f \in EthernetFrame(WireTag), ~AmbiguousUntaggedEtherType(f)
  PROVE  Parses(write_into(f)) /\ parse(write_into(f)) = f
<1>0. f.odd \in OddByte /\ Len(f.odd) \in Nat
  BY OddLen DEF EthernetFrame
<1>1. /\ f.payload \in Seq(Word) /\ f.ethertype \in Word
      /\ f = [dst |-> f.dst, src |-> f.src, tag |-> f.tag,
              ethertype |-> f.ethertype, payload |-> f.payload, odd |-> f.odd]
  BY DEF EthernetFrame
<1>2. CASE f.tag = NoTag
  <2> DEFINE w == <<f.ethertype>> \o f.payload
  <2>1. write_into(f) = [dst |-> f.dst, src |-> f.src, words |-> w, odd |-> f.odd]
    <3>1. << >> \o <<f.ethertype>> \o f.payload = w
      BY <1>1
    <3> QED BY <1>2, <3>1 DEF write_into
  <2>2. /\ Len(w) = 1 + Len(f.payload) /\ Len(f.payload) \in Nat
        /\ w[1] = f.ethertype
        /\ SubSeq(w, 2, Len(w)) = f.payload
    BY <1>1
  <2>3. ~Tagged(write_into(f))
    BY <1>2, <2>1, <2>2 DEF Tagged, AmbiguousUntaggedEtherType
  <2>4. Parses(write_into(f))
    <3>1. Len(write_into(f).words) = 1 + Len(f.payload) /\ write_into(f).odd = f.odd
      BY <2>1, <2>2
    <3>2. ByteLen(write_into(f)) = 12 + 2 * (1 + Len(f.payload)) + Len(f.odd)
      BY <3>1 DEF ByteLen
    <3>3. Len(f.payload) \in Nat
      BY <2>2
    <3>4. ~(12 + 2 * (1 + Len(f.payload)) + Len(f.odd) < 14)
      BY <1>0, <3>3, ByteCount
    <3>5. ~(ByteLen(write_into(f)) < 14)
      BY <3>2, <3>4, Zenon
    <3> QED BY <2>3, <3>5, Zenon
            DEF Parses, TooShort, TruncatedTag, UNTAGGED_HEADER_LEN
  <2> HIDE DEF w
  <2>5. parse(write_into(f)) =
          [dst |-> f.dst, src |-> f.src, tag |-> NoTag,
           ethertype |-> f.ethertype, payload |-> f.payload, odd |-> f.odd]
    <3>1. /\ write_into(f).words = w
          /\ write_into(f).dst = f.dst /\ write_into(f).src = f.src
          /\ write_into(f).odd = f.odd
      BY <2>1
    <3>2. parse(write_into(f)) =
            [dst |-> f.dst, src |-> f.src, tag |-> NoTag,
             ethertype |-> w[1], payload |-> SubSeq(w, 1 + 1, Len(w)),
             odd |-> f.odd]
      BY <2>3, <3>1, Zenon DEF parse
    <3>3. SubSeq(w, 1 + 1, Len(w)) = f.payload
      BY <2>2
    <3> QED BY <2>2, <3>2, <3>3, Zenon
  <2> QED BY <1>1, <1>2, <2>4, <2>5
<1>3. CASE f.tag # NoTag
  <2> DEFINE w == <<TPID_802_1Q, to_tci(f.tag), f.ethertype>> \o f.payload
  <2>0. f.tag \in WireTag
    BY <1>3 DEF EthernetFrame
  <2>1. write_into(f) = [dst |-> f.dst, src |-> f.src, words |-> w, odd |-> f.odd]
    <3>1. <<TPID_802_1Q, to_tci(f.tag)>> \o <<f.ethertype>> \o f.payload = w
      BY <1>1
    <3> QED BY <1>3, <3>1 DEF write_into
  <2>2. /\ Len(w) = 3 + Len(f.payload) /\ Len(f.payload) \in Nat
        /\ w[1] = TPID_802_1Q /\ w[2] = to_tci(f.tag) /\ w[3] = f.ethertype
        /\ SubSeq(w, 4, Len(w)) = f.payload
    BY <1>1
  <2> HIDE DEF w
  <2>3. Tagged(write_into(f))
    BY <2>1, <2>2 DEF Tagged
  <2>4. Parses(write_into(f))
    <3>1. Len(write_into(f).words) = 3 + Len(f.payload) /\ write_into(f).odd = f.odd
      BY <2>1, <2>2
    <3>2. ByteLen(write_into(f)) = 12 + 2 * (3 + Len(f.payload)) + Len(f.odd)
      BY <3>1 DEF ByteLen
    <3>3. Len(f.payload) \in Nat
      BY <2>2
    <3>4. /\ ~(ByteLen(write_into(f)) < 14)
          /\ ~(ByteLen(write_into(f)) < 18)
      <4>1. /\ ~(12 + 2 * (3 + Len(f.payload)) + Len(f.odd) < 14)
            /\ ~(12 + 2 * (3 + Len(f.payload)) + Len(f.odd) < 18)
        BY <1>0, <3>3, ByteCount
      <4> QED BY <3>2, <4>1, Zenon
    <3> QED BY <3>4, Zenon
            DEF Parses, TooShort, TruncatedTag, UNTAGGED_HEADER_LEN,
                TAGGED_HEADER_LEN
  <2>5. parse(write_into(f)) =
          [dst |-> f.dst, src |-> f.src, tag |-> f.tag,
           ethertype |-> f.ethertype, payload |-> f.payload, odd |-> f.odd]
    <3>1. /\ write_into(f).words = w
          /\ write_into(f).dst = f.dst /\ write_into(f).src = f.src
          /\ write_into(f).odd = f.odd
      BY <2>1
    <3>2. parse(write_into(f)) =
            [dst |-> f.dst, src |-> f.src, tag |-> from_tci(w[2]),
             ethertype |-> w[3], payload |-> SubSeq(w, 3 + 1, Len(w)),
             odd |-> f.odd]
      BY <2>3, <3>1, Zenon DEF parse
    <3>3. from_tci(w[2]) = f.tag
      BY <2>0, <2>2, TagRoundTrip
    <3>4. SubSeq(w, 3 + 1, Len(w)) = f.payload
      BY <2>2
    <3> QED BY <2>2, <3>2, <3>3, <3>4, Zenon
  <2> QED BY <1>1, <2>4, <2>5
<1> QED BY <1>2, <1>3

\* The length of a frame is known before it is written.
LEMMA WireLen ==
  ASSUME NEW Tags, NEW f \in EthernetFrame(Tags)
  PROVE  wire_len(f) \in Nat /\ ByteLen(write_into(f)) = wire_len(f)
<1>0. Len(f.odd) \in Nat
  BY OddLen DEF EthernetFrame
<1>1. f.payload \in Seq(Word) /\ f.ethertype \in Word /\ Len(f.payload) \in Nat
  BY DEF EthernetFrame
<1>2. CASE f.tag = NoTag
  <2>1. Len(<< >> \o <<f.ethertype>> \o f.payload) = 1 + Len(f.payload)
    BY <1>1
  <2>2. Len(write_into(f).words) = 1 + Len(f.payload) /\ write_into(f).odd = f.odd
    BY <1>2, <2>1 DEF write_into
  <2>3. ByteLen(write_into(f)) = 12 + 2 * (1 + Len(f.payload)) + Len(f.odd)
    BY <2>2 DEF ByteLen
  <2>4. wire_len(f) = 14 + 2 * Len(f.payload) + Len(f.odd)
    BY <1>2 DEF wire_len, UNTAGGED_HEADER_LEN
  <2>5. Len(f.payload) \in Nat
    BY <1>1
  <2>6. /\ 12 + 2 * (1 + Len(f.payload)) + Len(f.odd)
             = 14 + 2 * Len(f.payload) + Len(f.odd)
        /\ 14 + 2 * Len(f.payload) + Len(f.odd) \in Nat
    BY <1>0, <2>5, ByteCount
  <2> QED BY <2>3, <2>4, <2>6, Zenon
<1>3. CASE f.tag # NoTag
  <2>1. Len(<<TPID_802_1Q, to_tci(f.tag)>> \o <<f.ethertype>> \o f.payload)
          = 3 + Len(f.payload)
    BY <1>1
  <2>2. Len(write_into(f).words) = 3 + Len(f.payload) /\ write_into(f).odd = f.odd
    BY <1>3, <2>1 DEF write_into
  <2>3. ByteLen(write_into(f)) = 12 + 2 * (3 + Len(f.payload)) + Len(f.odd)
    BY <2>2 DEF ByteLen
  <2>4. wire_len(f) = 18 + 2 * Len(f.payload) + Len(f.odd)
    BY <1>3 DEF wire_len, TAGGED_HEADER_LEN
  <2>5. Len(f.payload) \in Nat
    BY <1>1
  <2>6. /\ 12 + 2 * (3 + Len(f.payload)) + Len(f.odd)
             = 18 + 2 * Len(f.payload) + Len(f.odd)
        /\ 18 + 2 * Len(f.payload) + Len(f.odd) \in Nat
    BY <1>0, <2>5, ByteCount
  <2> QED BY <2>3, <2>4, <2>6, Zenon
<1> QED BY <1>2, <1>3

\* Whatever parses is in range, can be written again, and comes back as it was.
LEMMA ParseWrite ==
  ASSUME NEW wire \in WireFrame, Parses(wire)
  PROVE  /\ parse(wire) \in ParsedFrame
         /\ write_into(parse(wire)) = wire
<1> DEFINE w == wire.words
<1>1. /\ w \in Seq(Word) /\ Len(w) \in Nat /\ Len(w) >= 1
      /\ wire = [dst |-> wire.dst, src |-> wire.src, words |-> w, odd |-> wire.odd]
      /\ wire.dst \in Mac /\ wire.src \in Mac /\ wire.odd \in OddByte
  <2>0. wire.odd \in OddByte /\ Len(wire.odd) \in Nat /\ Len(wire.odd) <= 1
    BY OddLen DEF WireFrame
  <2>1. /\ w \in Seq(Word) /\ wire.dst \in Mac /\ wire.src \in Mac
        /\ wire = [dst |-> wire.dst, src |-> wire.src, words |-> w, odd |-> wire.odd]
    BY DEF WireFrame
  <2>2. Len(w) \in Nat
    BY <2>1
  <2>3. Len(w) >= 1
    <3>1. ~(12 + 2 * Len(w) + Len(wire.odd) < 14)
      BY Zenon DEF Parses, TooShort, ByteLen, UNTAGGED_HEADER_LEN
    <3> QED BY <2>0, <2>2, <3>1, ByteCount
  <2> QED BY <2>0, <2>1, <2>2, <2>3
<1>2. CASE ~Tagged(wire)
  <2>1. w[1] # TPID_802_1Q /\ w[1] \in Word
    BY <1>1, <1>2 DEF Tagged
  <2>2. SubSeq(w, 1 + 1, Len(w)) \in Seq(Word) /\ <<w[1]>> \o SubSeq(w, 1 + 1, Len(w)) = w
    BY <1>1
  <2> DEFINE f == [dst |-> wire.dst, src |-> wire.src, tag |-> NoTag,
                   ethertype |-> w[1], payload |-> SubSeq(w, 1 + 1, Len(w)),
                   odd |-> wire.odd]
  <2>3. parse(wire) = f
    BY <1>2, Zenon DEF parse
  <2>4. f \in ParsedFrame
    BY <1>1, <2>1, <2>2 DEF ParsedFrame, EthernetFrame, AmbiguousUntaggedEtherType
  <2>5. << >> \o <<w[1]>> \o SubSeq(w, 1 + 1, Len(w)) = w
    BY <1>1, <2>2
  <2>6. write_into(f) = wire
    BY <1>1, <2>5 DEF write_into
  <2> QED BY <2>3, <2>4, <2>6
<1>3. CASE Tagged(wire)
  <2>0. Len(wire.odd) \in Nat /\ Len(wire.odd) <= 1
    BY OddLen DEF WireFrame
  <2>1. Len(w) >= 3
    <3>1. ~(12 + 2 * Len(w) + Len(wire.odd) < 18)
      BY <1>3, Zenon DEF Parses, TruncatedTag, ByteLen, TAGGED_HEADER_LEN
    <3>2. Len(w) \in Nat
      BY <1>1
    <3> QED BY <2>0, <3>1, <3>2, ByteCount
  <2>2. w[1] = TPID_802_1Q /\ w[2] \in Word /\ w[3] \in Word
    BY <1>1, <1>3, <2>1 DEF Tagged
  <2>3. /\ SubSeq(w, 3 + 1, Len(w)) \in Seq(Word)
        /\ <<w[1], w[2]>> \o <<w[3]>> \o SubSeq(w, 3 + 1, Len(w)) = w
    BY <1>1, <2>1
  <2> DEFINE f == [dst |-> wire.dst, src |-> wire.src, tag |-> from_tci(w[2]),
                   ethertype |-> w[3], payload |-> SubSeq(w, 3 + 1, Len(w)),
                   odd |-> wire.odd]
  <2>4. parse(wire) = f
    BY <1>3, Zenon DEF parse
  <2>5. /\ from_tci(w[2]) \in WireTag /\ to_tci(from_tci(w[2])) = w[2]
        /\ from_tci(w[2]) # NoTag
    BY <2>2, TciRoundTrip, NoTagNotOnWire
  <2>6. f \in ParsedFrame
    BY <1>1, <2>2, <2>3, <2>5
       DEF ParsedFrame, EthernetFrame, AmbiguousUntaggedEtherType
  <2>7. write_into(f) = wire
    <3>1. write_into(f) =
            [dst |-> wire.dst, src |-> wire.src,
             words |-> <<w[1], w[2]>> \o <<w[3]>> \o SubSeq(w, 3 + 1, Len(w)),
             odd |-> wire.odd]
      BY <2>2, <2>5 DEF write_into
    <3> QED BY <1>1, <2>3, <3>1
  <2> QED BY <2>4, <2>6, <2>7
<1> QED BY <1>2, <1>3
=============================================================================
