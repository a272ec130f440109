----------------------------- MODULE LibraryProofs -----------------------------
(***************************************************************************)
(* Proofs about the libraries, for any input: CommandGiver, FileLib with   *)
(* FileTreeLib, and TextLib.                                               *)
(*                                                                         *)
(* Their loops are functions defined by recursion, here over the number of *)
(* rounds or over a place in a text.  That there are such functions is     *)
(* proved once, for steps that are functions themselves.                   *)
(***************************************************************************)
EXTENDS CommandGiver, FileTreeLib, SequenceTheorems, FiniteSetTheorems, WellFoundedInduction, TLAPS
-----------------------------------------------------------------------------
(* Numbers.  The library's theorems on induction take the formula to be    *)
(* proved as a parameter, which none of the provers instantiates; here it  *)
(* is the set of the numbers that satisfy it, a value like any other.      *)

\* A set of numbers that is not empty has a least one.
LEMMA LeastNumber ==
  ASSUME NEW T \in SUBSET Nat, T # {}
  PROVE  \E n \in T : \A m \in T : n <= m
<1>1. PICK n \in T : \A m \in T : ~ (<<m, n>> \in OpToRel(<, Nat))
  BY WFMin, NatLessThanWellFounded, Zenon
<1>2. ASSUME NEW m \in T PROVE n <= m
  <2>1. m \in Nat /\ n \in Nat /\ <<m, n>> \in Nat \X Nat /\ <<m, n>>[1] = m /\ <<m, n>>[2] = n
    OBVIOUS
  <2>2. m < n => <<m, n>> \in OpToRel(<, Nat)
    BY <2>1, Zenon DEF OpToRel
  <2>3. ~ (m < n)
    BY <1>1, <2>2, Zenon
  <2> QED BY <2>1, <2>3
<1> QED BY <1>2

\* Which is the one that Min chooses.
LEMMA MinIsLeast ==
  ASSUME NEW T \in SUBSET Nat, T # {}
  PROVE  Min(T) \in T /\ \A m \in T : Min(T) <= m
BY LeastNumber, Zenon DEF Min

\* The greatest of numbers up to n.
LEMMA MaxIsGreatest ==
  ASSUME NEW n \in Nat, NEW T \in SUBSET (0..n), T # {}
  PROVE  Max(T) \in T /\ \A m \in T : m <= Max(T)
<1> DEFINE U == {n - m : m \in T}
<1>1. U \in SUBSET Nat /\ U # {}
  <2>1. ASSUME NEW m \in T PROVE m \in Nat /\ n - m \in Nat
    <3>1. m \in 0..n
      OBVIOUS
    <3> QED BY <3>1
  <2> QED BY <2>1
<1>2. PICK u \in U : \A k \in U : u <= k
  <2> HIDE DEF U
  <2> QED BY <1>1, LeastNumber
<1>3. PICK t \in T : u = n - t
  BY <1>2
<1>4. ASSUME NEW m \in T PROVE t >= m
  <2>1. n - m \in U
    OBVIOUS
  <2>2. n - t <= n - m /\ m \in 0..n /\ t \in 0..n
    BY <1>2, <1>3, <2>1
  <2> QED BY <2>2
<1>5. \E x \in T : \A y \in T : x >= y
  BY <1>4
<1>6. Max(T) \in T /\ \A y \in T : Max(T) >= y
  BY <1>5, Zenon DEF Max
<1>7. \A m \in T : m <= Max(T)
  <2>1. \A m \in T : m \in 0..n
    OBVIOUS
  <2> DEFINE max == Max(T)
  <2>2. max \in T /\ \A m \in T : max >= m
    BY <1>6
  <2> HIDE DEF max
  <2>3. \A m \in T : m <= max
    BY <2>1, <2>2
  <2> QED BY <2>3 DEF max
<1> QED BY <1>6, <1>7

\* Induction: a set of numbers that has 0, and with each number the next, has
\* them all.
LEMMA SetInduction ==
  ASSUME NEW T \in SUBSET Nat, 0 \in T, \A n \in T : n + 1 \in T
  PROVE  T = Nat
<1>1. SUFFICES ASSUME Nat \ T # {} PROVE FALSE
  OBVIOUS
<1>2. PICK n \in Nat \ T : \A m \in Nat \ T : n <= m
  <2>1. Nat \ T \in SUBSET Nat
    OBVIOUS
  <2> QED BY <1>1, <2>1, LeastNumber, Zenon
<1>3. n # 0 /\ n - 1 \in Nat
  BY <1>2
<1>4. n - 1 \in T
  BY <1>2, <1>3
<1>5. n \in T
  <2>1. (n - 1) + 1 = n
    BY <1>3
  <2> QED BY <1>4, <2>1
<1> QED BY <1>5

\* The same up to n.
LEMMA UpTo ==
  ASSUME NEW n \in Nat, NEW T, 0 \in T, \A k \in 0..(n - 1) : k \in T => k + 1 \in T
  PROVE  \A k \in 0..n : k \in T
<1> DEFINE U == {k \in Nat : k <= n => k \in T}
<1>1. 0 \in U
  OBVIOUS
<1>2. ASSUME NEW k \in U PROVE k + 1 \in U
  <2>1. k + 1 \in Nat /\ (k + 1 <= n => k <= n /\ k \in 0..(n - 1))
    OBVIOUS
  <2> QED BY <2>1
<1>3. U = Nat
  <2> HIDE DEF U
  <2>1. U \in SUBSET Nat
    BY DEF U
  <2> QED BY <1>1, <1>2, <2>1, SetInduction
<1>4. ASSUME NEW k \in 0..n PROVE k \in T
  <2>1. k \in U /\ k <= n
    BY <1>3
  <2> QED BY <2>1
<1> QED BY <1>4
-----------------------------------------------------------------------------
(* Recursion.                                                              *)

\* A step is made of a function f and a place d.  It looks at f at places of
\* smaller measure only.
LooksBack(D, V, mu, step) ==
  \A f, g \in [D -> V] : \A d \in D :
    (\A e \in D : mu[e] < mu[d] => f[e] = g[e]) => step[<<f, d>>] = step[<<g, d>>]

Follows(f, D, step) == \A d \in D : f[d] = step[<<f, d>>]

\* A function may be defined at each place by its values at places of smaller
\* measure.
LEMMA Recursion ==
  ASSUME NEW D, NEW V, V # {}, NEW n \in Nat, NEW mu \in [D -> 0..n],
         NEW step \in [[D -> V] \X D -> V], LooksBack(D, V, mu, step)
  PROVE  \E f \in [D -> V] : Follows(f, D, step)
<1> DEFINE T == {k \in Nat : \E f \in [D -> V] : \A d \in D : mu[d] < k => f[d] = step[<<f, d>>]}
<1>1. 0 \in T
  <2>1. PICK v : v \in V
    OBVIOUS
  <2>2. [d \in D |-> v] \in [D -> V]
    BY <2>1
  <2>3. ASSUME NEW d \in D PROVE ~ (mu[d] < 0)
    <3>1. mu[d] \in 0..n
      OBVIOUS
    <3> QED BY <3>1
  <2> QED BY <2>2, <2>3
<1>2. ASSUME NEW k \in T PROVE k + 1 \in T
  <2>1. PICK f \in [D -> V] : \A d \in D : mu[d] < k => f[d] = step[<<f, d>>]
    OBVIOUS
  <2> DEFINE g == [d \in D |-> step[<<f, d>>]]
  <2>2. g \in [D -> V]
    <3>1. ASSUME NEW d \in D PROVE step[<<f, d>>] \in V
      <4>1. <<f, d>> \in [D -> V] \X D
        OBVIOUS
      <4> QED BY <4>1
    <3> QED BY <3>1
  <2>3. ASSUME NEW d \in D, mu[d] < k + 1 PROVE g[d] = step[<<g, d>>]
    <3>1. ASSUME NEW e \in D, mu[e] < mu[d] PROVE f[e] = g[e]
      <4>1. mu[e] \in 0..n /\ mu[d] \in 0..n /\ k \in Nat
        OBVIOUS
      <4>2. mu[e] < k
        BY <2>3, <3>1, <4>1
      <4> QED BY <2>1, <4>2
    <3>2. step[<<f, d>>] = step[<<g, d>>]
      <4> HIDE DEF g
      <4> QED BY <2>2, <3>1 DEF LooksBack
    <3> QED BY <3>2
  <2>4. k + 1 \in Nat
    OBVIOUS
  <2> HIDE DEF g
  <2> QED BY <2>2, <2>3, <2>4
<1>3. n + 1 \in T
  <2> HIDE DEF T
  <2>1. T \in SUBSET Nat
    BY DEF T
  <2>2. T = Nat
    BY <1>1, <1>2, <2>1, SetInduction
  <2> QED BY <2>2
<1>4. PICK f \in [D -> V] : \A d \in D : mu[d] < n + 1 => f[d] = step[<<f, d>>]
  BY <1>3
<1>5. ASSUME NEW d \in D PROVE mu[d] < n + 1
  <2>1. mu[d] \in 0..n
    OBVIOUS
  <2> QED BY <2>1
<1> QED BY <1>4, <1>5 DEF Follows

\* A loop of n rounds, each of which takes the state to another.
Rounds(f, n, first, step) ==
  f[0] = first /\ \A k \in 1..n : f[k] = step[<<f[k - 1], k>>]

\* A loop over 1..n has a state after each round.
LEMMA Iteration ==
  ASSUME NEW V, NEW n \in Nat, NEW first \in V, NEW step \in [V \X (1..n) -> V]
  PROVE  \E f \in [0..n -> V] : Rounds(f, n, first, step)
<1> DEFINE D == 0..n
           mu == [k \in D |-> k]
           Round(f, k) == IF k = 0 THEN first ELSE step[<<f[k - 1], k>>]
           S == [p \in [D -> V] \X D |-> Round(p[1], p[2])]
<1>1. mu \in [D -> 0..n]
  OBVIOUS
<1>2. ASSUME NEW f \in [D -> V], NEW k \in D
      PROVE  Round(f, k) \in V /\ S[<<f, k>>] = Round(f, k)
  <2>1. CASE k = 0
    BY <2>1
  <2>2. CASE k # 0
    <3>1. k - 1 \in D /\ k \in 1..n
      BY <2>2
    <3>2. <<f[k - 1], k>> \in V \X (1..n)
      BY <3>1
    <3>3. step[<<f[k - 1], k>>] \in V
      BY <3>2
    <3> QED BY <2>2, <3>3
  <2> QED BY <2>1, <2>2
<1>3. S \in [[D -> V] \X D -> V]
  <2>1. ASSUME NEW p \in [D -> V] \X D PROVE Round(p[1], p[2]) \in V
    <3>1. p[1] \in [D -> V] /\ p[2] \in D
      OBVIOUS
    <3> QED BY <1>2, <3>1
  <2> HIDE DEF Round, D
  <2> QED BY <2>1
<1>4. ASSUME NEW f \in [D -> V], NEW g \in [D -> V], NEW k \in D,
             \A e \in D : mu[e] < mu[k] => f[e] = g[e]
      PROVE  S[<<f, k>>] = S[<<g, k>>]
  <2>1. k # 0 => f[k - 1] = g[k - 1]
    <3>1. k # 0 => k - 1 \in D /\ mu[k - 1] < mu[k]
      OBVIOUS
    <3> QED BY <1>4, <3>1
  <2>2. Round(f, k) = Round(g, k)
    BY <2>1
  <2> HIDE DEF S, Round
  <2> QED BY <1>2, <2>2
<1>5. V # {}
  OBVIOUS
<1>6. PICK f \in [D -> V] : Follows(f, D, S)
  <2>1. LooksBack(D, V, mu, S)
    <3> HIDE DEF D, mu, S, Round
    <3> QED BY <1>4 DEF LooksBack
  <2> HIDE DEF D, mu, S, Round
  <2> QED BY <1>1, <1>3, <1>5, <2>1, Recursion
<1>7. ASSUME NEW k \in D PROVE f[k] = Round(f, k)
  <2> HIDE DEF S, Round, D
  <2> QED BY <1>2, <1>6 DEF Follows
<1>8. 0 \in D /\ \A k \in 1..n : k \in D /\ k # 0
  OBVIOUS
<1>9. f[0] = first /\ \A k \in 1..n : f[k] = step[<<f[k - 1], k>>]
  BY <1>7, <1>8
<1> QED BY <1>6, <1>9 DEF Rounds

\* Whatever is defined as such a loop stays among its states.
LEMMA IterationStays ==
  ASSUME NEW V, NEW n \in Nat, NEW f, DOMAIN f = 0..n, f = [k \in 0..n |-> f[k]],
         f[0] \in V, \A k \in 1..n : f[k - 1] \in V => f[k] \in V
  PROVE  f \in [0..n -> V]
<1> DEFINE T == {k \in 0..n : f[k] \in V}
<1>1. 0 \in T
  OBVIOUS
<1>2. ASSUME NEW k \in 0..(n - 1), k \in T PROVE k + 1 \in T
  <2>1. k + 1 \in 1..n /\ k + 1 \in 0..n /\ (k + 1) - 1 = k /\ f[k] \in V
    BY <1>2
  <2> QED BY <2>1
<1>3. \A k \in 0..n : k \in T
  <2> HIDE DEF T
  <2> QED BY <1>1, <1>2, UpTo
<1> QED BY <1>3
\* A function that keeps to some values wherever it does at places of smaller
\* measure.
Inherits(g, D, V, mu) ==
  \A d \in D : (\A e \in D : mu[e] < mu[d] => g[e] \in V) => g[d] \in V

\* A recursive function that is there keeps to the values its steps keep to.
LEMMA RecursionStays ==
  ASSUME NEW D, NEW V, NEW n \in Nat, NEW mu \in [D -> 0..n], NEW g, g = [d \in D |-> g[d]],
         Inherits(g, D, V, mu)
  PROVE  g \in [D -> V]
<1> DEFINE T == {k \in 0..n : \A d \in D : mu[d] <= k => g[d] \in V}
<1>1. \A d \in D : mu[d] \in 0..n
  OBVIOUS
<1>2. 0 \in T
  <2>1. ASSUME NEW d \in D, mu[d] <= 0 PROVE g[d] \in V
    <3>1. \A e \in D : ~ (mu[e] < mu[d])
      BY <1>1, <2>1
    <3> QED BY <3>1 DEF Inherits
  <2> QED BY <2>1
<1>3. ASSUME NEW k \in 0..(n - 1), k \in T PROVE k + 1 \in T
  <2>1. ASSUME NEW d \in D, mu[d] <= k + 1 PROVE g[d] \in V
    <3>1. \A e \in D : mu[e] < mu[d] => mu[e] <= k
      BY <1>1, <2>1
    <3>2. \A e \in D : mu[e] < mu[d] => g[e] \in V
      BY <1>3, <3>1
    <3> QED BY <3>2 DEF Inherits
  <2>2. k + 1 \in 0..n
    OBVIOUS
  <2> QED BY <2>1, <2>2
<1>4. \A k \in 0..n : k \in T
  <2> HIDE DEF T
  <2> QED BY <1>2, <1>3, UpTo
<1>5. \A d \in D : g[d] \in V
  <2>1. n \in T
    BY <1>4
  <2> QED BY <1>1, <2>1
<1> QED BY <1>5

\* g and h have the same values behind place i, and they are in V.
AgreeBehind(g, h, i, n, V) == \A j \in 0..n : i < j => g[j] \in V /\ h[j] = g[j]

LooksBehind(step, n, V) ==
  \A f, h \in [0..n -> V] : \A i \in 0..n :
    AgreeBehind(f, h, i, n, V) => step[<<f, i>>] = step[<<h, i>>]

\* A function on places may be defined at each by its values behind it.
LEMMA FromBehind ==
  ASSUME NEW n \in Nat, NEW V, V # {}, NEW step \in [[0..n -> V] \X (0..n) -> V], LooksBehind(step, n, V)
  PROVE  \E f \in [0..n -> V] : Follows(f, 0..n, step)
<1> DEFINE D == 0..n
           mu == [i \in D |-> n - i]
<1>1. mu \in [D -> 0..n] /\ \A i, j \in D : i < j => mu[j] < mu[i]
  OBVIOUS
<1> HIDE DEF mu
<1>2. LooksBack(D, V, mu, step)
  <2>1. ASSUME NEW f \in [D -> V], NEW h \in [D -> V], NEW i \in D, \A j \in D : mu[j] < mu[i] => f[j] = h[j]
        PROVE  step[<<f, i>>] = step[<<h, i>>]
    <3>1. AgreeBehind(f, h, i, n, V)
      BY <1>1, <2>1 DEF AgreeBehind
    <3> QED BY <3>1 DEF LooksBehind
  <2> HIDE DEF D
  <2> QED BY <2>1 DEF LooksBack
<1>3. step \in [[D -> V] \X D -> V]
  OBVIOUS
<1> HIDE DEF D
<1>4. \E f \in [D -> V] : Follows(f, D, step)
  BY <1>1, <1>2, <1>3, Recursion
<1> QED BY <1>4 DEF D

\* The same, looking behind.
LEMMA FromBehindStays ==
  ASSUME NEW n \in Nat, NEW V, NEW g, g = [i \in 0..n |-> g[i]],
         \A i \in 0..n : AgreeBehind(g, g, i, n, V) => g[i] \in V
  PROVE  g \in [0..n -> V]
<1> DEFINE D == 0..n
           mu == [i \in D |-> n - i]
<1>1. mu \in [D -> 0..n] /\ \A i, j \in D : i < j => mu[j] < mu[i]
  OBVIOUS
<1> HIDE DEF mu
<1>2. Inherits(g, D, V, mu)
  <2>1. ASSUME NEW i \in D, \A j \in D : mu[j] < mu[i] => g[j] \in V PROVE g[i] \in V
    <3>1. AgreeBehind(g, g, i, n, V)
      BY <1>1, <2>1 DEF AgreeBehind
    <3> QED BY <3>1
  <2> HIDE DEF D
  <2> QED BY <2>1 DEF Inherits
<1> HIDE DEF D
<1>3. g = [i \in D |-> g[i]]
  BY DEF D
<1>4. g \in [D -> V]
  BY <1>1, <1>2, <1>3, RecursionStays
<1> QED BY <1>4 DEF D

\* A loop of n rounds that goes from one set of states to the next.
Leads(next, n, In) == \A k \in 1..n : \A v \in In[k - 1] : next[<<v, k>>] \in In[k]

\* The same as AgreeBehind, but with a set of values for each place.
AgreeWithin(f, h, i, n, In) == \A j \in 0..n : i < j => f[j] \in In[j] /\ h[j] = f[j]

KeepsWithin(step, n, V, In) ==
  \A f, h \in [0..n -> V] : \A i \in 0..n :
    AgreeWithin(f, h, i, n, In) => step[<<f, i>>] \in In[i] /\ step[<<h, i>>] = step[<<f, i>>]

FollowsWithin(f, n, step, In) == \A i \in 0..n : f[i] = step[<<f, i>>] /\ f[i] \in In[i]

\* A function may be defined by its values behind each place, even if the
\* definition makes sense for those only that are in the set of their place.
LEMMA FromBehindWithin ==
  ASSUME NEW n \in Nat, NEW V, NEW In \in [0..n -> SUBSET V], \A i \in 0..n : In[i] # {},
         NEW step, KeepsWithin(step, n, V, In)
  PROVE  \E f \in [0..n -> V] : FollowsWithin(f, n, step, In)
<1> DEFINE D == 0..n
           Behind(f, i) == \A j \in D : i < j => f[j] \in In[j]
           any == [i \in D |-> CHOOSE v : v \in In[i]]
           safe == [p \in [D -> V] \X D |-> IF Behind(p[1], p[2]) THEN step[p] ELSE any[p[2]]]
<1>1. \A i \in D : any[i] \in In[i] /\ In[i] \subseteq V
  OBVIOUS
<1>2. 0 \in D /\ V # {}
  BY <1>1
<1> HIDE DEF any
<1>3. ASSUME NEW f \in [D -> V], NEW i \in D
      PROVE  /\ safe[<<f, i>>] = IF Behind(f, i) THEN step[<<f, i>>] ELSE any[i]
             /\ Behind(f, i) => step[<<f, i>>] \in In[i]
  <2>1. safe[<<f, i>>] = IF Behind(f, i) THEN step[<<f, i>>] ELSE any[i]
    <3> HIDE DEF D, Behind
    <3> QED OBVIOUS
  <2>2. ASSUME Behind(f, i) PROVE step[<<f, i>>] \in In[i]
    <3>1. AgreeWithin(f, f, i, n, In)
      BY <2>2 DEF AgreeWithin
    <3> QED BY <3>1 DEF KeepsWithin
  <2> QED BY <2>1, <2>2
<1> HIDE DEF Behind
<1>4. safe \in [[D -> V] \X D -> V]
  <2>1. ASSUME NEW p \in [D -> V] \X D PROVE (IF Behind(p[1], p[2]) THEN step[p] ELSE any[p[2]]) \in V
    <3>1. p[1] \in [D -> V] /\ p[2] \in D /\ p = <<p[1], p[2]>>
      <4> HIDE DEF D
      <4> QED OBVIOUS
    <3>2. Behind(p[1], p[2]) => step[p] \in In[p[2]]
      BY <1>3, <3>1
    <3> QED BY <1>1, <3>1, <3>2
  <2> HIDE DEF D
  <2> QED BY <2>1
<1> HIDE DEF safe
<1>5. LooksBehind(safe, n, V)
  <2>1. ASSUME NEW f \in [D -> V], NEW h \in [D -> V], NEW i \in D, AgreeBehind(f, h, i, n, V)
        PROVE  safe[<<f, i>>] = safe[<<h, i>>]
    <3>1. \A j \in D : i < j => h[j] = f[j]
      BY <2>1 DEF AgreeBehind
    <3>2. Behind(f, i) <=> Behind(h, i)
      BY <3>1 DEF Behind
    <3>3. Behind(f, i) => AgreeWithin(f, h, i, n, In)
      BY <3>1 DEF Behind, AgreeWithin
    <3>4. Behind(f, i) => step[<<h, i>>] = step[<<f, i>>]
      BY <3>3 DEF KeepsWithin
    <3> QED BY <1>3, <3>2, <3>4
  <2> QED BY <2>1 DEF LooksBehind
<1>6. PICK f \in [D -> V] : Follows(f, D, safe)
  BY <1>2, <1>4, <1>5, FromBehind
<1> DEFINE T == {k \in D : f[n - k] \in In[n - k] /\ Behind(f, n - k)}
<1>7. ASSUME NEW i \in D, Behind(f, i) PROVE f[i] \in In[i] /\ f[i] = step[<<f, i>>]
  BY <1>3, <1>6, <1>7 DEF Follows
<1>8. 0 \in T
  <2>1. n - 0 = n /\ n \in D /\ Behind(f, n)
    BY DEF Behind
  <2> QED BY <1>2, <1>7, <2>1
<1>9. ASSUME NEW k \in 0..(n - 1), k \in T PROVE k + 1 \in T
  <2>1. k + 1 \in D /\ n - (k + 1) \in D /\ \A j \in D : n - (k + 1) < j => j = n - k \/ n - k < j
    OBVIOUS
  <2>2. Behind(f, n - (k + 1))
    BY <1>9, <2>1 DEF Behind
  <2> QED BY <1>7, <2>1, <2>2
<1>10. ASSUME NEW i \in D PROVE Behind(f, i)
  <2>1. \A k \in 0..n : k \in T
    <3> HIDE DEF T
    <3> QED BY <1>8, <1>9, UpTo
  <2>2. n - i \in 0..n /\ n - (n - i) = i
    OBVIOUS
  <2> QED BY <2>1, <2>2
<1> QED BY <1>6, <1>7, <1>10 DEF FollowsWithin

\* A loop whose states keep to a set for each round.
LEMMA Passing ==
  ASSUME NEW V, NEW n \in Nat, NEW In \in [0..n -> SUBSET V], NEW first \in In[0],
         NEW next \in [V \X (1..n) -> V], Leads(next, n, In)
  PROVE  \E f \in [0..n -> V] : Rounds(f, n, first, next) /\ \A k \in 0..n : f[k] \in In[k]
<1>1. first \in V
  <2>1. 0 \in 0..n
    OBVIOUS
  <2> QED BY <2>1
<1>2. PICK f \in [0..n -> V] : Rounds(f, n, first, next)
  BY <1>1, Iteration
<1> DEFINE T == {k \in 0..n : f[k] \in In[k]}
<1>3. 0 \in T
  BY <1>2 DEF Rounds
<1>4. ASSUME NEW k \in 0..(n - 1), k \in T PROVE k + 1 \in T
  <2>1. k + 1 \in 1..n /\ k + 1 \in 0..n /\ (k + 1) - 1 = k
    OBVIOUS
  <2>2. f[k + 1] = next[<<f[k], k + 1>>] /\ f[k] \in In[(k + 1) - 1]
    BY <1>2, <1>4, <2>1 DEF Rounds
  <2>3. next[<<f[k], k + 1>>] \in In[k + 1]
    BY <2>1, <2>2 DEF Leads
  <2> QED BY <2>1, <2>2, <2>3
<1>5. \A k \in 0..n : k \in T
  <2> HIDE DEF T
  <2> QED BY <1>3, <1>4, UpTo
<1> QED BY <1>2, <1>5

-----------------------------------------------------------------------------
(* Sequences.                                                              *)

LEMMA HeadOfConcat ==
  ASSUME NEW S, NEW s \in Seq(S), NEW t \in Seq(S), s # <<>>
  PROVE  Head(s \o t) = Head(s)
<1>1. Len(s) \in Nat /\ Len(s) >= 1 /\ Head(s) = s[1]
  OBVIOUS
<1>2. (s \o t)[1] = s[1]
  BY <1>1, ConcatProperties
<1>3. s \o t \in Seq(S) /\ s \o t # <<>>
  BY <1>1
<1>4. Head(s \o t) = (s \o t)[1]
  BY <1>3
<1> QED BY <1>1, <1>2, <1>4

LEMMA FrontOfAppend ==
  ASSUME NEW S, NEW s \in Seq(S), NEW e \in S
  PROVE  Append(s, e) # <<>> /\ Front(Append(s, e)) = s /\ Last(Append(s, e)) = e
<1>1. /\ Append(s, e) \in Seq(S) /\ Len(Append(s, e)) = Len(s) + 1 /\ Len(s) \in Nat
      /\ Append(s, e)[Len(s) + 1] = e
      /\ \A i \in 1..Len(s) : Append(s, e)[i] = s[i]
  OBVIOUS
<1>2. Append(s, e) # <<>>
  BY <1>1
<1>3. Front(Append(s, e)) = SubSeq(Append(s, e), 1, Len(s))
  BY <1>1 DEF Front
<1>4. SubSeq(Append(s, e), 1, Len(s)) = s
  OBVIOUS
<1> QED BY <1>1, <1>2, <1>3, <1>4 DEF Last
-----------------------------------------------------------------------------
(* FileLib: paths.                                                         *)

\* The steps of a path that are no names.
None == ""

Up == ".."

Steps == {Up, ".", None}

\* What one part of a path does.
LEMMA WalkCases ==
  ASSUME NEW path, NEW part
  PROVE  /\ part = Up => walk(path, part) = IF path = <<>> THEN path ELSE Front(path)
         /\ part \in Steps \ {Up} => walk(path, part) = path
         /\ part \notin Steps => walk(path, part) = Append(path, part)
BY DEF walk, Steps, Up, None

LEMMA UpAndNone == Up \in Steps /\ None \in Steps /\ Up # None
BY DEF Steps, Up, None

LEMMA WalkIsAPath ==
  ASSUME NEW Names, NEW path \in Seq(Names), NEW part \in Names
  PROVE  walk(path, part) \in Seq(Names)
<1>1. path # <<>> => Front(path) \in Seq(Names)
  <2>1. path # <<>> => Len(path) \in Nat /\ Len(path) - 1 \in 0..Len(path)
    OBVIOUS
  <2> QED BY <2>1, SubSeqProperties DEF Front
<1>2. Append(path, part) \in Seq(Names)
  OBVIOUS
<1> QED BY <1>1, <1>2, WalkCases, Zenon

\* What is resolved, part by part.
LEMMA ResolvedRounds ==
  ASSUME NEW Names, NEW parts \in Seq(Names)
  PROVE  \E f \in [0..Len(parts) -> Seq(Names)] :
           /\ f[0] = <<>>
           /\ \A k \in 1..Len(parts) : f[k] = walk(f[k - 1], parts[k])
           /\ resolved(parts) = f[Len(parts)]
<1> DEFINE n == Len(parts)
           Round(f, k) == IF k = 0 THEN <<>> ELSE walk(f[k - 1], parts[k])
           step == [p \in Seq(Names) \X (1..n) |-> walk(p[1], parts[p[2]])]
           g == CHOOSE f : f = [k \in 0..n |-> Round(f, k)]
<1>1. n \in Nat /\ <<>> \in Seq(Names) /\ \A k \in 1..n : parts[k] \in Names
  OBVIOUS
<1>2. step \in [Seq(Names) \X (1..n) -> Seq(Names)]
  <2>1. ASSUME NEW p \in Seq(Names) \X (1..n) PROVE walk(p[1], parts[p[2]]) \in Seq(Names)
    <3>1. p[1] \in Seq(Names) /\ parts[p[2]] \in Names
      BY <1>1
    <3> QED BY <3>1, WalkIsAPath
  <2> QED BY <2>1
<1>3. \E f : f = [k \in 0..n |-> Round(f, k)]
  <2>1. PICK f \in [0..n -> Seq(Names)] :
               Rounds(f, n, <<>>, step)
    <3> HIDE DEF n, step
    <3> QED BY <1>1, <1>2, Iteration
  <2>2. ASSUME NEW k \in 0..n PROVE f[k] = Round(f, k)
    <3>1. k # 0 => k - 1 \in 0..n /\ k \in 1..n
      BY <1>1
    <3>2. k # 0 => <<f[k - 1], k>> \in Seq(Names) \X (1..n)
      BY <3>1
    <3> QED BY <2>1, <3>1, <3>2 DEF Rounds
  <2>3. f = [k \in 0..n |-> Round(f, k)]
    <3> HIDE DEF Round, n
    <3> QED BY <2>2
  <2> QED BY <2>3
<1>4. g = [k \in 0..n |-> Round(g, k)]
  <2> HIDE DEF Round, n
  <2> QED BY <1>3
<1>5. resolved(parts) = g[n]
  BY DEF resolved
<1> HIDE DEF g
<1>6. \A k \in 0..n : g[k] = Round(g, k)
  <2> HIDE DEF Round, n
  <2> QED BY <1>4
<1>7. g[0] = <<>> /\ \A k \in 1..n : g[k] = walk(g[k - 1], parts[k])
  BY <1>1, <1>6
<1>8. g \in [0..n -> Seq(Names)]
  <2>1. DOMAIN g = 0..n /\ g = [k \in 0..n |-> g[k]]
    <3> HIDE DEF Round, n
    <3> QED BY <1>4, <1>6
  <2>2. ASSUME NEW k \in 1..n, g[k - 1] \in Seq(Names) PROVE g[k] \in Seq(Names)
    BY <1>1, <1>7, <2>2, WalkIsAPath
  <2> HIDE DEF n
  <2> QED BY <1>1, <1>7, <2>1, <2>2, IterationStays
<1> QED BY <1>5, <1>7, <1>8

\* One part more is one step more.
LEMMA ResolvedStep ==
  ASSUME NEW Names, NEW parts \in Seq(Names), NEW part \in Names
  PROVE  /\ resolved(parts) \in Seq(Names)
         /\ resolved(Append(parts, part)) = walk(resolved(parts), part)
<1> DEFINE n == Len(parts)
           more == Append(parts, part)
<1>1. n \in Nat /\ more \in Seq(Names) /\ Len(more) = n + 1
  OBVIOUS
<1>2. (\A k \in 1..n : more[k] = parts[k]) /\ more[n + 1] = part
  OBVIOUS
<1>3. PICK f \in [0..n -> Seq(Names)] :
             /\ f[0] = <<>>
             /\ \A k \in 1..n : f[k] = walk(f[k - 1], parts[k])
             /\ resolved(parts) = f[n]
  BY ResolvedRounds
<1>4. PICK g \in [0..(n + 1) -> Seq(Names)] :
             /\ g[0] = <<>>
             /\ \A k \in 1..(n + 1) : g[k] = walk(g[k - 1], more[k])
             /\ resolved(more) = g[n + 1]
  <2> HIDE DEF n, more
  <2> QED BY <1>1, ResolvedRounds
<1> HIDE DEF n, more
<1> DEFINE T == {k \in 0..n : f[k] = g[k]}
<1>5. 0 \in T
  BY <1>1, <1>3, <1>4
<1>6. ASSUME NEW k \in 0..(n - 1), k \in T PROVE k + 1 \in T
  <2>1. k + 1 \in 1..n /\ k + 1 \in 1..(n + 1) /\ k + 1 \in 0..n /\ (k + 1) - 1 = k
    BY <1>1
  <2>2. f[k + 1] = walk(f[k], parts[k + 1]) /\ g[k + 1] = walk(g[k], more[k + 1])
    BY <1>3, <1>4, <2>1
  <2> QED BY <1>2, <1>6, <2>1, <2>2
<1>7. f[n] = g[n]
  <2>1. \A k \in 0..n : k \in T
    <3> HIDE DEF T
    <3> QED BY <1>1, <1>5, <1>6, UpTo
  <2> QED BY <1>1, <2>1
<1>8. g[n + 1] = walk(g[n], part)
  <2>1. n + 1 \in 1..(n + 1) /\ (n + 1) - 1 = n
    BY <1>1
  <2> QED BY <1>2, <1>4, <2>1
<1>9. f[n] \in Seq(Names)
  BY <1>1
<1> QED BY <1>3, <1>4, <1>7, <1>8, <1>9 DEF more

LEMMA NothingIsResolved ==
  resolved(<<>>) = <<>>
<1>1. <<>> \in Seq({}) /\ Len(<<>>) = 0
  OBVIOUS
<1> QED BY <1>1, ResolvedRounds

IsNormal(path) == \A i \in DOMAIN path : path[i] \notin Steps

\* No step is left in what is resolved that leads up or nowhere.
LEMMA ResolvedIsNormal ==
  ASSUME NEW Names, NEW parts \in Seq(Names)
  PROVE  IsNormal(resolved(parts))
<1> DEFINE n == Len(parts)
<1>1. n \in Nat
  OBVIOUS
<1>2. PICK f \in [0..n -> Seq(Names)] :
             /\ f[0] = <<>>
             /\ \A k \in 1..n : f[k] = walk(f[k - 1], parts[k])
             /\ resolved(parts) = f[n]
  BY ResolvedRounds
<1> DEFINE T == {k \in 0..n : IsNormal(f[k])}
<1>3. 0 \in T
  BY <1>1, <1>2 DEF IsNormal
<1>4. ASSUME NEW k \in 0..(n - 1), k \in T PROVE k + 1 \in T
  <2>1. k \in 0..n /\ k + 1 \in 1..n /\ k + 1 \in 0..n /\ (k + 1) - 1 = k
    BY <1>1
  <2>2. f[k + 1] = walk(f[k], parts[k + 1]) /\ f[k] \in Seq(Names) /\ IsNormal(f[k])
        /\ parts[k + 1] \in Names
    BY <1>2, <1>4, <2>1
  <2>3. CASE parts[k + 1] = Up /\ f[k] # <<>>
    <3>1. f[k + 1] = Front(f[k])
      BY <2>2, <2>3, WalkCases, Zenon
    <3>2. Len(f[k]) - 1 \in Nat /\ Len(f[k]) \in Nat
      BY <2>2, <2>3
    <3>3. DOMAIN Front(f[k]) \subseteq DOMAIN f[k] /\ \A i \in DOMAIN Front(f[k]) : Front(f[k])[i] = f[k][i]
      BY <2>2, <3>2 DEF Front
    <3> QED BY <2>1, <2>2, <3>1, <3>3 DEF IsNormal
  <2>4. CASE parts[k + 1] \in Steps \ {Up} \/ (parts[k + 1] = Up /\ f[k] = <<>>)
    <3>1. f[k + 1] = f[k]
      BY <2>2, <2>4, WalkCases, Zenon
    <3> QED BY <2>1, <2>2, <3>1
  <2>5. CASE parts[k + 1] \notin Steps
    <3>1. f[k + 1] = Append(f[k], parts[k + 1])
      BY <2>2, <2>5, WalkCases, Zenon
    <3>2. ASSUME NEW i \in DOMAIN f[k + 1] PROVE f[k + 1][i] \notin Steps
      <4>1. i = Len(f[k]) + 1 \/ i \in DOMAIN f[k]
        BY <2>2, <3>1
      <4>2. CASE i = Len(f[k]) + 1
        BY <2>2, <2>5, <3>1, <4>2
      <4>3. CASE i \in DOMAIN f[k]
        BY <2>2, <3>1, <4>3 DEF IsNormal
      <4> QED BY <4>1, <4>2, <4>3
    <3> QED BY <2>1, <3>2 DEF IsNormal
  <2> QED BY <2>3, <2>4, <2>5
<1>5. n \in T
  <2>1. \A k \in 0..n : k \in T
    <3> HIDE DEF T, n
    <3> QED BY <1>1, <1>3, <1>4, UpTo
  <2> QED BY <1>1, <2>1
<1> QED BY <1>2, <1>5

\* Such a path is resolved to itself.
LEMMA NormalIsResolved ==
  ASSUME NEW Names, None \in Names, NEW path \in Seq(Names), IsNormal(path)
  PROVE  resolved(<<None>> \o path) = path
<1> DEFINE n == Len(path)
           parts == <<None>> \o path
<1>1. n \in Nat /\ parts \in Seq(Names) /\ Len(parts) = n + 1
  OBVIOUS
<1>2. parts[1] = None /\ \A k \in 1..n : parts[k + 1] = path[k]
  OBVIOUS
<1>3. PICK f \in [0..(n + 1) -> Seq(Names)] :
             /\ f[0] = <<>>
             /\ \A k \in 1..(n + 1) : f[k] = walk(f[k - 1], parts[k])
             /\ resolved(parts) = f[n + 1]
  <2> HIDE DEF n, parts
  <2> QED BY <1>1, ResolvedRounds
<1> HIDE DEF parts
<1> DEFINE T == {k \in 0..n : f[k + 1] = SubSeq(path, 1, k)}
<1>4. 0 \in T
  <2>1. 1 \in 1..(n + 1) /\ f[1] = walk(f[0], None)
    BY <1>1, <1>2, <1>3
  <2>2. f[1] = <<>>
    BY <1>3, <2>1, UpAndNone, WalkCases, Zenon
  <2>3. SubSeq(path, 1, 0) = <<>>
    OBVIOUS
  <2>4. f[0 + 1] = SubSeq(path, 1, 0)
    BY <2>2, <2>3
  <2> QED BY <1>1, <2>4
<1>5. ASSUME NEW k \in 0..(n - 1), k \in T PROVE k + 1 \in T
  <2>1. k + 1 \in 1..n /\ k + 1 \in 0..n /\ (k + 1) + 1 \in 1..(n + 1) /\ ((k + 1) + 1) - 1 = k + 1
        /\ k \in Nat
    BY <1>1
  <2>2. f[(k + 1) + 1] = walk(SubSeq(path, 1, k), path[k + 1])
    BY <1>2, <1>3, <1>5, <2>1
  <2>3. path[k + 1] \notin Steps
    BY <2>1 DEF IsNormal
  <2>4. f[(k + 1) + 1] = Append(SubSeq(path, 1, k), path[k + 1])
    BY <2>2, <2>3, WalkCases, Zenon
  <2>5. Append(SubSeq(path, 1, k), path[k + 1]) = SubSeq(path, 1, k + 1)
    BY <2>1
  <2> QED BY <2>1, <2>4, <2>5
<1>6. n \in T
  <2>1. \A k \in 0..n : k \in T
    <3> HIDE DEF T, n
    <3> QED BY <1>1, <1>4, <1>5, UpTo
  <2> QED BY <1>1, <2>1
<1>7. SubSeq(path, 1, n) = path
  OBVIOUS
<1> QED BY <1>3, <1>6, <1>7 DEF parts

\* What expand_path() resolves, and how the outcome is written.
Parts(pattern, rel) == IF Absolute(pattern) THEN pattern ELSE dirname(rel) \o pattern

Whole(path) == IF path = <<>> THEN <<None, None>> ELSE <<None>> \o path

\* expand_path() resolves the parts it puts together.
LEMMA ExpandIsResolved ==
  ASSUME NEW pattern, NEW rel
  PROVE  expand_path(pattern, rel) = Whole(resolved(Parts(pattern, rel)))
BY Zenon DEF expand_path, Parts, Whole, None

LEMMA AbsoluteStarts ==
  ASSUME NEW pattern
  PROVE  Absolute(pattern) <=> Len(pattern) > 1 /\ Head(pattern) = None
BY Zenon DEF Absolute, None

LEMMA PartsArePath ==
  ASSUME NEW Names, NEW pattern \in Seq(Names), NEW rel \in Seq(Names), rel # <<>>
  PROVE  Parts(pattern, rel) \in Seq(Names) /\ dirname(rel) \in Seq(Names)
<1>1. Len(rel) \in Nat /\ Len(rel) - 1 \in 0..Len(rel)
  OBVIOUS
<1>2. dirname(rel) \in Seq(Names)
  BY <1>1, SubSeqProperties DEF dirname, Front
<1>3. dirname(rel) \o pattern \in Seq(Names)
  BY <1>2
<1> QED BY <1>2, <1>3, Zenon DEF Parts

\* Whatever is added to a pattern is added to what is resolved.
LEMMA PartsGrow ==
  ASSUME NEW Names, NEW pattern \in Seq(Names), NEW rel \in Seq(Names), rel # <<>>,
         pattern # <<None>>,
         NEW more \in Seq(Names), Len(more) > 1 => Head(more) # None
  PROVE  Parts(pattern \o more, rel) = Parts(pattern, rel) \o more
<1>1. Absolute(pattern \o more) <=> Absolute(pattern)
  <2>1. CASE pattern = <<>>
    <3>1. pattern \o more = more /\ ~ (Len(pattern) > 1)
      BY <2>1
    <3> QED BY <3>1, AbsoluteStarts
  <2>2. CASE Len(pattern) = 1
    <3>1. Head(pattern) # None
      <4> SUFFICES ASSUME Head(pattern) = None PROVE pattern = <<None>>
        OBVIOUS
      <4> QED BY <2>2
    <3>2. Head(pattern \o more) = Head(pattern)
      BY <2>2, HeadOfConcat
    <3> QED BY <3>1, <3>2, AbsoluteStarts
  <2>3. CASE Len(pattern) > 1
    <3>1. Head(pattern \o more) = Head(pattern) /\ Len(pattern \o more) > 1
      BY <2>3, HeadOfConcat
    <3> QED BY <2>3, <3>1, AbsoluteStarts
  <2>4. pattern = <<>> \/ Len(pattern) = 1 \/ Len(pattern) > 1
    <3>1. pattern # <<>> => Len(pattern) \in Nat \ {0}
      BY EmptySeq
    <3>2. \A n \in Nat \ {0} : n = 1 \/ n > 1
      OBVIOUS
    <3> QED BY <3>1, <3>2, Zenon
  <2> QED BY <2>1, <2>2, <2>3, <2>4
<1>2. dirname(rel) \o (pattern \o more) = (dirname(rel) \o pattern) \o more
  <2>1. dirname(rel) \in Seq(Names)
    BY PartsArePath
  <2> QED BY <2>1, ConcatAssociative
<1> QED BY <1>1, <1>2, Zenon DEF Parts

\* A path that was resolved is so for good.
LEMMA WholeIsResolved ==
  ASSUME NEW Names, None \in Names, NEW path \in Seq(Names), IsNormal(path)
  PROVE  /\ Whole(path) \in Seq(Names)
         /\ Absolute(Whole(path))
         /\ resolved(Whole(path)) = path
<1>1. CASE path = <<>>
  <2> DEFINE root == Append(<<>>, None)
  <2>1. <<>> \in Seq(Names) /\ root \in Seq(Names)
    OBVIOUS
  <2>2. resolved(root) = walk(<<>>, None)
    BY <2>1, NothingIsResolved, ResolvedStep
  <2>3. resolved(root) = <<>>
    BY <2>2, UpAndNone, WalkCases, Zenon
  <2>4. resolved(Append(root, None)) = walk(<<>>, None)
    <3> HIDE DEF root
    <3> QED BY <2>1, <2>3, ResolvedStep
  <2>5. resolved(Append(root, None)) = <<>>
    BY <2>4, UpAndNone, WalkCases, Zenon
  <2>6. Append(root, None) = <<None, None>>
    <3>1. /\ Append(root, None) \in Seq(Names) /\ Len(Append(root, None)) = 2
          /\ Append(root, None)[1] = None /\ Append(root, None)[2] = None
      OBVIOUS
    <3>2. /\ <<None, None>> \in Seq(Names) /\ Len(<<None, None>>) = 2
          /\ <<None, None>>[1] = None /\ <<None, None>>[2] = None
      OBVIOUS
    <3>3. \A i \in 1..2 : i = 1 \/ i = 2
      OBVIOUS
    <3> HIDE DEF root
    <3> QED BY <3>1, <3>2, <3>3, SeqEqual
  <2>7. Whole(path) = <<None, None>>
    BY <1>1, Zenon DEF Whole
  <2>8. <<None, None>> \in Seq(Names) /\ Len(<<None, None>>) > 1 /\ Head(<<None, None>>) = None
    OBVIOUS
  <2> HIDE DEF root
  <2> QED BY <1>1, <2>5, <2>6, <2>7, <2>8, AbsoluteStarts, Zenon
<1>2. CASE path # <<>>
  <2>1. Whole(path) = <<None>> \o path
    BY <1>2 DEF Whole
  <2>2. /\ <<None>> \o path \in Seq(Names)
        /\ Len(<<None>> \o path) > 1 /\ Head(<<None>> \o path) = None
    BY <1>2
  <2> QED BY <2>1, <2>2, AbsoluteStarts, NormalIsResolved
<1> QED BY <1>1, <1>2

\* Paths are resolved at once or one after the other.
LEMMA PathsCompose ==
  ASSUME NEW Names, None \in Names, Up \in Names,
         NEW pattern \in Seq(Names), pattern # <<None>>,
         NEW rel \in Seq(Names), rel # <<>>
  PROVE  /\ expand_path(pattern, rel) \in Seq(Names)
         /\ expand_path(pattern, rel) = Whole(resolved(Parts(pattern, rel)))
         /\ IsNormal(resolved(Parts(pattern, rel)))
         /\ \A other : expand_path(expand_path(pattern, rel), other) = expand_path(pattern, rel)
         /\ \A name \in Names \ Steps :
              expand_path(pattern \o <<name, Up>>, rel) = expand_path(pattern, rel)
         /\ \A part \in Names, file \in Names :
              expand_path(pattern \o <<part>>, rel)
                = expand_path(<<part>>, expand_path(pattern, rel) \o <<file>>)
<1> DEFINE parts == Parts(pattern, rel)
           r == resolved(parts)
           path == expand_path(pattern, rel)
<1>1. parts \in Seq(Names)
  BY PartsArePath
<1>2. path = Whole(r)
  BY ExpandIsResolved
<1>3. r \in Seq(Names) /\ IsNormal(r)
  <2> HIDE DEF parts
  <2> QED BY <1>1, ResolvedStep, ResolvedIsNormal
<1>4. path \in Seq(Names) /\ Absolute(path) /\ resolved(path) = r
  <2> HIDE DEF path, r
  <2> QED BY <1>2, <1>3, WholeIsResolved
<1> HIDE DEF parts, r, path
<1>5. ASSUME NEW other PROVE expand_path(path, other) = path
  <2>1. Parts(path, other) = path
    BY <1>4, Zenon DEF Parts
  <2> QED BY <1>2, <1>4, <2>1, ExpandIsResolved
<1>6. ASSUME NEW name \in Names \ Steps
      PROVE  expand_path(pattern \o <<name, Up>>, rel) = path
  <2>1. <<name, Up>> \in Seq(Names) /\ Head(<<name, Up>>) # None
    BY UpAndNone
  <2>2. Parts(pattern \o <<name, Up>>, rel) = parts \o <<name, Up>>
    BY <2>1, PartsGrow DEF parts
  <2>3. parts \o <<name, Up>> = Append(Append(parts, name), Up) /\ Append(parts, name) \in Seq(Names)
    BY <1>1
  <2>4. resolved(Append(parts, name)) = Append(r, name)
    <3>1. resolved(Append(parts, name)) = walk(r, name)
      BY <1>1, ResolvedStep DEF r
    <3> QED BY <3>1, <1>6, WalkCases, Zenon
  <2>5. resolved(Append(Append(parts, name), Up)) = walk(Append(r, name), Up)
    BY <2>3, <2>4, ResolvedStep
  <2>6. Append(r, name) # <<>> /\ Front(Append(r, name)) = r
    BY <1>3, FrontOfAppend
  <2>7. walk(Append(r, name), Up) = r
    BY <2>6, WalkCases, Zenon
  <2> QED BY <1>2, <2>2, <2>3, <2>5, <2>7, ExpandIsResolved
<1>7. ASSUME NEW part \in Names, NEW file \in Names
      PROVE  expand_path(pattern \o <<part>>, rel) = expand_path(<<part>>, path \o <<file>>)
  <2>1. <<part>> \in Seq(Names) /\ ~ (Len(<<part>>) > 1)
    OBVIOUS
  <2>2. Parts(pattern \o <<part>>, rel) = parts \o <<part>>
    BY <2>1, PartsGrow DEF parts
  <2>3. parts \o <<part>> = Append(parts, part) /\ path \o <<part>> = Append(path, part)
    BY <1>1, <1>4
  <2>4. resolved(parts \o <<part>>) = walk(r, part) /\ resolved(path \o <<part>>) = walk(r, part)
    BY <1>1, <1>4, <2>3, ResolvedStep DEF r
  <2>5. dirname(path \o <<file>>) = path
    BY <1>4 DEF dirname, Front
  <2>6. Parts(<<part>>, path \o <<file>>) = path \o <<part>>
    BY <2>1, <2>5, AbsoluteStarts, Zenon DEF Parts
  <2> QED BY <2>2, <2>4, <2>6, ExpandIsResolved
<1> QED BY <1>2, <1>3, <1>4, <1>5, <1>6, <1>7 DEF path, r, parts
-----------------------------------------------------------------------------
(* FileLib: patterns.                                                      *)

Star == "*"

\* Each path of a tree starts at the root, and goes through directories to
\* something that has a name.
IsTree(tree, Names) ==
  /\ DOMAIN tree \subseteq Seq(Names)
  /\ <<None>> \in DOMAIN tree
  /\ \A p \in DOMAIN tree :
       /\ p # <<>> /\ p[1] = None
       /\ p # <<None>> => /\ Front(p) \in DOMAIN tree /\ tree[Front(p)] = "dir"
                         /\ Last(p) \notin Steps

LEMMA SpecialIsAStep ==
  ASSUME NEW path
  PROVE  is_special_dir(path) => Last(path) \in Steps
BY Zenon DEF is_special_dir, Special, Steps, Up

\* One directory gives its files that match the part.
LEMMA CollatedIsNamed ==
  ASSUME NEW Names, NEW tree, IsTree(tree, Names), NEW dir \in Seq(Names), NEW part
  PROVE  collate_files(tree, dir, part)
           = {p \in DOMAIN tree : p # <<None>> /\ Front(p) = dir /\ part \in {Star, Last(p)}}
<1> DEFINE named == {p \in DOMAIN tree : p # <<None>> /\ Front(p) = dir /\ part \in {Star, Last(p)}}
           special == {Append(dir, s) : s \in {n \in Special : dir \in DOMAIN tree /\ part \in {Star, n}}}
<1>1. collate_files(tree, dir, part) = {p \in named \cup special : ~is_special_dir(p)}
  BY Zenon DEF collate_files, get_dir, None, Star
<1>2. ASSUME NEW p \in special PROVE is_special_dir(p)
  <2>1. PICK s \in Special : p = Append(dir, s)
    OBVIOUS
  <2>2. dir \in Seq(Names \cup {s}) /\ s \in Names \cup {s}
    OBVIOUS
  <2>3. Last(p) = s
    BY <2>1, <2>2, FrontOfAppend
  <2> QED BY <2>1, <2>3 DEF is_special_dir
<1>3. ASSUME NEW p \in named PROVE ~ is_special_dir(p)
  BY SpecialIsAStep DEF IsTree
<1> HIDE DEF named, special
<1>4. {p \in named \cup special : ~is_special_dir(p)} = named
  BY <1>2, <1>3
<1> QED BY <1>1, <1>4 DEF named

\* What is found in one round.
Found(tree, found, part, k) ==
  UNION {collate_files(tree, dir, part) : dir \in {p \in found : k = 1 \/ IsDir(tree, p)}}

\* One round finds what lies in what was found and matches the part.
LEMMA FoundIsInTree ==
  ASSUME NEW Names, NEW tree, IsTree(tree, Names),
         NEW found \in SUBSET DOMAIN tree, NEW part, NEW k
  PROVE  Found(tree, found, part, k)
           = {p \in DOMAIN tree :
                /\ p # <<None>> /\ Front(p) \in found /\ (k = 1 \/ IsDir(tree, Front(p)))
                /\ part \in {Star, Last(p)}}
<1> DEFINE dirs == {p \in found : k = 1 \/ IsDir(tree, p)}
           named(dir) ==
             {p \in DOMAIN tree : p # <<None>> /\ Front(p) = dir /\ part \in {Star, Last(p)}}
           all == {p \in DOMAIN tree : p # <<None>> /\ Front(p) \in dirs /\ part \in {Star, Last(p)}}
<1>1. ASSUME NEW dir \in dirs PROVE collate_files(tree, dir, part) = named(dir)
  <2>1. dir \in Seq(Names)
    BY DEF IsTree
  <2> QED BY <2>1, CollatedIsNamed
<1>2. Found(tree, found, part, k) = UNION {collate_files(tree, dir, part) : dir \in dirs}
  BY DEF Found
<1>3. UNION {collate_files(tree, dir, part) : dir \in dirs} = UNION {named(dir) : dir \in dirs}
  <2> HIDE DEF dirs, named
  <2> QED BY <1>1
<1>4. UNION {named(dir) : dir \in dirs} = all
  <2> HIDE DEF dirs
  <2> QED OBVIOUS
<1>5. all = {p \in DOMAIN tree :
               /\ p # <<None>> /\ Front(p) \in found /\ (k = 1 \/ IsDir(tree, Front(p)))
               /\ part \in {Star, Last(p)}}
  OBVIOUS
<1> QED BY <1>2, <1>3, <1>4, <1>5

\* The rounds of expand_files().
LEMMA ExpandedRounds ==
  ASSUME NEW Names, NEW tree, IsTree(tree, Names), NEW path \in Seq(Names)
  PROVE  \E f \in [0..Len(path) -> SUBSET DOMAIN tree] :
           /\ f[0] = {<<None>>}
           /\ \A k \in 1..Len(path) : f[k] = Found(tree, f[k - 1], path[k], k)
           /\ expand_files(tree, path) = f[Len(path)]
<1> DEFINE n == Len(path)
           V == SUBSET DOMAIN tree
           Round(f, k) == IF k = 0 THEN {<<None>>} ELSE Found(tree, f[k - 1], path[k], k)
           step == [p \in V \X (1..n) |-> Found(tree, p[1], path[p[2]], p[2])]
           g == CHOOSE f : f = [k \in 0..n |-> Round(f, k)]
<1>1. n \in Nat /\ {<<None>>} \in V
  BY DEF IsTree
<1>2. ASSUME NEW found \in V, NEW k PROVE Found(tree, found, path[k], k) \in V
  BY FoundIsInTree
<1>3. step \in [V \X (1..n) -> V]
  <2> HIDE DEF V, n
  <2>1. ASSUME NEW p \in V \X (1..n) PROVE Found(tree, p[1], path[p[2]], p[2]) \in V
    <3>1. p[1] \in V
      OBVIOUS
    <3> QED BY <1>2, <3>1
  <2> QED BY <2>1
<1>4. \E f : f = [k \in 0..n |-> Round(f, k)]
  <2>1. PICK f \in [0..n -> V] : Rounds(f, n, {<<None>>}, step)
    <3> HIDE DEF n, step, V
    <3> QED BY <1>1, <1>3, Iteration
  <2>2. ASSUME NEW k \in 0..n PROVE f[k] = Round(f, k)
    <3> HIDE DEF V
    <3>1. k # 0 => k - 1 \in 0..n /\ k \in 1..n
      BY <1>1
    <3>2. k # 0 => <<f[k - 1], k>> \in V \X (1..n)
      BY <3>1
    <3> QED BY <2>1, <3>1, <3>2 DEF Rounds
  <2>3. f = [k \in 0..n |-> Round(f, k)]
    <3> HIDE DEF Round, n
    <3> QED BY <2>2
  <2> QED BY <2>3
<1>5. g = [k \in 0..n |-> Round(g, k)]
  <2> HIDE DEF Round, n
  <2> QED BY <1>4
<1>6. expand_files(tree, path) = g[n]
  BY Zenon DEF expand_files, Found, None
<1> HIDE DEF g
<1>7. \A k \in 0..n : g[k] = Round(g, k)
  <2> HIDE DEF Round, n
  <2> QED BY <1>5
<1>8. g[0] = {<<None>>} /\ \A k \in 1..n : g[k] = Found(tree, g[k - 1], path[k], k)
  BY <1>1, <1>7
<1>9. g \in [0..n -> V]
  <2>1. DOMAIN g = 0..n /\ g = [k \in 0..n |-> g[k]]
    <3> HIDE DEF Round, n
    <3> QED BY <1>5, <1>7
  <2> HIDE DEF n, V
  <2>2. ASSUME NEW k \in 1..n, g[k - 1] \in V PROVE g[k] \in V
    BY <1>2, <1>8, <2>2
  <2> QED BY <1>1, <1>8, <2>1, <2>2, IterationStays
<1> QED BY <1>6, <1>8, <1>9

LEMMA FrontAndLast ==
  ASSUME NEW S, NEW s \in Seq(S), s # <<>>
  PROVE  /\ Front(s) \in Seq(S) /\ Len(Front(s)) = Len(s) - 1
         /\ \A i \in 1..(Len(s) - 1) : Front(s)[i] = s[i]
         /\ Last(s) = s[Len(s)] /\ Len(s) \in Nat \ {0}
<1>1. Len(s) \in Nat \ {0}
  BY EmptySeq
<1>2. \A i \in 1..(Len(s) - 1) : s[i] \in S
  BY <1>1
<1>3. Len(s) - 1 \in Int /\ 1 \in Int
  BY <1>1
<1>4. Front(s) = SubSeq(s, 1, Len(s) - 1)
  BY DEF Front
<1> DEFINE m == Len(s) - 1
<1>5. /\ SubSeq(s, 1, m) \in Seq(S) /\ Len(SubSeq(s, 1, m)) = m
      /\ \A i \in 1..m : SubSeq(s, 1, m)[i] = s[i]
  <2>1. m \in Nat /\ m \in Int /\ 1 \in Int /\ \A i \in 1..m : s[i] \in S
    BY <1>1, <1>2
  <2> HIDE DEF m
  <2>2. /\ SubSeq(s, 1, m) \in Seq(S) /\ Len(SubSeq(s, 1, m)) = IF 1 <= m THEN m - 1 + 1 ELSE 0
        /\ \A i \in 1..(m - 1 + 1) : SubSeq(s, 1, m)[i] = s[1 + i - 1]
    BY <2>1, SubSeqProperties
  <2>3. m - 1 + 1 = m /\ (~ (1 <= m) => m = 0) /\ \A i \in 1..m : 1 + i - 1 = i
    BY <2>1
  <2> QED BY <2>2, <2>3
<1> QED BY <1>1, <1>4, <1>5 DEF Last

\* Where a file of the tree is: below a directory, and deeper by one.
LEMMA BelowTheRoot ==
  ASSUME NEW Names, NEW tree, IsTree(tree, Names), NEW p \in DOMAIN tree
  PROVE  /\ p \in Seq(Names) /\ Len(p) \in Nat \ {0} /\ p[1] = None
         /\ p = <<None>> <=> Len(p) = 1
         /\ p # <<None>> => /\ Front(p) \in DOMAIN tree /\ IsDir(tree, Front(p))
                           /\ Len(Front(p)) = Len(p) - 1
                           /\ \A i \in 1..(Len(p) - 1) : Front(p)[i] = p[i]
                           /\ Last(p) = p[Len(p)]
<1>1. p \in Seq(Names) /\ p # <<>> /\ p[1] = None
  BY DEF IsTree
<1>2. Len(p) \in Nat \ {0}
  BY <1>1, EmptySeq
<1>3. p = <<None>> <=> Len(p) = 1
  <2>1. Len(<<None>>) = 1
    OBVIOUS
  <2>2. ASSUME Len(p) = 1 PROVE p = <<None>>
    BY <1>1, <2>2
  <2> QED BY <2>1, <2>2
<1>4. p # <<None>> => Front(p) \in DOMAIN tree /\ IsDir(tree, Front(p))
  BY DEF IsTree, IsDir
<1> QED BY <1>1, <1>2, <1>3, <1>4, FrontAndLast

\* The files whose names match the parts of path below the root.
Matching(tree, path, k) ==
  {p \in DOMAIN tree : Len(p) = k + 1 /\ \A i \in 1..k : path[i] \in {Star, p[i + 1]}}

\* After the last round these are the files that match the pattern.
LEMMA FoundIsMatching ==
  ASSUME NEW Names, NEW tree, IsTree(tree, Names), NEW path \in Seq(Names)
  PROVE  expand_files(tree, path) = Matching(tree, path, Len(path))
<1> DEFINE n == Len(path)
<1>1. n \in Nat
  OBVIOUS
<1>2. PICK f \in [0..n -> SUBSET DOMAIN tree] :
             /\ f[0] = {<<None>>}
             /\ \A k \in 1..n : f[k] = Found(tree, f[k - 1], path[k], k)
             /\ expand_files(tree, path) = f[n]
  BY ExpandedRounds
<1> HIDE DEF n
<1> DEFINE T == {k \in 0..n : f[k] = Matching(tree, path, k)}
<1>3. 0 \in T
  <2>1. Matching(tree, path, 0) = {p \in DOMAIN tree : Len(p) = 1}
    BY DEF Matching
  <2>2. {p \in DOMAIN tree : Len(p) = 1} = {<<None>>}
    <3>1. \A p \in DOMAIN tree : p = <<None>> <=> Len(p) = 1
      BY BelowTheRoot
    <3>2. <<None>> \in DOMAIN tree
      BY DEF IsTree
    <3> QED BY <3>1, <3>2
  <2>3. f[0] = Matching(tree, path, 0)
    BY <1>2, <2>1, <2>2, Zenon
  <2> QED BY <1>1, <2>3
<1>4. ASSUME NEW k \in 0..(n - 1), k \in T PROVE k + 1 \in T
  <2>1. k \in 0..n /\ k + 1 \in 1..n /\ k + 1 \in 0..n /\ (k + 1) - 1 = k
    BY <1>1
  <2>2. f[k + 1] = Found(tree, f[k], path[k + 1], k + 1) /\ f[k] = Matching(tree, path, k)
    BY <1>2, <1>4, <2>1
  <2>3. f[k + 1] = {p \in DOMAIN tree :
                      /\ p # <<None>> /\ Front(p) \in f[k]
                      /\ (k + 1 = 1 \/ IsDir(tree, Front(p)))
                      /\ path[k + 1] \in {Star, Last(p)}}
    <3>1. f[k] \in SUBSET DOMAIN tree
      BY <2>1
    <3> QED BY <2>2, <3>1, FoundIsInTree
  <2>4. ASSUME NEW p \in DOMAIN tree
        PROVE  (/\ p # <<None>> /\ Front(p) \in f[k]
                /\ (k + 1 = 1 \/ IsDir(tree, Front(p)))
                /\ path[k + 1] \in {Star, Last(p)})
               <=> p \in Matching(tree, path, k + 1)
    <3>1. /\ Len(p) \in Nat \ {0} /\ p = <<None>> <=> Len(p) = 1
          /\ p # <<None>> => /\ Front(p) \in DOMAIN tree /\ IsDir(tree, Front(p))
                            /\ Len(Front(p)) = Len(p) - 1
                            /\ \A i \in 1..(Len(p) - 1) : Front(p)[i] = p[i]
                            /\ Last(p) = p[Len(p)]
      BY BelowTheRoot
    <3>2. CASE Len(p) # k + 2
      <4>1. p \notin Matching(tree, path, k + 1)
        BY <2>1, <3>2 DEF Matching
      <4>2. p # <<None>> => Front(p) \notin Matching(tree, path, k)
        BY <2>1, <3>1, <3>2 DEF Matching
      <4> QED BY <2>2, <4>1, <4>2
    <3>3. CASE Len(p) = k + 2
      <4>1. p # <<None>> /\ Last(p) = p[(k + 1) + 1]
        BY <2>1, <3>1, <3>3
      <4>2. Front(p) \in f[k] <=> \A i \in 1..k : path[i] \in {Star, p[i + 1]}
        <5>1. Len(Front(p)) = k + 1 /\ \A i \in 1..k : Front(p)[i + 1] = p[i + 1]
          BY <2>1, <3>1, <3>3, <4>1
        <5>2. Front(p) \in Matching(tree, path, k)
                <=> \A i \in 1..k : path[i] \in {Star, Front(p)[i + 1]}
          BY <3>1, <4>1, <5>1 DEF Matching
        <5> QED BY <2>2, <5>1, <5>2
      <4>3. p \in Matching(tree, path, k + 1)
              <=> \A i \in 1..(k + 1) : path[i] \in {Star, p[i + 1]}
        BY <2>1, <3>3 DEF Matching
      <4>4. \A i : i \in 1..(k + 1) <=> i \in 1..k \/ i = k + 1
        BY <2>1
      <4> QED BY <3>1, <4>1, <4>2, <4>3, <4>4
    <3> QED BY <3>2, <3>3
  <2>5. f[k + 1] = Matching(tree, path, k + 1)
    <3>1. Matching(tree, path, k + 1) \subseteq DOMAIN tree
      BY DEF Matching
    <3> QED BY <2>3, <2>4, <3>1
  <2> QED BY <2>1, <2>5
<1>5. n \in T
  <2>1. \A k \in 0..n : k \in T
    <3> HIDE DEF T
    <3> QED BY <1>1, <1>3, <1>4, UpTo
  <2> QED BY <1>1, <2>1
<1> QED BY <1>2, <1>5 DEF n

FilesLike(tree, path) ==
  {p \in DOMAIN tree : Len(p) = Len(path) /\ \A i \in DOMAIN path : path[i] \in {p[i], Star}}

\* A pattern that is not resolved to the root finds what matches it, part by
\* part.
LEMMA PatternFinds ==
  ASSUME NEW Names, NEW tree, IsTree(tree, Names), None \in Names,
         NEW pattern, NEW rel,
         NEW r \in Seq(Names), r # <<>>, IsNormal(r), expand_path(pattern, rel) = <<None>> \o r
  PROVE  expand_pattern(tree, pattern, rel) = FilesLike(tree, <<None>> \o r)
<1> DEFINE path == <<None>> \o r
           n == Len(r)
<1>1. /\ path \in Seq(Names) /\ n \in Nat \ {0} /\ Len(path) = n + 1
      /\ DOMAIN path = 1..(n + 1)
      /\ path[1] = None /\ (\A i \in 1..n : path[i + 1] = r[i])
      /\ Tail(path) = r
  BY EmptySeq
<1>2. path # <<None, None>>
  <2>1. r[1] # None
    <3>1. 1 \in DOMAIN r
      BY <1>1
    <3> QED BY <3>1, UpAndNone DEF IsNormal
  <2>2. path[2] = r[1]
    <3>1. 1 \in 1..n /\ 1 + 1 = 2
      BY <1>1
    <3> QED BY <1>1, <3>1
  <2>3. <<None, None>>[2] = None
    OBVIOUS
  <2> HIDE DEF path
  <2> QED BY <2>1, <2>2, <2>3
<1>3. expand_pattern(tree, pattern, rel) = expand_files(tree, Tail(path))
  BY <1>2, Zenon DEF expand_pattern, None
<1>4. expand_pattern(tree, pattern, rel) = Matching(tree, r, n)
  BY <1>1, <1>3, FoundIsMatching
<1> HIDE DEF path, n
<1>5. ASSUME NEW p \in DOMAIN tree
      PROVE  p \in Matching(tree, r, n)
             <=> Len(p) = Len(path) /\ \A i \in DOMAIN path : path[i] \in {p[i], Star}
  <2>1. p[1] = None
    BY DEF IsTree
  <2>2. ASSUME \A i \in 1..n : r[i] \in {Star, p[i + 1]}, NEW i \in 1..(n + 1)
        PROVE  path[i] \in {p[i], Star}
    <3>1. CASE i = 1
      BY <1>1, <2>1, <3>1
    <3>2. CASE i # 1
      <4>1. i - 1 \in 1..n /\ (i - 1) + 1 = i
        BY <1>1, <3>2
      <4>2. path[i] = r[i - 1] /\ r[i - 1] \in {Star, p[i]}
        BY <1>1, <2>2, <4>1
      <4> QED BY <4>2
    <3> QED BY <3>1, <3>2
  <2>3. ASSUME \A i \in 1..(n + 1) : path[i] \in {p[i], Star}, NEW i \in 1..n
        PROVE  r[i] \in {Star, p[i + 1]}
    <3>1. i + 1 \in 1..(n + 1)
      BY <1>1
    <3> QED BY <1>1, <2>3, <3>1
  <2> QED BY <1>1, <2>2, <2>3 DEF Matching
<1>6. Matching(tree, r, n) \subseteq DOMAIN tree
  BY DEF Matching
<1>7. FilesLike(tree, path) = {p \in DOMAIN tree : p \in Matching(tree, r, n)}
  BY <1>5 DEF FilesLike
<1> QED BY <1>4, <1>6, <1>7 DEF path

\* What is shown of a pattern seen from rel, b and file being any names.
Resolves(tree, pattern, rel, elsewhere, b, file) ==
  LET path == expand_path(pattern, rel) IN
    /\ expand_path(path, elsewhere) = path
    /\ expand_path(pattern \o <<b, Up>>, rel) = path
    /\ \A part \in {".", Up, b} :
         expand_path(pattern \o <<part>>, rel) = expand_path(<<part>>, path \o <<file>>)
    /\ path # <<None, None>> => expand_pattern(tree, pattern, rel) = FilesLike(tree, path)

LEMMA ResolvingPaths ==
  ASSUME NEW Names, None \in Names, Up \in Names, "." \in Names,
         NEW b \in Names, b \notin Steps, NEW file \in Names,
         NEW rel \in Seq(Names), rel # <<>>, NEW elsewhere,
         NEW tree, IsTree(tree, Names),
         NEW pattern \in Seq(Names), pattern # <<None>>
  PROVE  Resolves(tree, pattern, rel, elsewhere, b, file)
<1> DEFINE path == expand_path(pattern, rel)
           r == resolved(Parts(pattern, rel))
<1>1. /\ path = Whole(r) /\ IsNormal(r)
      /\ \A other : expand_path(path, other) = path
      /\ \A name \in Names \ Steps : expand_path(pattern \o <<name, Up>>, rel) = path
      /\ \A part \in Names, f \in Names :
           expand_path(pattern \o <<part>>, rel) = expand_path(<<part>>, path \o <<f>>)
  BY PathsCompose
<1>2. r \in Seq(Names)
  <2>1. Parts(pattern, rel) \in Seq(Names)
    BY PartsArePath
  <2> QED BY <2>1, ResolvedStep
<1> HIDE DEF path, r
<1>3. expand_path(path, elsewhere) = path /\ expand_path(pattern \o <<b, Up>>, rel) = path
  BY <1>1
<1>4. \A part \in {".", Up, b} :
        expand_path(pattern \o <<part>>, rel) = expand_path(<<part>>, path \o <<file>>)
  BY <1>1
<1>5. ASSUME path # <<None, None>>
      PROVE  expand_pattern(tree, pattern, rel) = FilesLike(tree, path)
  <2>1. r # <<>> /\ path = <<None>> \o r
    BY <1>1, <1>5, Zenon DEF Whole
  <2>2. expand_path(pattern, rel) = path
    BY DEF path
  <2>3. expand_path(pattern, rel) = <<None>> \o r
    BY <2>1, <2>2
  <2>4. IsNormal(r)
    BY <1>1
  <2>5. expand_pattern(tree, pattern, rel) = FilesLike(tree, <<None>> \o r)
    BY <1>2, <2>1, <2>3, <2>4, PatternFinds, Zenon
  <2> QED BY <2>1, <2>5, Zenon
<1> QED BY <1>3, <1>4, <1>5, Zenon DEF path, Resolves

LEMMA TripleIsASeq ==
  ASSUME NEW S, NEW a \in S, NEW b \in S, NEW c \in S
  PROVE  <<a, b, c>> \in Seq(S) /\ <<a, b, c>> # <<>>
OBVIOUS

\* Whichever pattern it is: it is resolved part by part, at once or one after
\* the other, and finds the files of any tree that match it in each part.
THEOREM PathsResolve ==
  ASSUME NEW Names, {"", ".", "..", "a", "b", "file"} \subseteq Names,
         NEW input, input.pattern \in Seq(Names) \ {<<"">>}, IsTree(input.tree, Names)
  PROVE  PathsAreResolved(input)
<1>1. /\ None \in Names /\ Up \in Names /\ "." \in Names
      /\ "a" \in Names /\ "b" \in Names /\ "file" \in Names
  BY Zenon DEF None, Up
<1>2. "b" \notin Steps
  BY Zenon DEF Steps, None, Up
<1>3. input.pattern \in Seq(Names) /\ input.pattern # <<None>>
  BY Zenon DEF None
<1>4. Here \in Seq(Names) /\ Here # <<>>
  BY <1>1, TripleIsASeq, Zenon DEF Here, None
<1>5. Resolves(input.tree, input.pattern, Here, <<"", "else">>, "b", "file")
  BY <1>1, <1>2, <1>3, <1>4, ResolvingPaths, Zenon
<1> QED BY <1>5, Zenon DEF PathsAreResolved, Resolves, FilesLike, Up, None, Star
-----------------------------------------------------------------------------
(* FileTreeLib: what is below what.                                        *)

\* What begins with s has its elements.
LEMMA PrefixIs ==
  ASSUME NEW S, NEW s \in Seq(S), NEW t \in Seq(S)
  PROVE  IsPrefix(s, t) <=> Len(s) <= Len(t) /\ \A i \in 1..Len(s) : s[i] = t[i]
<1>1. SubSeq(s, 1, Len(s)) = s /\ Len(s) \in Nat /\ Len(t) \in Nat
  BY SubSeqFull
<1>2. ASSUME Len(s) <= Len(t)
      PROVE  SubSeq(s, 1, Len(s)) = SubSeq(t, 1, Len(s)) <=> \A i \in 1..Len(s) : s[i] = t[i]
  <2> DEFINE u == SubSeq(t, 1, Len(s))
  <2>1. u \in Seq(S) /\ Len(u) = Len(s) /\ \A i \in 1..Len(s) : u[i] = t[i]
    BY <1>1, <1>2, SubSeqProperties
  <2> HIDE DEF u
  <2>2. s = u <=> \A i \in 1..Len(s) : s[i] = u[i]
    BY <2>1, SeqEqual
  <2>3. SubSeq(s, 1, Len(s)) = u <=> \A i \in 1..Len(s) : s[i] = t[i]
    BY <1>1, <2>1, <2>2
  <2> QED BY <2>3 DEF u
<1> QED BY <1>2 DEF IsPrefix

\* To begin with something is an order.
LEMMA PrefixOrder ==
  ASSUME NEW S, NEW s \in Seq(S), NEW t \in Seq(S), NEW u \in Seq(S)
  PROVE  /\ IsPrefix(s, s)
         /\ IsPrefix(s, t) /\ IsPrefix(t, u) => IsPrefix(s, u)
         /\ IsPrefix(s, u) /\ IsPrefix(t, u) /\ Len(s) <= Len(t) => IsPrefix(s, t)
         /\ IsPrefix(s, t) /\ Len(t) <= Len(s) => s = t
<1>1. Len(s) \in Nat /\ Len(t) \in Nat /\ Len(u) \in Nat
  OBVIOUS
<1>2. IsPrefix(s, s)
  BY <1>1, PrefixIs
<1>3. IsPrefix(s, t) /\ IsPrefix(t, u) => IsPrefix(s, u)
  BY <1>1, PrefixIs
<1>4. IsPrefix(s, u) /\ IsPrefix(t, u) /\ Len(s) <= Len(t) => IsPrefix(s, t)
  BY <1>1, PrefixIs
<1>5. ASSUME IsPrefix(s, t), Len(t) <= Len(s) PROVE s = t
  <2>1. Len(s) = Len(t) /\ \A i \in 1..Len(s) : s[i] = t[i]
    BY <1>1, <1>5, PrefixIs
  <2> QED BY <2>1, SeqEqual
<1> QED BY <1>2, <1>3, <1>4, <1>5

\* What is below something else is below what it lies in.
LEMMA PrefixAndFront ==
  ASSUME NEW S, NEW s \in Seq(S), NEW t \in Seq(S)
  PROVE  /\ t # <<>> => /\ Front(t) \in Seq(S) /\ Len(Front(t)) = Len(t) - 1
                        /\ IsPrefix(Front(t), t) /\ Last(t) \in S
                        /\ t = Append(Front(t), Last(t))
         /\ IsPrefix(s, t) /\ s # t => t # <<>> /\ Len(s) < Len(t) /\ IsPrefix(s, Front(t))
<1>1. Len(s) \in Nat /\ Len(t) \in Nat
  OBVIOUS
<1>2. ASSUME t # <<>>
      PROVE  /\ Front(t) \in Seq(S) /\ Len(Front(t)) = Len(t) - 1
             /\ IsPrefix(Front(t), t) /\ Last(t) \in S
             /\ t = Append(Front(t), Last(t))
  <2>1. /\ Front(t) \in Seq(S) /\ Len(Front(t)) = Len(t) - 1
        /\ \A i \in 1..(Len(t) - 1) : Front(t)[i] = t[i]
        /\ Last(t) = t[Len(t)] /\ Len(t) \in Nat \ {0}
    BY <1>2, FrontAndLast
  <2>2. Last(t) \in S
    BY <2>1
  <2> DEFINE f == Front(t)
             l == Last(t)
  <2>4. /\ f \in Seq(S) /\ l \in S /\ Len(f) = Len(t) - 1 /\ l = t[Len(t)]
        /\ \A i \in 1..(Len(t) - 1) : f[i] = t[i]
    BY <2>1, <2>2
  <2> HIDE DEF f, l
  <2>3. IsPrefix(f, t)
    BY <1>1, <2>1, <2>4, PrefixIs
  <2>5. Append(f, l) \in Seq(S) /\ Len(Append(f, l)) = Len(t)
        /\ \A i \in 1..Len(t) : Append(f, l)[i] = t[i]
    BY <1>1, <2>1, <2>4
  <2>6. Append(f, l) = t
    BY <2>5, SeqEqual
  <2> QED BY <2>1, <2>2, <2>3, <2>6 DEF f, l
<1>3. ASSUME IsPrefix(s, t), s # t PROVE t # <<>> /\ Len(s) < Len(t) /\ IsPrefix(s, Front(t))
  <2>1. Len(s) < Len(t)
    BY <1>1, <1>3, PrefixOrder
  <2>2. t # <<>>
    BY <1>1, <2>1
  <2>3. IsPrefix(s, Front(t))
    <3>1. Front(t) \in Seq(S) /\ Len(Front(t)) = Len(t) - 1 /\ IsPrefix(Front(t), t)
      BY <1>2, <2>2
    <3>2. Len(s) <= Len(Front(t))
      BY <1>1, <2>1, <3>1
    <3> QED BY <1>3, <3>1, <3>2, PrefixOrder
  <2> QED BY <2>1, <2>2, <2>3
<1> QED BY <1>2, <1>3

\* Below src is what begins with it.
LEMMA BelowIs ==
  ASSUME NEW S, NEW src \in Seq(S), NEW p \in Seq(S)
  PROVE  IsPrefix(src, p) <=> \E r \in Seq(S) : p = src \o r
<1>1. Len(src) \in Nat /\ Len(p) \in Nat
  OBVIOUS
<1>2. ASSUME IsPrefix(src, p) PROVE \E r \in Seq(S) : p = src \o r
  <2>1. Len(src) <= Len(p) /\ SubSeq(src, 1, Len(src)) = SubSeq(p, 1, Len(src))
    BY <1>2 DEF IsPrefix
  <2>2. SubSeq(src, 1, Len(src)) = src /\ SubSeq(p, 1, Len(p)) = p
    BY SubSeqFull
  <2> DEFINE r == SubSeq(p, Len(src) + 1, Len(p))
  <2>3. r \in Seq(S)
    BY <1>1, SubSeqProperties
  <2>4. SubSeq(p, 1, Len(src)) \o r = SubSeq(p, 1, Len(p))
    <3>1. 1 \in 1..(Len(p) + 1) /\ Len(src) \in (1 - 1)..Len(p) /\ Len(p) \in Len(src)..Len(p)
      BY <1>1, <2>1
    <3> QED BY <3>1, ConcatAdjacentSubSeq
  <2> HIDE DEF r
  <2>5. p = src \o r
    BY <2>1, <2>2, <2>4
  <2> QED BY <2>3, <2>5
<1>3. ASSUME NEW r \in Seq(S), p = src \o r PROVE IsPrefix(src, p)
  <2>1. Len(src \o r) = Len(src) + Len(r) /\ \A i \in 1..Len(src) : (src \o r)[i] = src[i]
    BY <1>1
  <2>2. Len(src) <= Len(p) /\ \A i \in 1..Len(src) : src[i] = p[i]
    BY <1>1, <1>3, <2>1
  <2> QED BY <2>2, PrefixIs
<1> QED BY <1>2, <1>3

\* The last element of two texts is that of the second.
LEMMA FrontOfConcat ==
  ASSUME NEW S, NEW s \in Seq(S), NEW r \in Seq(S), r # <<>>
  PROVE  s \o r # <<>> /\ Front(s \o r) = s \o Front(r)
<1> DEFINE f == Front(r)
           l == Last(r)
<1>1. f \in Seq(S) /\ l \in S /\ r = Append(f, l)
  BY PrefixAndFront
<1> HIDE DEF f, l
<1>2. <<l>> \in Seq(S) /\ r = f \o <<l>> /\ s \o f \in Seq(S)
  BY <1>1, AppendIsConcat
<1>3. s \o r = (s \o f) \o <<l>>
  BY <1>2, <1>1, ConcatAssociative
<1>4. s \o r = Append(s \o f, l)
  BY <1>1, <1>2, <1>3, AppendIsConcat
<1>5. Append(s \o f, l) # <<>> /\ Front(Append(s \o f, l)) = s \o f
  BY <1>1, <1>2, FrontOfAppend
<1> QED BY <1>4, <1>5 DEF f

\* What is below stays below.
LEMMA MovedConcat ==
  ASSUME NEW S, NEW src \in Seq(S), NEW dest \in Seq(S), NEW r \in Seq(S)
  PROVE  moved(src \o r, src, dest) = dest \o r
<1> DEFINE p == src \o r
           u == SubSeq(p, Len(src) + 1, Len(p))
<1>1. Len(src) \in Nat /\ Len(r) \in Nat /\ p \in Seq(S) /\ Len(p) = Len(src) + Len(r)
  OBVIOUS
<1>2. \A i \in 1..Len(r) : p[Len(src) + i] = r[i]
  BY <1>1
<1> HIDE DEF p
<1>3. u \in Seq(S) /\ Len(u) = Len(r) /\ \A i \in 1..Len(r) : u[i] = r[i]
  <2>1. /\ u \in Seq(S) /\ \A i \in 1..(Len(p) - (Len(src) + 1) + 1) : u[i] = p[(Len(src) + 1) + i - 1]
        /\ Len(u) = (IF Len(src) + 1 <= Len(p) THEN Len(p) - (Len(src) + 1) + 1 ELSE 0)
    BY <1>1, SubSeqProperties
  <2> HIDE DEF u
  <2>2. Len(u) = Len(r) /\ Len(p) - (Len(src) + 1) + 1 = Len(r)
    BY <1>1, <2>1
  <2>3. \A i \in 1..Len(r) : (Len(src) + 1) + i - 1 = Len(src) + i
    BY <1>1
  <2> QED BY <1>2, <2>1, <2>2, <2>3
<1>4. u = r
  <2> HIDE DEF u
  <2> QED BY <1>3, SeqEqual
<1> QED BY <1>4 DEF moved, p

\* Where a file below src is moved to.
LEMMA MovedIsBelow ==
  ASSUME NEW S, NEW src \in Seq(S), NEW dest \in Seq(S), dest # <<>>, NEW p \in Seq(S), IsPrefix(src, p)
  PROVE  /\ moved(p, src, dest) \in Seq(S) /\ moved(p, src, dest) # <<>>
         /\ IsPrefix(dest, moved(p, src, dest))
         /\ p = src => moved(p, src, dest) = dest
         /\ p # src => /\ p # <<>> /\ IsPrefix(src, Front(p))
                       /\ Front(moved(p, src, dest)) = moved(Front(p), src, dest)
         /\ \A q \in Seq(S) : IsPrefix(src, q) /\ moved(q, src, dest) = moved(p, src, dest) => q = p
<1>1. PICK r \in Seq(S) : p = src \o r
  BY BelowIs
<1>2. moved(p, src, dest) = dest \o r
  BY <1>1, MovedConcat
<1>3. dest \o r \in Seq(S) /\ dest \o r # <<>> /\ IsPrefix(dest, dest \o r)
  <2>1. dest \o r \in Seq(S)
    OBVIOUS
  <2>2. dest \o r # <<>>
    BY ConcatEqualIffEmpty
  <2>3. IsPrefix(dest, dest \o r)
    BY <2>1, BelowIs
  <2> QED BY <2>1, <2>2, <2>3
<1>4. ASSUME p = src PROVE dest \o r = dest
  <2>1. src \o r = src
    BY <1>1, <1>4, Zenon
  <2>2. r = <<>>
    BY <2>1, ConcatSimplifications, Zenon
  <2> QED BY <2>2, ConcatEmptySeq
<1>5. ASSUME p # src PROVE p # <<>> /\ IsPrefix(src, Front(p)) /\ Front(dest \o r) = moved(Front(p), src, dest)
  <2>1. r # <<>>
    BY <1>1, <1>5, ConcatEmptySeq
  <2>2. Front(r) \in Seq(S)
    BY <2>1, PrefixAndFront
  <2>3. p # <<>> /\ Front(p) = src \o Front(r)
    BY <1>1, <2>1, FrontOfConcat
  <2>4. Front(dest \o r) = dest \o Front(r)
    BY <2>1, FrontOfConcat
  <2>5. moved(src \o Front(r), src, dest) = dest \o Front(r)
    BY <2>2, MovedConcat
  <2>6. IsPrefix(src, Front(p))
    BY <1>5, PrefixAndFront
  <2> QED BY <2>3, <2>4, <2>5, <2>6
<1>6. ASSUME NEW q \in Seq(S), IsPrefix(src, q), moved(q, src, dest) = dest \o r PROVE q = p
  <2>0. IsPrefix(src, q)
    BY <1>6, Zenon
  <2>1. PICK u \in Seq(S) : q = src \o u
    BY <2>0, BelowIs, Zenon
  <2>2. dest \o u = dest \o r
    BY <1>6, <2>1, MovedConcat
  <2>3. u = r
    BY <2>2, ConcatSimplifications, Zenon
  <2> QED BY <1>1, <2>1, <2>3
<1> QED BY <1>2, <1>3, <1>4, <1>5, <1>6
-----------------------------------------------------------------------------
(* FileTreeLib: what a walk has listed.                                    *)

Kinds == {"dir", "file"}

IsFileTree(tree, Names) ==
  /\ IsTree(tree, Names)
  /\ IsFiniteSet(DOMAIN tree)
  /\ tree \in [DOMAIN tree -> Kinds]

\* Two of the steps are files that get_dir() lists.
LEMMA SpecialIs == Special \subseteq Steps /\ None \notin Special
BY Zenon DEF Special, Steps, Up, None

\* Where there is a file, there are the directories above.
LEMMA TreeIsWhole ==
  ASSUME NEW Names, NEW tree, IsTree(tree, Names),
         NEW p \in DOMAIN tree, NEW q \in Seq(Names), q # <<>>, IsPrefix(q, p)
  PROVE  q \in DOMAIN tree /\ (q # p => tree[q] = "dir")
<1> DEFINE n == Len(p)
           Good(u) == q \in DOMAIN tree /\ (q # u => tree[q] = "dir")
           T == {k \in 0..n : \A u \in DOMAIN tree : IsPrefix(q, u) /\ Len(u) = Len(q) + k => Good(u)}
<1>1. DOMAIN tree \subseteq Seq(Names) /\ Len(q) \in Nat \ {0} /\ n \in Nat
  BY DEF IsTree
<1>2. 0 \in T
  <2>1. ASSUME NEW u \in DOMAIN tree, IsPrefix(q, u), Len(u) = Len(q) + 0 PROVE u = q
    BY <1>1, <2>1, PrefixOrder
  <2>2. 0 \in 0..n
    BY <1>1
  <2> HIDE DEF n
  <2> QED BY <2>1, <2>2
<1>3. ASSUME NEW k \in 0..(n - 1), k \in T PROVE k + 1 \in T
  <2>1. ASSUME NEW u \in DOMAIN tree, IsPrefix(q, u), Len(u) = Len(q) + (k + 1) PROVE Good(u)
    <3>1. u \in Seq(Names) /\ q # u
      BY <1>1, <2>1
    <3>2. /\ u # <<>> /\ IsPrefix(q, Front(u)) /\ Front(u) \in Seq(Names) /\ Len(Front(u)) = Len(q) + k
      BY <1>1, <2>1, <3>1, PrefixAndFront
    <3>3. u # <<None>>
      <4>1. Len(<<None>>) = 1
        OBVIOUS
      <4>2. Len(u) # 1
        BY <1>1, <2>1
      <4> QED BY <4>1, <4>2
    <3>4. Front(u) \in DOMAIN tree /\ tree[Front(u)] = "dir"
      BY <3>3 DEF IsTree
    <3>5. Good(Front(u))
      BY <1>3, <3>2, <3>4
    <3> QED BY <3>4, <3>5
  <2>2. k + 1 \in 0..n
    BY <1>1
  <2> HIDE DEF n, Good
  <2> QED BY <2>1, <2>2
<1>4. \A k \in 0..n : k \in T
  <2> HIDE DEF T, n
  <2> QED BY <1>1, <1>2, <1>3, UpTo
<1>5. p \in Seq(Names) /\ Len(q) <= Len(p)
  BY <1>1, PrefixIs
<1>6. n - Len(q) \in 0..n /\ Len(p) = Len(q) + (n - Len(q))
  BY <1>1, <1>5
<1>7. n - Len(q) \in T
  <2> HIDE DEF T
  <2> QED BY <1>4, <1>6
<1>8. Good(p)
  <2> HIDE DEF Good, n
  <2> QED BY <1>6, <1>7
<1> QED BY <1>8

\* What is listed is a file of the tree, or special and not in it.
LEMMA EntriesAre ==
  ASSUME NEW Names, Special \subseteq Names, NEW tree, IsTree(tree, Names)
  PROVE  /\ Entries(tree) \subseteq Seq(Names)
         /\ \A e \in Entries(tree) : e # <<>> /\ (is_special_dir(e) <=> e \notin DOMAIN tree)
         /\ \A d \in DOMAIN tree, s \in Special :
              /\ Append(d, s) \in Entries(tree) \ DOMAIN tree
              /\ Front(Append(d, s)) = d
<1>1. DOMAIN tree \subseteq Seq(Names)
  BY DEF IsTree
<1>2. ASSUME NEW e \in DOMAIN tree PROVE e # <<>> /\ ~ is_special_dir(e)
  <2>1. e # <<>>
    BY DEF IsTree
  <2>2. CASE e = <<None>>
    <3>1. Last(e) = None
      BY <2>2 DEF Last
    <3> QED BY <2>1, <3>1, SpecialIs DEF is_special_dir
  <2>3. CASE e # <<None>>
    BY <2>1, <2>3, SpecialIsAStep DEF IsTree
  <2> QED BY <2>2, <2>3
<1>3. ASSUME NEW d \in DOMAIN tree, NEW s \in Special
      PROVE  /\ Append(d, s) \in Seq(Names) /\ Append(d, s) # <<>> /\ Front(Append(d, s)) = d
             /\ is_special_dir(Append(d, s)) /\ Append(d, s) \in Entries(tree)
  <2>1. d \in Seq(Names) /\ s \in Names
    BY <1>1
  <2>2. Append(d, s) # <<>> /\ Front(Append(d, s)) = d /\ Last(Append(d, s)) = s
    BY <2>1, FrontOfAppend
  <2>3. Append(d, s) \in Seq(Names)
    BY <2>1
  <2>4. Append(d, s) \in Entries(tree)
    <3>1. <<d, s>> \in (DOMAIN tree) \X Special /\ <<d, s>>[1] = d /\ <<d, s>>[2] = s
      OBVIOUS
    <3> QED BY <3>1, Zenon DEF Entries
  <2> QED BY <2>2, <2>3, <2>4 DEF is_special_dir
<1>4. ASSUME NEW e \in Entries(tree), e \notin DOMAIN tree
      PROVE  \E d \in DOMAIN tree, s \in Special : e = Append(d, s)
  <2>1. PICK b \in (DOMAIN tree) \X Special : e = Append(b[1], b[2])
    BY <1>4 DEF Entries
  <2>2. b[1] \in DOMAIN tree /\ b[2] \in Special
    BY <2>1
  <2> QED BY <2>1, <2>2
<1>5. Entries(tree) \subseteq Seq(Names)
  BY <1>1, <1>3, <1>4
<1>6. \A e \in Entries(tree) : e # <<>> /\ (is_special_dir(e) <=> e \notin DOMAIN tree)
  <2>1. ASSUME NEW e \in Entries(tree), e \notin DOMAIN tree PROVE e # <<>> /\ is_special_dir(e)
    BY <1>3, <1>4, <2>1, Zenon
  <2> QED BY <1>2, <2>1, Zenon
<1>7. \A d \in DOMAIN tree, s \in Special : Append(d, s) \notin DOMAIN tree
  BY <1>2, <1>3
<1> QED BY <1>3, <1>5, <1>6, <1>7

\* There are finitely many.
LEMMA EntriesAreFinite ==
  ASSUME NEW tree, IsFiniteSet(DOMAIN tree)
  PROVE  IsFiniteSet(Entries(tree)) /\ Cardinality(Entries(tree)) \in Nat
<1> DEFINE D == (DOMAIN tree) \X Special
           more == {Append(d[1], d[2]) : d \in D}
           f == [d \in D |-> Append(d[1], d[2])]
<1>1. IsFiniteSet(Special)
  <2>1. IsFiniteSet({"."}) /\ IsFiniteSet({".."})
    BY FS_Singleton
  <2>2. Special = {"."} \cup {".."}
    BY DEF Special
  <2> QED BY <2>1, <2>2, FS_Union
<1>2. IsFiniteSet(D)
  BY <1>1, FS_Product
<1>3. f \in Surjection(D, more)
  <2> HIDE DEF D
  <2>1. f \in [D -> more] /\ \A e \in more : \E d \in D : f[d] = e
    OBVIOUS
  <2> HIDE DEF f, more
  <2> QED BY <2>1, Zenon DEF Surjection
<1>4. IsFiniteSet(more)
  <2> HIDE DEF D, more, f
  <2> QED BY <1>2, <1>3, FS_Surjection
<1>5. Entries(tree) = DOMAIN tree \cup more
  BY DEF Entries
<1> HIDE DEF more
<1>6. IsFiniteSet(Entries(tree))
  BY <1>4, <1>5, FS_Union
<1> QED BY <1>6, FS_CardinalityType

\* A set as a sequence.
LEMMA SetAsSequence ==
  ASSUME NEW S, IsFiniteSet(S)
  PROVE  /\ SetToSeq(S) \in Seq(S)
         /\ \A e \in S : \E i \in DOMAIN SetToSeq(S) : SetToSeq(S)[i] = e
         /\ \A i, j \in DOMAIN SetToSeq(S) : SetToSeq(S)[i] = SetToSeq(S)[j] => i = j
<1> DEFINE n == Cardinality(S)
           f == SetToSeq(S)
<1>1. n \in Nat /\ ExistsBijection(1..n, S)
  BY FS_CardinalityType
<1>2. \E g \in [1..n -> S] : IsInjective(g)
  BY <1>1, Zenon DEF ExistsBijection, Bijection, Injection
<1>3. f \in [1..n -> S] /\ IsInjective(f)
  <2>1. f = CHOOSE g \in [1..n -> S] : IsInjective(g)
    BY DEF SetToSeq
  <2> HIDE DEF f, n
  <2> QED BY <1>2, <2>1, Zenon
<1>4. f \in Injection(1..n, S)
  BY <1>3, Zenon DEF Injection
<1>5. IsFiniteSet(1..n) /\ Cardinality(1..n) = n
  BY <1>1, FS_Interval
<1>6. f \in Surjection(1..n, S)
  <2> HIDE DEF f
  <2> QED BY <1>4, <1>5, FS_Injection
<1>7. \A e \in S : \E i \in 1..n : f[i] = e
  BY <1>6, Zenon DEF Surjection
<1>8. DOMAIN f = 1..n /\ f \in Seq(S)
  <2> HIDE DEF f, n
  <2> QED BY <1>1, <1>3
<1> HIDE DEF f, n
<1>9. \A i, j \in DOMAIN f : f[i] = f[j] => i = j
  BY <1>3, Zenon DEF IsInjective
<1>10. \A e \in S : \E i \in DOMAIN f : f[i] = e
  BY <1>7, <1>8
<1> QED BY <1>8, <1>9, <1>10 DEF f

\* What is still to be come to.
Coming(tree, todo) == {e \in Entries(tree) : \E i \in DOMAIN todo : IsPrefix(todo[i], e)}

\* What is listed is below src, and nothing in it is below anything else.
IsTodo(tree, src, todo) ==
  /\ todo \in Seq(Entries(tree))
  /\ \A i \in DOMAIN todo : IsPrefix(src, todo[i])
  /\ \A i, j \in DOMAIN todo : i # j => ~ IsPrefix(todo[i], todo[j])

\* What is listed of the file x.
IsListing(tree, x, inside) ==
  /\ inside \in Seq(Entries(tree))
  /\ \A j \in DOMAIN inside : Front(inside[j]) = x
  /\ \A j, k \in DOMAIN inside : inside[j] = inside[k] => j = k
  /\ \A p \in DOMAIN tree : p # x /\ IsPrefix(x, p) => \E j \in DOMAIN inside : IsPrefix(inside[j], p)

\* What is come to next: what was just listed, and then the rest.
Continues(next, inside, todo) ==
  /\ 1 \in DOMAIN todo /\ Head(todo) = todo[1]
  /\ \A i \in DOMAIN inside : i \in DOMAIN next /\ next[i] = inside[i]
  /\ \A m \in DOMAIN todo \ {1} : \E i \in DOMAIN next : next[i] = todo[m]
  /\ \A i \in DOMAIN next :
       \/ i \in DOMAIN inside
       \/ /\ i - Len(inside) + 1 \in DOMAIN todo \ {1}
          /\ next[i] = todo[i - Len(inside) + 1]

\* So it is for any two lists.
LEMMA NextTodo ==
  ASSUME NEW S, NEW todo \in Seq(S), todo # <<>>, NEW inside \in Seq(S)
  PROVE  inside \o Tail(todo) \in Seq(S) /\ Continues(inside \o Tail(todo), inside, todo)
<1> DEFINE next == inside \o Tail(todo)
<1>1. /\ Len(todo) \in Nat \ {0} /\ Len(inside) \in Nat /\ DOMAIN todo = 1..Len(todo)
      /\ DOMAIN inside = 1..Len(inside) /\ Tail(todo) \in Seq(S) /\ Len(Tail(todo)) = Len(todo) - 1
      /\ Head(todo) = todo[1]
      /\ \A m \in 1..(Len(todo) - 1) : Tail(todo)[m] = todo[m + 1]
  OBVIOUS
<1>2. next \in Seq(S) /\ DOMAIN next = 1..(Len(inside) + (Len(todo) - 1))
  BY <1>1
<1>3. \A i \in 1..Len(inside) : next[i] = inside[i]
  BY <1>1
<1>4. ASSUME NEW m \in 1..(Len(todo) - 1) PROVE next[Len(inside) + m] = todo[m + 1]
  <2>1. next[Len(inside) + m] = Tail(todo)[m]
    BY <1>1
  <2> QED BY <1>1, <2>1
<1> HIDE DEF next
<1>5. ASSUME NEW m \in DOMAIN todo \ {1} PROVE \E i \in DOMAIN next : next[i] = todo[m]
  <2>1. m - 1 \in 1..(Len(todo) - 1) /\ (m - 1) + 1 = m /\ Len(inside) + (m - 1) \in DOMAIN next
    BY <1>1, <1>2
  <2> QED BY <1>4, <2>1
<1>6. ASSUME NEW i \in DOMAIN next, i \notin DOMAIN inside
      PROVE  /\ i - Len(inside) + 1 \in DOMAIN todo \ {1}
           /\ next[i] = todo[i - Len(inside) + 1]
  <2>1. i - Len(inside) \in 1..(Len(todo) - 1) /\ Len(inside) + (i - Len(inside)) = i
    BY <1>1, <1>2, <1>6
  <2> QED BY <1>1, <1>4, <2>1
<1>7. \A i \in DOMAIN inside : i \in DOMAIN next /\ next[i] = inside[i]
  BY <1>1, <1>2, <1>3
<1> QED BY <1>1, <1>2, <1>5, <1>6, <1>7 DEF Continues, next

\* One call of _traverse() comes to one file, and lists what lies in it.
LEMMA TodoStep ==
  ASSUME NEW Names, Special \subseteq Names, NEW tree, IsTree(tree, Names), NEW src \in Seq(Names),
         NEW todo, IsTodo(tree, src, todo), todo # <<>>, NEW inside, IsListing(tree, Head(todo), inside)
  PROVE  LET x == Head(todo)
             next == inside \o Tail(todo)
         IN  /\ x \in Entries(tree) /\ IsPrefix(src, x) /\ x \in Coming(tree, todo)
             /\ IsTodo(tree, src, next)
             /\ Coming(tree, next) \subseteq Coming(tree, todo) \ {x}
             /\ \A p \in DOMAIN tree : p \in Coming(tree, next) <=> p \in Coming(tree, todo) /\ p # x
<1> DEFINE E == Entries(tree)
           x == Head(todo)
           next == inside \o Tail(todo)
<1>1. E \subseteq Seq(Names) /\ \A e \in E : e # <<>>
  BY EntriesAre
<1>2. todo \in Seq(E) /\ inside \in Seq(E)
  BY DEF IsTodo, IsListing
<1>3. next \in Seq(E) /\ x = Head(todo) /\ Continues(next, inside, todo)
  <2> HIDE DEF E
  <2> QED BY <1>2, NextTodo
<1> USE DEF Continues
<1>4. x \in E /\ x \in Seq(Names) /\ IsPrefix(src, x) /\ IsPrefix(x, x)
  <2>1. todo[1] \in E /\ IsPrefix(src, todo[1])
    BY <1>2, <1>3 DEF IsTodo
  <2> HIDE DEF E, x
  <2> QED BY <1>1, <1>3, <2>1, PrefixOrder
<1>5. ASSUME NEW j \in DOMAIN inside
      PROVE  /\ inside[j] \in E /\ inside[j] \in Seq(Names) /\ Front(inside[j]) = x
             /\ Len(inside[j]) = Len(x) + 1 /\ IsPrefix(x, inside[j])
  <2>1. inside[j] \in E /\ Front(inside[j]) = x
    BY <1>2 DEF IsListing
  <2> DEFINE e == inside[j]
  <2>2. e \in E /\ e \in Seq(Names) /\ e # <<>> /\ Front(e) = x
    BY <1>1, <2>1
  <2> HIDE DEF e, E
  <2>3. Len(x) = Len(e) - 1 /\ IsPrefix(x, e)
    BY <2>2, PrefixAndFront
  <2>4. Len(e) \in Nat
    BY <2>2
  <2>5. Len(e) = Len(x) + 1
    <3> HIDE DEF x
    <3> QED BY <2>3, <2>4
  <2> QED BY <2>2, <2>3, <2>5 DEF e
<1>6. ASSUME NEW m \in DOMAIN todo \ {1}
      PROVE  todo[m] \in E /\ todo[m] \in Seq(Names) /\ ~ IsPrefix(x, todo[m]) /\ ~ IsPrefix(todo[m], x)
  <2>1. todo[m] \in E /\ m \in DOMAIN todo
    BY <1>2
  <2> HIDE DEF E, x
  <2> QED BY <1>1, <1>3, <2>1 DEF IsTodo
<1>7. \A i \in DOMAIN next : next[i] \in E /\ next[i] \in Seq(Names)
  <2> HIDE DEF next, E, x
  <2> QED BY <1>3, <1>5, <1>6
<1> HIDE DEF E, next, x
<1>8. \A i \in DOMAIN next : IsPrefix(src, next[i])
  <2>1. ASSUME NEW i \in DOMAIN inside PROVE IsPrefix(src, inside[i])
    BY <1>4, <1>5, PrefixOrder
  <2>2. ASSUME NEW m \in DOMAIN todo PROVE IsPrefix(src, todo[m])
    BY DEF IsTodo
  <2> QED BY <1>3, <2>1, <2>2
<1>9. ASSUME NEW j \in DOMAIN inside, NEW m \in DOMAIN todo \ {1}
      PROVE  ~ IsPrefix(inside[j], todo[m]) /\ ~ IsPrefix(todo[m], inside[j])
  <2>1. ~ IsPrefix(inside[j], todo[m])
    BY <1>4, <1>5, <1>6, PrefixOrder
  <2>2. ~ IsPrefix(todo[m], inside[j])
    <3>1. todo[m] = inside[j] \/ ~ IsPrefix(todo[m], inside[j])
      BY <1>5, <1>6, PrefixAndFront
    <3> QED BY <1>5, <1>6, <3>1
  <2> QED BY <2>1, <2>2
<1>10. ASSUME NEW j \in DOMAIN inside, NEW k \in DOMAIN inside, j # k
       PROVE  ~ IsPrefix(inside[j], inside[k])
  <2>1. inside[j] # inside[k]
    BY <1>10 DEF IsListing
  <2>2. Len(inside[k]) <= Len(inside[j])
    <3>1. Len(x) \in Nat
      BY <1>4
    <3> QED BY <1>5, <3>1
  <2> QED BY <1>5, <2>1, <2>2, PrefixOrder
<1>11. ASSUME NEW i \in DOMAIN next, NEW k \in DOMAIN next, i # k PROVE ~ IsPrefix(next[i], next[k])
  <2> DEFINE a == i - Len(inside) + 1
             b == k - Len(inside) + 1
  <2>1. i \in DOMAIN inside => next[i] = inside[i]
    BY <1>3
  <2>2. k \in DOMAIN inside => next[k] = inside[k]
    BY <1>3
  <2>3. i \notin DOMAIN inside => a \in DOMAIN todo \ {1} /\ next[i] = todo[a]
    BY <1>3
  <2>4. k \notin DOMAIN inside => b \in DOMAIN todo \ {1} /\ next[k] = todo[b]
    BY <1>3
  <2>5. a # b
    <3>1. i \in Int /\ k \in Int /\ Len(inside) \in Int
      BY <1>2, <1>3
    <3> QED BY <1>11, <3>1
  <2> HIDE DEF a, b
  <2>6. a \in DOMAIN todo /\ b \in DOMAIN todo => ~ IsPrefix(todo[a], todo[b])
    BY <2>5 DEF IsTodo
  <2> QED BY <1>9, <1>10, <1>11, <2>1, <2>2, <2>3, <2>4, <2>6
<1>12. IsTodo(tree, src, next)
  BY <1>3, <1>8, <1>11 DEF IsTodo, E
<1>13. x \in Coming(tree, todo)
  BY <1>3, <1>4 DEF Coming, E
<1>14. ASSUME NEW e \in Coming(tree, next) PROVE e \in Coming(tree, todo) /\ e # x
  <2>1. PICK i \in DOMAIN next : IsPrefix(next[i], e)
    BY <1>14 DEF Coming
  <2>2. e \in E /\ e \in Seq(Names)
    BY <1>1, <1>14 DEF Coming, E
  <2>3. CASE i \in DOMAIN inside
    <3>1. next[i] = inside[i] /\ IsPrefix(inside[i], e)
      BY <1>3, <2>1, <2>3
    <3>2. IsPrefix(x, e)
      BY <1>4, <1>5, <2>2, <2>3, <3>1, PrefixOrder
    <3>3. Len(inside[i]) <= Len(e) /\ Len(inside[i]) = Len(x) + 1 /\ Len(x) \in Nat
      BY <1>4, <1>5, <2>2, <2>3, <3>1, PrefixIs
    <3>4. e # x
      <4> SUFFICES ASSUME e = x PROVE FALSE
        OBVIOUS
      <4> QED BY <3>3
    <3> QED BY <1>3, <2>2, <3>2, <3>4 DEF Coming, E
  <2>4. CASE i \notin DOMAIN inside
    <3>1. PICK m \in DOMAIN todo \ {1} : next[i] = todo[m]
      BY <1>3, <2>4
    <3>2. e # x
      BY <1>6, <2>1, <3>1
    <3> QED BY <2>1, <2>2, <3>1, <3>2 DEF Coming, E
  <2> QED BY <2>3, <2>4
<1>15. ASSUME NEW p \in DOMAIN tree, p \in Coming(tree, todo), p # x PROVE p \in Coming(tree, next)
  <2>1. PICK m \in DOMAIN todo : IsPrefix(todo[m], p)
    BY <1>15 DEF Coming
  <2>2. \E i \in DOMAIN next : IsPrefix(next[i], p)
    <3>1. CASE m = 1
      <4>1. IsPrefix(x, p)
        BY <1>3, <2>1, <3>1
      <4>2. PICK j \in DOMAIN inside : IsPrefix(inside[j], p)
        BY <1>15, <4>1 DEF IsListing, x
      <4> QED BY <1>3, <4>2
    <3>2. CASE m # 1
      BY <1>3, <2>1, <3>2
    <3> QED BY <3>1, <3>2
  <2> QED BY <1>15, <2>2 DEF Coming
<1> QED BY <1>4, <1>12, <1>13, <1>14, <1>15 DEF x, next, E
-----------------------------------------------------------------------------
(* FileTreeLib: what a walk has copied.                                    *)

\* There is something to copy, and nothing where it is copied to.
CanCopy(tree, src, dest, Names) ==
  /\ Special \subseteq Names
  /\ IsFileTree(tree, Names)
  /\ src \in DOMAIN tree
  /\ dest \in Seq(Names) /\ dest # <<>>
  /\ HasDir(tree, Front(dest)) /\ Below(tree, dest) = {} /\ ~ IsPrefix(src, dest)

\* The tree with copies of what is done.
IsCopy(t, tree, src, dest, done) ==
  /\ t \in [(DOMAIN tree) \cup {moved(p, src, dest) : p \in done} -> Kinds]
  /\ \A p \in DOMAIN tree : t[p] = tree[p]
  /\ \A p \in done : t[moved(p, src, dest)] = tree[p]

\* A copy is no file that was there before.
LEMMA CopyIsNew ==
  ASSUME NEW tree, NEW src, NEW dest, NEW Names, CanCopy(tree, src, dest, Names)
  PROVE  /\ DOMAIN tree \subseteq Seq(Names) /\ src \in Seq(Names)
         /\ \A p \in Seq(Names) : IsPrefix(dest, p) => p \notin DOMAIN tree
<1>1. DOMAIN tree \subseteq Seq(Names)
  BY DEF CanCopy, IsFileTree, IsTree
<1>2. \A p \in DOMAIN tree : ~ IsPrefix(dest, p)
  BY DEF CanCopy, Below
<1> QED BY <1>1, <1>2 DEF CanCopy

\* A file is copied once the directory above it is.
LEMMA CopyStep ==
  ASSUME NEW tree, NEW src, NEW dest, NEW Names, CanCopy(tree, src, dest, Names),
         NEW done \in SUBSET Below(tree, src), NEW t, IsCopy(t, tree, src, dest, done),
         NEW x \in Below(tree, src) \ done, x # src => Front(x) \in done
  PROVE  IsCopy(copy_one(t, x, moved(x, src, dest)), tree, src, dest, done \cup {x})
<1> DEFINE to == moved(x, src, dest)
           D == (DOMAIN tree) \cup {moved(p, src, dest) : p \in done}
           made == copy_one(t, x, to)
<1>1. /\ DOMAIN tree \subseteq Seq(Names) /\ src \in Seq(Names) /\ dest \in Seq(Names) /\ dest # <<>>
      /\ IsTree(tree, Names) /\ tree \in [DOMAIN tree -> Kinds] /\ Special \subseteq Names
  BY CopyIsNew DEF CanCopy, IsFileTree
<1>2. x \in DOMAIN tree /\ x \in Seq(Names) /\ IsPrefix(src, x) /\ x \notin done
  BY <1>1 DEF Below
<1>3. \A p \in done : p \in DOMAIN tree /\ p \in Seq(Names) /\ IsPrefix(src, p)
  BY <1>1 DEF Below
<1>4. t \in [D -> Kinds] /\ \A p \in DOMAIN tree : t[p] = tree[p]
  BY DEF IsCopy
<1>5. /\ to \in Seq(Names) /\ to # <<>> /\ IsPrefix(dest, to)
      /\ x = src => to = dest
      /\ x # src => x # <<>> /\ IsPrefix(src, Front(x)) /\ Front(to) = moved(Front(x), src, dest)
      /\ \A q \in Seq(Names) : IsPrefix(src, q) /\ moved(q, src, dest) = to => q = x
  BY <1>1, <1>2, MovedIsBelow
<1> HIDE DEF to
<1>6. to \notin DOMAIN tree
  BY <1>5, CopyIsNew
<1>7. to \notin D
  <2>1. \A p \in done : moved(p, src, dest) # to
    BY <1>2, <1>3, <1>5
  <2> QED BY <1>6, <2>1
<1>8. HasDir(t, Front(to))
  <2>1. CASE x = src
    <3>1. HasDir(tree, Front(dest))
      BY DEF CanCopy
    <3>2. Front(dest) \in DOMAIN tree /\ tree[Front(dest)] = "dir"
      BY <3>1 DEF HasDir
    <3>3. Front(dest) \in DOMAIN t /\ t[Front(dest)] = "dir"
      BY <1>4, <3>2
    <3> QED BY <1>5, <2>1, <3>3 DEF HasDir
  <2>2. CASE x # src
    <3> DEFINE f == Front(x)
    <3>1. f \in done /\ IsPrefix(src, f) /\ Front(to) = moved(f, src, dest)
      BY <1>5, <2>2
    <3>2. f # x
      BY <1>2, <3>1
    <3>3. f \in DOMAIN tree /\ f \in Seq(Names) /\ f # <<>>
      BY <1>1, <1>3, <3>1 DEF IsTree
    <3>4. IsPrefix(f, x)
      BY <1>2, <1>5, <2>2, PrefixAndFront
    <3> HIDE DEF f
    <3>5. tree[f] = "dir"
      BY <1>1, <1>2, <3>2, <3>3, <3>4, TreeIsWhole
    <3>6. t[moved(f, src, dest)] = "dir"
      BY <3>1, <3>5 DEF IsCopy
    <3>7. moved(f, src, dest) \in DOMAIN t
      BY <1>4, <3>1
    <3> QED BY <3>1, <3>6, <3>7 DEF HasDir
  <2> QED BY <2>1, <2>2
<1>9. ~ is_special_dir(x)
  <2>1. x \in Entries(tree)
    BY <1>2 DEF Entries
  <2> QED BY <1>1, <1>2, <2>1, EntriesAre
<1>10. made = [p \in (DOMAIN t) \cup {to} |-> t[IF p = to THEN x ELSE p]]
  <2>1. to \notin DOMAIN t
    BY <1>4, <1>7
  <2> QED BY <1>8, <1>9, <2>1 DEF copy_one
<1>11. t[x] = tree[x] /\ tree[x] \in Kinds
  BY <1>1, <1>2, <1>4
<1> HIDE DEF made
<1>12. /\ made \in [D \cup {to} -> Kinds] /\ made[to] = tree[x] /\ \A p \in D : made[p] = t[p]
  <2> HIDE DEF D
  <2>1. made = [p \in D \cup {to} |-> t[IF p = to THEN x ELSE p]]
    <3>1. DOMAIN t = D
      BY <1>4
    <3> QED BY <1>10, <3>1
  <2>2. x \in D
    <3>1. DOMAIN tree \subseteq D
      BY DEF D
    <3> QED BY <1>2, <3>1
  <2> QED BY <1>4, <1>7, <1>11, <2>1, <2>2
<1>13. D \cup {to} = (DOMAIN tree) \cup {moved(p, src, dest) : p \in done \cup {x}}
  BY DEF to
<1>14. \A p \in DOMAIN tree : made[p] = tree[p]
  BY <1>4, <1>12
<1>15. ASSUME NEW p \in done \cup {x} PROVE made[moved(p, src, dest)] = tree[p]
  <2>1. CASE p = x
    BY <1>12, <2>1 DEF to
  <2>2. CASE p \in done
    <3>1. moved(p, src, dest) \in D /\ t[moved(p, src, dest)] = tree[p]
      BY <2>2 DEF IsCopy
    <3> QED BY <1>12, <3>1
  <2> QED BY <2>1, <2>2
<1>16. made \in [(DOMAIN tree) \cup {moved(p, src, dest) : p \in done \cup {x}} -> Kinds]
  <2> HIDE DEF D
  <2> QED BY <1>12, <1>13
<1>17. IsCopy(made, tree, src, dest, done \cup {x})
  <2> HIDE DEF D
  <2> QED BY <1>14, <1>15, <1>16 DEF IsCopy
<1> QED BY <1>17 DEF made, to

\* Copies are not among what is listed.
LEMMA CopiesAreNotListed ==
  ASSUME NEW tree, NEW src, NEW dest, NEW Names, CanCopy(tree, src, dest, Names),
         NEW done \in SUBSET Below(tree, src), NEW t, IsCopy(t, tree, src, dest, done),
         NEW x \in Below(tree, src)
  PROVE  get_dir(t, x, "*") = {p \in DOMAIN tree : p # <<None>> /\ Front(p) = x}
                                \cup {Append(x, s) : s \in Special}
<1> DEFINE D == (DOMAIN tree) \cup {moved(p, src, dest) : p \in done}
<1>1. /\ DOMAIN tree \subseteq Seq(Names) /\ src \in Seq(Names) /\ dest \in Seq(Names) /\ dest # <<>>
  BY CopyIsNew DEF CanCopy
<1>2. x \in DOMAIN tree /\ x \in Seq(Names) /\ IsPrefix(src, x)
  BY <1>1 DEF Below
<1>3. DOMAIN t = D
  BY DEF IsCopy
<1>4. ASSUME NEW q \in done PROVE Front(moved(q, src, dest)) # x
  <2>1. q \in Seq(Names) /\ IsPrefix(src, q)
    BY <1>1 DEF Below
  <2>2. CASE q = src
    <3>1. moved(q, src, dest) = dest
      BY <1>1, <2>1, <2>2, MovedIsBelow
    <3>2. IsPrefix(Front(dest), dest) /\ Front(dest) \in Seq(Names)
      BY <1>1, PrefixAndFront
    <3>3. ASSUME Front(dest) = x PROVE FALSE
      <4>1. IsPrefix(src, dest)
        BY <1>1, <1>2, <3>2, <3>3, PrefixOrder
      <4> QED BY <4>1 DEF CanCopy
    <3> QED BY <3>1, <3>3
  <2>3. CASE q # src
    <3>1. q # <<>> /\ IsPrefix(src, Front(q)) /\ Front(moved(q, src, dest)) = moved(Front(q), src, dest)
      BY <1>1, <2>1, <2>3, MovedIsBelow
    <3>2. Front(q) \in Seq(Names)
      BY <2>1, <3>1, PrefixAndFront
    <3>3. moved(Front(q), src, dest) \in Seq(Names) /\ IsPrefix(dest, moved(Front(q), src, dest))
      BY <1>1, <3>1, <3>2, MovedIsBelow
    <3> QED BY <1>2, <3>1, <3>3, CopyIsNew
  <2> QED BY <2>2, <2>3
<1>5. {p \in DOMAIN t : p # <<None>> /\ Front(p) = x} = {p \in DOMAIN tree : p # <<None>> /\ Front(p) = x}
  BY <1>3, <1>4
<1>6. {s \in Special : x \in DOMAIN t} = Special
  BY <1>2, <1>3
<1>7. get_dir(t, x, Star) = {p \in DOMAIN t : p # <<None>> /\ Front(p) = x /\ Star \in {Star, Last(p)}}
        \cup {Append(x, s) : s \in {n \in Special : x \in DOMAIN t /\ Star \in {Star, n}}}
  BY Zenon DEF get_dir, None, Star
<1>8. get_dir(t, x, Star) = {p \in DOMAIN tree : p # <<None>> /\ Front(p) = x} \cup {Append(x, s) : s \in Special}
  <2>1. {p \in DOMAIN t : p # <<None>> /\ Front(p) = x /\ Star \in {Star, Last(p)}}
          = {p \in DOMAIN t : p # <<None>> /\ Front(p) = x}
    OBVIOUS
  <2>2. {n \in Special : x \in DOMAIN t /\ Star \in {Star, n}} = {s \in Special : x \in DOMAIN t}
    OBVIOUS
  <2> QED BY <1>5, <1>6, <1>7, <2>1, <2>2
<1> QED BY <1>8, Zenon DEF Star

\* What one call of _traverse() lists.
Listed(made, x) ==
  IF IsDir(made, x) /\ ~is_special_dir(x) THEN SetToSeq(get_dir(made, x, Star)) ELSE <<>>

\* All that lies in the file, and nothing else.
LEMMA ListedIsListing ==
  ASSUME NEW tree, NEW src, NEW dest, NEW Names, CanCopy(tree, src, dest, Names),
         NEW done \in SUBSET Below(tree, src), NEW t, IsCopy(t, tree, src, dest, done),
         NEW x \in Entries(tree), IsPrefix(src, x)
  PROVE  IsListing(tree, x, Listed(t, x)) /\ (x \notin DOMAIN tree => Listed(t, x) = <<>>)
<1> DEFINE files == {p \in DOMAIN tree : p # <<None>> /\ Front(p) = x}
           special == {Append(x, s) : s \in Special}
<1>1. /\ DOMAIN tree \subseteq Seq(Names) /\ Special \subseteq Names
      /\ IsTree(tree, Names) /\ IsFiniteSet(DOMAIN tree) /\ tree \in [DOMAIN tree -> Kinds]
  BY CopyIsNew DEF CanCopy, IsFileTree
<1>2. x \in Seq(Names) /\ x # <<>> /\ (is_special_dir(x) <=> x \notin DOMAIN tree)
  BY <1>1, EntriesAre
<1>3. CASE x \notin DOMAIN tree
  <2>1. Listed(t, x) = <<>>
    BY <1>2, <1>3 DEF Listed
  <2>2. \A p \in DOMAIN tree : ~ IsPrefix(x, p)
    BY <1>1, <1>2, <1>3, TreeIsWhole
  <2>3. IsListing(tree, x, <<>>)
    BY <2>2 DEF IsListing
  <2> QED BY <2>1, <2>3
<1>4. CASE x \in DOMAIN tree
  <2>1. t[x] = tree[x] /\ ~ is_special_dir(x)
    BY <1>2, <1>4 DEF IsCopy
  <2>2. CASE tree[x] # "dir"
    <3>1. Listed(t, x) = <<>>
      BY <2>1, <2>2 DEF Listed, IsDir
    <3>2. \A p \in DOMAIN tree : p # x => ~ IsPrefix(x, p)
      BY <1>1, <1>2, <2>2, TreeIsWhole
    <3>3. IsListing(tree, x, <<>>)
      BY <3>2 DEF IsListing
    <3> QED BY <1>4, <3>1, <3>3
  <2>3. CASE tree[x] = "dir"
    <3> DEFINE all == files \cup special
               inside == SetToSeq(all)
    <3>1. x \in Below(tree, src)
      BY <1>4 DEF Below
    <3>2. get_dir(t, x, Star) = all
      <4>1. get_dir(t, x, "*") = all
        BY <3>1, CopiesAreNotListed
      <4> QED BY <4>1, Zenon DEF Star
    <3>3. Listed(t, x) = inside
      <4> HIDE DEF all
      <4> QED BY <2>1, <2>3, <3>2 DEF Listed, IsDir
    <3>4. all \subseteq Entries(tree)
      <4>1. files \subseteq Entries(tree)
        BY DEF Entries
      <4>2. special \subseteq Entries(tree)
        BY <1>1, <1>4, EntriesAre
      <4> QED BY <4>1, <4>2
    <3>5. IsFiniteSet(all)
      <4> HIDE DEF all
      <4> QED BY <1>1, <3>4, EntriesAreFinite, FS_Subset
    <3>6. \A e \in all : Front(e) = x
      BY <1>1, <1>4, EntriesAre
    <3> HIDE DEF all
    <3>7. /\ inside \in Seq(all)
          /\ \A e \in all : \E i \in DOMAIN inside : inside[i] = e
          /\ \A i, j \in DOMAIN inside : inside[i] = inside[j] => i = j
      BY <3>5, SetAsSequence
    <3> HIDE DEF inside
    <3>8. inside \in Seq(Entries(tree)) /\ \A j \in DOMAIN inside : inside[j] \in all
      BY <3>4, <3>7
    <3>9. ASSUME NEW p \in DOMAIN tree, p # x, IsPrefix(x, p)
          PROVE  \E j \in DOMAIN inside : IsPrefix(inside[j], p)
      <4> DEFINE q == SubSeq(p, 1, Len(x) + 1)
      <4>1. p \in Seq(Names) /\ Len(x) \in Nat \ {0} /\ Len(x) < Len(p) /\ Len(p) \in Nat
        BY <1>1, <1>2, <3>9, PrefixAndFront
      <4>2. q \in Seq(Names) /\ Len(q) = Len(x) + 1 /\ \A i \in 1..(Len(x) + 1) : q[i] = p[i]
        BY <4>1, SubSeqProperties
      <4> HIDE DEF q
      <4>3. IsPrefix(q, p) /\ IsPrefix(x, q)
        <5>1. IsPrefix(q, p)
          BY <4>1, <4>2, PrefixIs
        <5>2. Len(x) <= Len(q)
          BY <4>1, <4>2
        <5> QED BY <1>2, <3>9, <4>1, <4>2, <5>1, <5>2, PrefixOrder
      <4>4. q # <<>> /\ q # x /\ q # <<None>>
        <5>1. Len(<<None>>) = 1 /\ Len(<<>>) = 0
          OBVIOUS
        <5> QED BY <4>1, <4>2, <5>1
      <4>5. q \in DOMAIN tree
        BY <1>1, <4>2, <4>3, <4>4, TreeIsWhole
      <4>6. Front(q) = x
        <5> DEFINE f == Front(q)
        <5>1. f \in Seq(Names) /\ Len(f) = Len(q) - 1 /\ IsPrefix(x, f)
          BY <1>2, <4>2, <4>3, <4>4, PrefixAndFront
        <5> HIDE DEF f
        <5>2. Len(f) <= Len(x)
          BY <4>1, <4>2, <5>1
        <5>3. x = f
          BY <1>2, <5>1, <5>2, PrefixOrder
        <5> QED BY <5>3 DEF f
      <4>7. q \in all
        BY <4>4, <4>5, <4>6 DEF all
      <4> QED BY <3>7, <4>3, <4>7
    <3>10. IsListing(tree, x, inside)
      BY <3>6, <3>7, <3>8, <3>9 DEF IsListing
    <3> QED BY <1>4, <3>3, <3>10
  <2> QED BY <2>2, <2>3
<1> QED BY <1>3, <1>4

\* Where a walk has come: everything below src is copied, or still to come.
Walked(tree, src, dest, s) ==
  /\ IsTodo(tree, src, s.todo)
  /\ IsCopy(s.tree, tree, src, dest, Below(tree, src) \ Coming(tree, s.todo))
  /\ \A i \in DOMAIN s.todo :
       s.todo[i] \in DOMAIN tree /\ s.todo[i] # src =>
         Front(s.todo[i]) \in Below(tree, src) \ Coming(tree, s.todo)

\* One call of _traverse() leaves it so, and comes to one entry.
LEMMA WalkStep ==
  ASSUME NEW tree, NEW src, NEW dest, NEW Names, CanCopy(tree, src, dest, Names),
         NEW s, Walked(tree, src, dest, s), s.todo # <<>>
  PROVE  /\ Walked(tree, src, dest, traverse(s, src, dest))
         /\ Head(s.todo) \in Coming(tree, s.todo)
         /\ Coming(tree, traverse(s, src, dest).todo) \subseteq Coming(tree, s.todo) \ {Head(s.todo)}
<1> DEFINE todo == s.todo
           x == Head(todo)
           done == Below(tree, src) \ Coming(tree, todo)
           made == copy_one(s.tree, x, moved(x, src, dest))
           inside == Listed(made, x)
           next == inside \o Tail(todo)
           end == Below(tree, src) \ Coming(tree, next)
<1>1. /\ DOMAIN tree \subseteq Seq(Names) /\ src \in Seq(Names) /\ Special \subseteq Names
      /\ IsTree(tree, Names)
  BY CopyIsNew DEF CanCopy, IsFileTree
<1>2. traverse(s, src, dest) = [tree |-> made, todo |-> next]
  <2>1. inside = IF IsDir(made, x) /\ ~is_special_dir(x) THEN SetToSeq(get_dir(made, x, "*")) ELSE <<>>
    BY Zenon DEF Listed, Star
  <2> HIDE DEF inside, made
  <2>2. s.todo # <<>>
    OBVIOUS
  <2>3. traverse(s, src, dest) = IF s.todo = <<>> THEN s ELSE [tree |-> made, todo |-> next]
    BY <2>1, Zenon DEF traverse, made
  <2> QED BY <2>2, <2>3
<1>3. IsTodo(tree, src, todo) /\ IsCopy(s.tree, tree, src, dest, done)
  BY DEF Walked
<1>4. inside \in Seq(Entries(tree)) => Continues(next, inside, todo)
  <2>1. todo \in Seq(Entries(tree)) /\ todo # <<>>
    BY <1>3 DEF IsTodo
  <2> HIDE DEF todo, inside
  <2> QED BY <2>1, NextTodo
<1>5. 1 \in DOMAIN todo /\ x = todo[1] /\ x \in Entries(tree) /\ IsPrefix(src, x) /\ x \in Coming(tree, todo)
  <2>1. todo \in Seq(Entries(tree)) /\ todo # <<>> /\ \A i \in DOMAIN todo : IsPrefix(src, todo[i])
    BY <1>3 DEF IsTodo
  <2> HIDE DEF todo
  <2>2. 1 \in DOMAIN todo /\ x = todo[1] /\ x \in Entries(tree)
    BY <2>1
  <2> HIDE DEF x
  <2>3. IsPrefix(src, x)
    BY <2>1, <2>2
  <2>4. x \in Seq(Names)
    BY <1>1, <2>2, EntriesAre
  <2>5. IsPrefix(x, x)
    BY <1>1, <2>4, PrefixOrder
  <2> QED BY <2>2, <2>3, <2>5 DEF Coming
<1>6. x \in DOMAIN tree => x \in Below(tree, src) \ done /\ (x # src => Front(x) \in done)
  <2>1. x \in DOMAIN tree /\ x # src => Front(x) \in done
    BY <1>5 DEF Walked
  <2> QED BY <1>5, <2>1 DEF Below
<1>7. x \notin DOMAIN tree => made = s.tree
  <2>1. is_special_dir(x) <=> x \notin DOMAIN tree
    BY <1>1, <1>5, EntriesAre
  <2> QED BY <2>1 DEF copy_one
<1>8. done \in SUBSET Below(tree, src)
  OBVIOUS
<1> HIDE DEF todo, x, done, made
<1>9. x \in DOMAIN tree => IsCopy(made, tree, src, dest, done \cup {x})
  BY <1>3, <1>6, <1>8, CopyStep DEF made
<1>10. IsListing(tree, x, inside) /\ (x \notin DOMAIN tree => inside = <<>>)
  <2>1. CASE x \in DOMAIN tree
    <3>1. done \cup {x} \in SUBSET Below(tree, src)
      BY <1>6, <1>8, <2>1
    <3> QED BY <1>5, <1>9, <2>1, <3>1, ListedIsListing
  <2>2. CASE x \notin DOMAIN tree
    BY <1>3, <1>5, <1>7, <1>8, <2>2, ListedIsListing
  <2> QED BY <2>1, <2>2
<1> HIDE DEF inside
<1>11. /\ IsTodo(tree, src, next)
       /\ Coming(tree, next) \subseteq Coming(tree, todo) \ {x}
       /\ \A p \in DOMAIN tree : p \in Coming(tree, next) <=> p \in Coming(tree, todo) /\ p # x
  <2>1. todo # <<>>
    BY DEF todo
  <2> QED BY <1>1, <1>3, <1>10, <2>1, TodoStep DEF x
<1>12. Continues(next, inside, todo)
  BY <1>4, <1>10 DEF IsListing
<1> HIDE DEF next, end
<1>13. end = done \cup ({x} \cap DOMAIN tree)
  <2>1. \A p \in Below(tree, src) : p \in DOMAIN tree
    BY DEF Below
  <2> QED BY <1>6, <1>11, <2>1 DEF end, done
<1>14. IsCopy(made, tree, src, dest, end)
  <2>1. CASE x \in DOMAIN tree
    <3>1. end = done \cup {x}
      BY <1>13, <2>1
    <3> QED BY <1>9, <2>1, <3>1
  <2>2. CASE x \notin DOMAIN tree
    <3>1. end = done
      BY <1>13, <2>2
    <3> QED BY <1>3, <1>7, <2>2, <3>1
  <2> QED BY <2>1, <2>2
<1>15. ASSUME NEW i \in DOMAIN next, next[i] \in DOMAIN tree, next[i] # src PROVE Front(next[i]) \in end
  <2>1. CASE i \in DOMAIN inside
    <3>1. next[i] = inside[i] /\ Front(inside[i]) = x
      BY <1>10, <1>12, <2>1 DEF Continues, IsListing
    <3>2. x \in DOMAIN tree
      <4>1. inside # <<>>
        BY <2>1
      <4> QED BY <1>10, <4>1
    <3> QED BY <1>13, <3>1, <3>2
  <2>2. CASE i \notin DOMAIN inside
    <3>1. PICK m \in DOMAIN todo : next[i] = todo[m]
      BY <1>12, <2>2 DEF Continues
    <3>2. Front(todo[m]) \in done
      BY <1>15, <3>1 DEF Walked, todo, done
    <3> QED BY <1>13, <3>1, <3>2
  <2> QED BY <2>1, <2>2
<1>16. Walked(tree, src, dest, [tree |-> made, todo |-> next])
  BY <1>11, <1>14, <1>15 DEF Walked, end
<1> QED BY <1>2, <1>5, <1>11, <1>16 DEF x, todo

\* So it is at first.
LEMMA WalkBegins ==
  ASSUME NEW tree, NEW src, NEW dest, NEW Names, CanCopy(tree, src, dest, Names)
  PROVE  Walked(tree, src, dest, [tree |-> tree, todo |-> <<src>>])
<1> DEFINE todo == <<src>>
<1>1. DOMAIN tree \subseteq Seq(Names) /\ src \in Seq(Names) /\ src \in DOMAIN tree /\ tree \in [DOMAIN tree -> Kinds]
  BY CopyIsNew DEF CanCopy, IsFileTree
<1>2. todo \in Seq(Entries(tree)) /\ DOMAIN todo = {1} /\ todo[1] = src
  <2>1. src \in Entries(tree)
    BY <1>1 DEF Entries
  <2> QED BY <2>1
<1>3. IsPrefix(src, src)
  BY <1>1, PrefixOrder
<1> HIDE DEF todo
<1>4. IsTodo(tree, src, todo)
  <2>1. \A i \in DOMAIN todo : i = 1 /\ IsPrefix(src, todo[i])
    BY <1>2, <1>3
  <2> QED BY <1>2, <2>1 DEF IsTodo
<1>5. Below(tree, src) \ Coming(tree, todo) = {}
  BY <1>2 DEF Below, Coming, Entries
<1>6. IsCopy(tree, tree, src, dest, {})
  BY <1>1 DEF IsCopy
<1>7. \A i \in DOMAIN todo : todo[i] = src
  BY <1>2
<1> DEFINE s == [tree |-> tree, todo |-> todo]
<1>8. s.tree = tree /\ s.todo = todo
  OBVIOUS
<1> HIDE DEF s
<1>9. Walked(tree, src, dest, s)
  BY <1>4, <1>5, <1>6, <1>7, <1>8 DEF Walked
<1> QED BY <1>9 DEF s, todo

\* A walk that has not come to its end has less to come with each call.
Ahead(tree, s, k) ==
  s.todo = <<>> \/ Cardinality(Coming(tree, s.todo)) + k <= Cardinality(Entries(tree))

\* One call leaves one call less.
LEMMA WalkGoesOn ==
  ASSUME NEW tree, NEW src, NEW dest, NEW Names, CanCopy(tree, src, dest, Names),
         NEW s, Walked(tree, src, dest, s), NEW k \in Nat, Ahead(tree, s, k)
  PROVE  /\ Walked(tree, src, dest, traverse(s, src, dest))
         /\ Ahead(tree, traverse(s, src, dest), k + 1)
<1> DEFINE t == traverse(s, src, dest)
           C == Coming(tree, s.todo)
           x == Head(s.todo)
<1>1. CASE s.todo = <<>>
  <2>1. t = s
    BY <1>1 DEF traverse
  <2> QED BY <1>1, <2>1 DEF Ahead
<1>2. CASE s.todo # <<>>
  <2>1. Walked(tree, src, dest, t) /\ x \in C /\ Coming(tree, t.todo) \subseteq C \ {x}
    BY <1>2, WalkStep
  <2>2. IsFiniteSet(Entries(tree)) /\ Cardinality(Entries(tree)) \in Nat
    BY EntriesAreFinite DEF CanCopy, IsFileTree
  <2>3. IsFiniteSet(C)
    <3>1. C \in SUBSET Entries(tree)
      BY DEF Coming
    <3> HIDE DEF C
    <3> QED BY <2>2, <3>1, FS_Subset
  <2> HIDE DEF C, x, t
  <2>4. IsFiniteSet(C \ {x}) /\ Cardinality(C \ {x}) = Cardinality(C) - 1
    BY <2>1, <2>3, FS_RemoveElement
  <2>5. Cardinality(Coming(tree, t.todo)) <= Cardinality(C \ {x}) /\ IsFiniteSet(Coming(tree, t.todo))
    BY <2>1, <2>4, FS_Subset
  <2>6. Cardinality(C) \in Nat /\ Cardinality(Coming(tree, t.todo)) \in Nat
    BY <2>3, <2>5, FS_CardinalityType
  <2>7. Cardinality(C) + k <= Cardinality(Entries(tree))
    BY <1>2 DEF Ahead, C
  <2>8. Cardinality(Coming(tree, t.todo)) + (k + 1) <= Cardinality(Entries(tree))
    BY <2>2, <2>4, <2>5, <2>6, <2>7
  <2> QED BY <2>1, <2>8 DEF Ahead, t
<1> QED BY <1>1, <1>2

\* The calls that there are come to the end of it.
LEMMA WalkEnds ==
  ASSUME NEW tree, NEW src, NEW dest, NEW Names, CanCopy(tree, src, dest, Names)
  PROVE  \E s : Walked(tree, src, dest, s) /\ s.todo = <<>> /\ copy_tree(tree, src, dest) = s.tree
<1> DEFINE n == Cardinality(Entries(tree))
           first == [tree |-> tree, todo |-> <<src>>]
           Round(f, k) == IF k = 0 THEN first ELSE traverse(f[k - 1], src, dest)
           g == CHOOSE f : f = [k \in 0..n |-> Round(f, k)]
           States == [tree : UNION {[(DOMAIN tree) \cup {moved(p, src, dest) : p \in done} -> Kinds] :
                                      done \in SUBSET Below(tree, src)},
                      todo : Seq(Entries(tree))]
           V == {s \in States : Walked(tree, src, dest, s)}
           In == [k \in 0..n |-> {s \in V : Ahead(tree, s, k)}]
           step == [p \in V \X (1..n) |-> traverse(p[1], src, dest)]
<1>1. n \in Nat /\ IsFiniteSet(Entries(tree))
  BY EntriesAreFinite DEF CanCopy, IsFileTree
<1>2. ASSUME NEW t, NEW todo, Walked(tree, src, dest, [tree |-> t, todo |-> todo])
      PROVE  [tree |-> t, todo |-> todo] \in V
  <2> DEFINE s == [tree |-> t, todo |-> todo]
  <2>1. s.tree = t /\ s.todo = todo
    OBVIOUS
  <2> HIDE DEF s
  <2>2. /\ s.tree \in UNION {[(DOMAIN tree) \cup {moved(p, src, dest) : p \in done} -> Kinds] :
                               done \in SUBSET Below(tree, src)}
        /\ s.todo \in Seq(Entries(tree))
    <3> DEFINE end == Below(tree, src) \ Coming(tree, s.todo)
    <3>1. end \in SUBSET Below(tree, src) /\ IsCopy(s.tree, tree, src, dest, end) /\ IsTodo(tree, src, s.todo)
      BY <1>2 DEF Walked, s
    <3> HIDE DEF end
    <3> QED BY <3>1 DEF IsCopy, IsTodo
  <2>3. s \in States
    BY <2>1, <2>2 DEF s
  <2> HIDE DEF States
  <2> QED BY <1>2, <2>3 DEF s
<1>3. first \in V
  <2> HIDE DEF V
  <2> QED BY <1>2, WalkBegins
<1>4. ASSUME NEW s \in V PROVE traverse(s, src, dest) \in V
  <2>1. Walked(tree, src, dest, s)
    OBVIOUS
  <2>2. CASE s.todo = <<>>
    <3>1. traverse(s, src, dest) = s
      BY <2>2 DEF traverse
    <3> HIDE DEF V
    <3> QED BY <3>1
  <2>3. CASE s.todo # <<>>
    <3>1. Walked(tree, src, dest, traverse(s, src, dest))
      BY <2>1, <2>3, WalkStep
    <3>2. PICK t, todo : traverse(s, src, dest) = [tree |-> t, todo |-> todo]
      BY <2>3 DEF traverse
    <3> HIDE DEF V
    <3> QED BY <1>2, <3>1, <3>2
  <2> QED BY <2>2, <2>3
<1>5. first \in In[0]
  <2> DEFINE C == Coming(tree, first.todo)
  <2>1. C \in SUBSET Entries(tree)
    BY DEF Coming
  <2> HIDE DEF C
  <2>2. Cardinality(C) <= n /\ Cardinality(C) \in Nat
    BY <1>1, <2>1, FS_Subset, FS_CardinalityType
  <2>3. Ahead(tree, first, 0)
    <3> HIDE DEF first
    <3> QED BY <1>1, <2>2 DEF Ahead, C
  <2>4. 0 \in 0..n
    BY <1>1
  <2> HIDE DEF first, V, n
  <2> QED BY <1>3, <2>3, <2>4
<1>6. In \in [0..n -> SUBSET V]
  <2> HIDE DEF V, n
  <2> QED OBVIOUS
<1>7. step \in [V \X (1..n) -> V]
  <2> HIDE DEF V, n
  <2> QED BY <1>4
<1>8. Leads(step, n, In)
  <2>1. ASSUME NEW k \in 1..n, NEW s \in In[k - 1] PROVE step[<<s, k>>] \in In[k]
    <3>1. k - 1 \in 0..n /\ k \in 0..n /\ k - 1 \in Nat /\ (k - 1) + 1 = k
      BY <1>1
    <3>2. s \in V /\ Ahead(tree, s, k - 1)
      <4> HIDE DEF V, n
      <4> QED BY <3>1
    <3>3. Walked(tree, src, dest, s)
      BY <3>2
    <3>4. Ahead(tree, traverse(s, src, dest), (k - 1) + 1)
      <4> HIDE DEF V, n
      <4> QED BY <3>1, <3>2, <3>3, WalkGoesOn
    <3> HIDE DEF V, n
    <3>5. step[<<s, k>>] = traverse(s, src, dest)
      BY <3>2
    <3>6. traverse(s, src, dest) \in In[k]
      BY <1>4, <3>1, <3>2, <3>4
    <3> QED BY <3>5, <3>6
  <2> HIDE DEF step, n, In
  <2> QED BY <2>1 DEF Leads
<1>9. PICK f \in [0..n -> V] : Rounds(f, n, first, step) /\ \A k \in 0..n : f[k] \in In[k]
  <2> HIDE DEF n, V, In, first, step
  <2> QED BY <1>1, <1>5, <1>6, <1>7, <1>8, Passing
<1> HIDE DEF V
<1>10. ASSUME NEW k \in 0..n PROVE f[k] = Round(f, k)
  <2>1. k # 0 => k - 1 \in 0..n /\ k \in 1..n
    BY <1>1
  <2>2. k # 0 => <<f[k - 1], k>> \in V \X (1..n)
    BY <2>1
  <2> HIDE DEF n, first
  <2> QED BY <1>9, <2>1, <2>2 DEF Rounds
<1>11. f = [k \in 0..n |-> Round(f, k)]
  <2> HIDE DEF Round, n
  <2> QED BY <1>10
<1>12. g = [k \in 0..n |-> Round(g, k)]
  <2> HIDE DEF Round, n
  <2> QED BY <1>11
<1>13. copy_tree(tree, src, dest) = g[n].tree
  <2>1. src \in DOMAIN tree
    BY DEF CanCopy
  <2> QED BY <2>1 DEF copy_tree, traverse_tree
<1> HIDE DEF g
<1>14. \A k \in 0..n : g[k] = f[k]
  <2> DEFINE T == {k \in 0..n : g[k] = f[k]}
  <2>1. \A k \in 0..n : g[k] = Round(g, k)
    <3> HIDE DEF Round, n
    <3> QED BY <1>12
  <2>2. 0 \in T
    <3>1. 0 \in 0..n
      BY <1>1
    <3> HIDE DEF n, first
    <3> QED BY <1>10, <2>1, <3>1
  <2>3. ASSUME NEW k \in 0..(n - 1), k \in T PROVE k + 1 \in T
    <3>1. k + 1 \in 0..n /\ k + 1 # 0 /\ (k + 1) - 1 = k
      BY <1>1
    <3>2. g[k] = f[k]
      BY <2>3
    <3> HIDE DEF n, first
    <3> QED BY <1>10, <2>1, <3>1, <3>2
  <2> HIDE DEF T, n
  <2>4. \A k \in 0..n : k \in T
    BY <1>1, <2>2, <2>3, UpTo
  <2> QED BY <2>4 DEF T
<1> DEFINE s == f[n]
<1>15. n \in 0..n /\ s \in In[n] /\ s = g[n]
  <2>1. n \in 0..n
    BY <1>1
  <2> HIDE DEF n, In
  <2> QED BY <1>9, <1>14, <2>1
<1>16. s \in V /\ Ahead(tree, s, n)
  <2> HIDE DEF n, s
  <2> QED BY <1>15
<1>17. Walked(tree, src, dest, s)
  <2> HIDE DEF s, n
  <2> QED BY <1>16 DEF V
<1> HIDE DEF s
<1>18. s.todo = <<>>
  <2> SUFFICES ASSUME s.todo # <<>> PROVE FALSE
    OBVIOUS
  <2> DEFINE C == Coming(tree, s.todo)
  <2>1. Cardinality(C) + n <= n
    BY <1>16 DEF Ahead
  <2>2. Head(s.todo) \in C
    BY <1>17, WalkStep
  <2>3. C \in SUBSET Entries(tree)
    BY DEF Coming
  <2> HIDE DEF C
  <2>4. IsFiniteSet(C) /\ Cardinality(C) \in Nat
    BY <1>1, <2>3, FS_Subset, FS_CardinalityType
  <2>5. Cardinality(C) = 0
    BY <1>1, <2>1, <2>4
  <2> QED BY <2>2, <2>4, <2>5, FS_EmptySet
<1> QED BY <1>13, <1>15, <1>17, <1>18

\* What is copied, for any tree and any two places in it.
LEMMA CopyTree ==
  ASSUME NEW tree, NEW src, NEW dest, NEW Names, CanCopy(tree, src, dest, Names)
  PROVE  IsCopied(tree, src, dest)
<1> DEFINE made == copy_tree(tree, src, dest)
           from == Below(tree, src)
           images == {moved(p, src, dest) : p \in from}
<1>1. PICK s : Walked(tree, src, dest, s) /\ s.todo = <<>> /\ made = s.tree
  BY WalkEnds
<1> HIDE DEF made
<1>2. Coming(tree, s.todo) = {}
  BY <1>1 DEF Coming
<1>3. IsCopy(made, tree, src, dest, from)
  <2>1. from \ Coming(tree, s.todo) = from
    BY <1>2
  <2> HIDE DEF from
  <2> QED BY <1>1, <2>1 DEF Walked, from
<1>4. /\ DOMAIN tree \subseteq Seq(Names) /\ src \in Seq(Names) /\ dest \in Seq(Names) /\ dest # <<>>
  BY CopyIsNew DEF CanCopy
<1>5. \A q \in images : IsPrefix(dest, q)
  <2>1. ASSUME NEW p \in from PROVE IsPrefix(dest, moved(p, src, dest))
    <3>1. p \in Seq(Names) /\ IsPrefix(src, p)
      BY <1>4 DEF Below
    <3> QED BY <1>4, <3>1, MovedIsBelow
  <2> QED BY <2>1
<1>6. \A p \in DOMAIN tree : ~ IsPrefix(dest, p)
  BY <1>4, CopyIsNew
<1>7. DOMAIN made = (DOMAIN tree) \cup images
  BY <1>3 DEF IsCopy
<1> HIDE DEF images
<1>8. Below(made, dest) = images
  BY <1>5, <1>6, <1>7 DEF Below
<1>9. \A p \in DOMAIN tree : made[p] = tree[p]
  BY <1>3 DEF IsCopy
<1>10. \A p \in from : made[moved(p, src, dest)] = tree[p]
  <2> HIDE DEF from
  <2> QED BY <1>3 DEF IsCopy
<1> QED BY <1>7, <1>8, <1>9, <1>10 DEF IsCopied, made, images

\* A place of two parts.
LEMMA PairIsASeq ==
  ASSUME NEW S, NEW a \in S, NEW b \in S
  PROVE  <<a, b>> \in Seq(S) /\ <<a, b>> # <<>>
OBVIOUS

\* Trees are copied as they are, whatever is in them.
LEMMA TreesAreCopied ==
  ASSUME NEW Names, {"", ".", "..", "b", "c"} \subseteq Names, NEW tree, IsFileTree(tree, Names)
  PROVE  TreeIsCopied(tree)
<1>1. None \in Names /\ "b" \in Names /\ "c" \in Names /\ Special \subseteq Names
  BY Zenon DEF None, Special
<1>2. \A dest \in Destinations : dest \in Seq(Names) /\ dest # <<>>
  <2>1. /\ <<None, "c">> \in Seq(Names) /\ <<None, "c">> # <<>>
        /\ <<None, "b", "c">> \in Seq(Names) /\ <<None, "b", "c">> # <<>>
    BY <1>1, PairIsASeq, TripleIsASeq
  <2>2. Destinations = {<<None, "c">>, <<None, "b", "c">>}
    BY Zenon DEF Destinations, None
  <2> QED BY <2>1, <2>2, Zenon
<1>3. ASSUME NEW src \in DOMAIN tree, NEW dest \in Destinations,
             HasDir(tree, Front(dest)), Below(tree, dest) = {}, ~ IsPrefix(src, dest)
      PROVE  IsCopied(tree, src, dest)
  <2>1. CanCopy(tree, src, dest, Names)
    BY <1>1, <1>2, <1>3 DEF CanCopy
  <2> QED BY <2>1, CopyTree
<1> QED BY <1>3, Zenon DEF TreeIsCopied

\* FilesAreFound, for any patterns and any trees.
THEOREM AllFilesAreFound ==
  ASSUME NEW Names, {"", ".", "..", "a", "b", "c", "file"} \subseteq Names
  PROVE  [](focus = "files" => given.pattern \in Seq(Names) \ {<<"">>} /\ IsFileTree(given.tree, Names))
           => []FilesAreFound
<1>1. (focus = "files" => given.pattern \in Seq(Names) \ {<<"">>} /\ IsFileTree(given.tree, Names))
        => FilesAreFound
  <2> SUFFICES ASSUME given.pattern \in Seq(Names) \ {<<"">>}, IsFileTree(given.tree, Names)
               PROVE  PathsAreResolved(given) /\ TreeIsCopied(given.tree)
    BY Zenon DEF FilesAreFound
  <2>1. /\ {"", ".", "..", "a", "b", "file"} \subseteq Names /\ {"", ".", "..", "b", "c"} \subseteq Names
    BY Zenon
  <2>2. PathsAreResolved(given)
    <3>1. IsTree(given.tree, Names)
      BY Zenon DEF IsFileTree
    <3> QED BY <2>1, <3>1, PathsResolve, Zenon
  <2>3. TreeIsCopied(given.tree)
    BY <2>1, TreesAreCopied, Zenon
  <2> QED BY <2>2, <2>3, Zenon
<1> QED BY <1>1, PTL
-----------------------------------------------------------------------------
(* TextLib: places in a text.                                              *)

\* The first place that is no blank.
LEMMA NextNonBlank ==
  ASSUME NEW S, NEW str \in Seq(S), NEW start \in 0..Len(str)
  PROVE  /\ find_nonws(str, start) \in start..Len(str)
         /\ \A i \in start..(find_nonws(str, start) - 1) : At(str, i) = Blank
         /\ find_nonws(str, start) < Len(str) => At(str, find_nonws(str, start)) # Blank
<1> DEFINE found == {i \in start..(Len(str) - 1) : At(str, i) # Blank}
           pos == IF found = {} THEN -1 ELSE Min(found)
<1>1. Len(str) \in Nat /\ start \in Nat /\ start <= Len(str)
  OBVIOUS
<1>2. find_nonws(str, start)
        = IF pos # -1 THEN pos ELSE IF start < Len(str) THEN Len(str) ELSE start
  BY DEF find_nonws, Search
<1>3. CASE found = {}
  <2>1. find_nonws(str, start) = Len(str)
    BY <1>1, <1>2, <1>3
  <2>2. \A i \in start..(Len(str) - 1) : At(str, i) = Blank
    BY <1>3
  <2> QED BY <1>1, <2>1, <2>2
<1>4. CASE found # {}
  <2>1. found \in SUBSET Nat
    BY <1>1
  <2>2. pos \in found /\ \A i \in found : pos <= i
    <3> HIDE DEF found
    <3> QED BY <1>4, <2>1, MinIsLeast
  <2>3. find_nonws(str, start) = pos
    BY <1>1, <1>2, <2>2
  <2>4. ASSUME NEW i \in start..(pos - 1) PROVE At(str, i) = Blank
    <3>1. pos \in Nat /\ pos <= Len(str) - 1
      BY <1>1, <2>2
    <3>2. i \in start..(Len(str) - 1) /\ ~ (pos <= i)
      BY <1>1, <3>1
    <3> QED BY <2>2, <3>2
  <2>5. pos \in start..Len(str) /\ At(str, pos) # Blank
    BY <1>1, <2>2
  <2> HIDE DEF pos
  <2> QED BY <2>3, <2>4, <2>5
<1> QED BY <1>3, <1>4
-----------------------------------------------------------------------------
(* CommandGiver: what a line is matched with.                              *)

\* What the rest of a line is made of.
LEMMA RestOfText ==
  ASSUME NEW S, NEW str \in Seq(S), NEW n \in 0..Len(str)
  PROVE  /\ Rest(str, n) \in Seq(S) /\ Len(Rest(str, n)) = Len(str) - n
         /\ \A i \in 1..(Len(str) - n) : Rest(str, n)[i] = str[n + i]
<1> DEFINE m == n + 1
           l == Len(str)
<1>1. l \in Nat /\ n \in Nat /\ n <= l /\ m \in Int /\ l \in Int /\ \A i \in m..l : str[i] \in S
  OBVIOUS
<1>2. Rest(str, n) = SubSeq(str, m, l)
  BY <1>1 DEF Rest, Slice
<1> HIDE DEF m
<1>3. /\ SubSeq(str, m, l) \in Seq(S) /\ Len(SubSeq(str, m, l)) = IF m <= l THEN l - m + 1 ELSE 0
      /\ \A i \in 1..(l - m + 1) : SubSeq(str, m, l)[i] = str[m + i - 1]
  <2> HIDE DEF l
  <2> QED BY <1>1, SubSeqProperties
<1>4. l - m + 1 = l - n /\ (~ (m <= l) => l - n = 0) /\ \A i \in 1..(l - n) : m + i - 1 = n + i
  BY <1>1 DEF m
<1> QED BY <1>2, <1>3, <1>4

\* A verb is matched if the line is for it: all of it, or up to a blank.
LEMMA PrefixIsFor ==
  ASSUME NEW S, "end" \notin S, NEW arg \in Seq(S), NEW verb \in Seq(S)
  PROVE  IsPrefix(verb, arg) /\ At(arg, Len(verb)) \in {Blank, "end"} <=> IsFor(arg, verb)
<1> DEFINE n == Len(verb)
<1>1. n \in Nat /\ Len(arg) \in Nat
  OBVIOUS
<1>2. SubSeq(verb, 1, n) = verb
  BY SubSeqFull
<1>3. CASE Len(arg) < n
  <2>1. ~ IsPrefix(verb, arg)
    BY <1>1, <1>3 DEF IsPrefix
  <2>2. ~ IsFor(arg, verb)
    BY <1>1, <1>3 DEF IsFor
  <2> QED BY <2>1, <2>2
<1>4. CASE Len(arg) = n
  <2>1. At(arg, n) = "end" /\ (IsPrefix(verb, arg) <=> SubSeq(verb, 1, n) = SubSeq(arg, 1, n))
    BY <1>1, <1>4 DEF At, IsPrefix
  <2>2. SubSeq(arg, 1, n) = arg
    BY <1>4, SubSeqFull
  <2>3. IsFor(arg, verb) <=> arg = verb
    BY <1>1, <1>4 DEF IsFor
  <2> QED BY <1>2, <2>1, <2>2, <2>3
<1>5. CASE Len(arg) > n
  <2>1. /\ At(arg, n) = arg[n + 1] /\ arg[n + 1] \in S
        /\ (IsPrefix(verb, arg) <=> verb = SubSeq(arg, 1, n))
    BY <1>1, <1>2, <1>5 DEF At, IsPrefix
  <2>2. arg # verb
    BY <1>5, <1>1
  <2>3. /\ SubSeq(arg, 1, n + 1) \in Seq(S) /\ SubSeq(arg, 1, n) \in Seq(S)
        /\ SubSeq(arg, 1, n + 1) = Append(SubSeq(arg, 1, n), arg[n + 1])
    BY <1>1, <1>5
  <2>4. Append(SubSeq(arg, 1, n), arg[n + 1]) = Append(verb, Blank)
          <=> SubSeq(arg, 1, n) = verb /\ arg[n + 1] = Blank
    <3> DEFINE T == S \cup {Blank}
               begin == SubSeq(arg, 1, n)
               next == arg[n + 1]
    <3>1. begin \in Seq(T) /\ verb \in Seq(T) /\ next \in T /\ Blank \in T
      BY <2>1, <2>3
    <3> HIDE DEF T, begin, next
    <3>2. Append(begin, next) = Append(verb, Blank) <=> begin = verb /\ next = Blank
      BY <3>1, AppendInjective
    <3> QED BY <3>2 DEF begin, next
  <2>5. IsFor(arg, verb) <=> SubSeq(arg, 1, n) = verb /\ arg[n + 1] = Blank
    BY <1>5, <2>2, <2>3, <2>4 DEF IsFor
  <2> QED BY <2>1, <2>5
<1> QED BY <1>1, <1>3, <1>4, <1>5

\* What is matched is the rest of the line.
LEMMA MatchIsRest ==
  ASSUME NEW S, "end" \notin S, NEW arg \in Seq(S), NEW verb \in Seq(S)
  PROVE  /\ ~ IsFor(arg, verb) => match(arg, verb) = NoMatch
         /\ IsFor(arg, verb) => match(arg, verb) \in Seq(S) /\ IsRest(arg, verb, match(arg, verb))
<1>1. CASE ~ IsFor(arg, verb)
  BY <1>1, PrefixIsFor DEF match
<1>2. CASE IsFor(arg, verb)
  <2> DEFINE l == Len(arg)
             v == Len(verb)
             k == find_nonws(arg, v)
             rest == Rest(arg, k)
             n == k - v
             blanks == [i \in 1..n |-> Blank]
             T == S \cup {Blank}
  <2>1. IsPrefix(verb, arg) /\ match(arg, verb) = rest
    BY <1>2, PrefixIsFor DEF match
  <2>2. l \in Nat /\ v \in Nat /\ v \in 0..l
    BY <2>1 DEF IsPrefix
  <2>3. /\ k \in v..l /\ \A i \in v..(k - 1) : At(arg, i) = Blank
        /\ k < l => At(arg, k) # Blank
    BY <2>2, NextNonBlank
  <2>4. \A i \in 1..v : arg[i] = verb[i]
    <3>1. SubSeq(verb, 1, v) = SubSeq(arg, 1, v)
      BY <2>1 DEF IsPrefix
    <3>2. ASSUME NEW i \in 1..v PROVE arg[i] = verb[i]
      <4>1. SubSeq(verb, 1, v)[i] = verb[i] /\ SubSeq(arg, 1, v)[i] = arg[i]
        BY <2>2
      <4> QED BY <3>1, <4>1
    <3> QED BY <3>2
  <2>5. /\ k \in Nat /\ k <= l /\ v <= k /\ k \in 0..l /\ n \in Nat /\ n \in 0..l
    BY <2>2, <2>3
  <2>6. /\ rest \in Seq(S) /\ Len(rest) = l - k
        /\ \A i \in 1..(l - k) : rest[i] = arg[k + i]
    <3> HIDE DEF k
    <3> QED BY <2>5, RestOfText
  <2> HIDE DEF k, rest
  <2>7. arg = verb \o blanks \o rest
    <3>1. blanks \in Seq(T) /\ Len(blanks) = n /\ \A i \in 1..n : blanks[i] = Blank
      BY <2>5
    <3>2. verb \in Seq(T) /\ rest \in Seq(T) /\ arg \in Seq(T)
      BY <2>6
    <3> HIDE DEF blanks, T, n
    <3>3. /\ verb \o blanks \in Seq(T) /\ Len(verb \o blanks) = v + n
          /\ \A i \in 1..(v + n) : (verb \o blanks)[i] = IF i <= v THEN verb[i] ELSE blanks[i - v]
      BY <3>1, <3>2, ConcatProperties
    <3>4. v + n = k
      BY <2>2, <2>5 DEF n
    <3>5. /\ verb \o blanks \o rest \in Seq(T) /\ Len(verb \o blanks \o rest) = k + (l - k)
          /\ \A i \in 1..(k + (l - k)) :
               (verb \o blanks \o rest)[i] = IF i <= k THEN (verb \o blanks)[i] ELSE rest[i - k]
      <4> DEFINE w == verb \o blanks
      <4>1. w \in Seq(T) /\ Len(w) = k
        BY <3>3, <3>4
      <4> HIDE DEF w
      <4>2. /\ w \o rest \in Seq(T) /\ Len(w \o rest) = Len(w) + Len(rest)
            /\ \A i \in 1..(Len(w) + Len(rest)) :
                 (w \o rest)[i] = IF i <= Len(w) THEN w[i] ELSE rest[i - Len(w)]
        BY <3>2, <4>1, ConcatProperties
      <4>3. /\ w \o rest \in Seq(T) /\ Len(w \o rest) = k + (l - k)
            /\ \A i \in 1..(k + (l - k)) : (w \o rest)[i] = IF i <= k THEN w[i] ELSE rest[i - k]
        BY <2>6, <4>1, <4>2
      <4> QED BY <4>3 DEF w
    <3>6. k + (l - k) = l
      BY <2>2, <2>5
    <3>7. ASSUME NEW i \in 1..l PROVE arg[i] = (verb \o blanks \o rest)[i]
      <4>1. CASE i <= v
        <5>1. i \in 1..v /\ i <= k /\ i \in 1..(v + n)
          BY <2>2, <2>5, <3>4, <4>1
        <5> QED BY <2>4, <3>3, <3>5, <3>6, <5>1
      <4>2. CASE i > v /\ i <= k
        <5>1. i - v \in 1..n /\ i - 1 \in v..(k - 1) /\ i \in 1..(v + n) /\ ~ (i <= v)
              /\ i - 1 < l /\ (i - 1) + 1 = i
          BY <2>2, <2>5, <3>4, <4>2
        <5>2. At(arg, i - 1) = Blank /\ At(arg, i - 1) = arg[i]
          BY <2>3, <5>1 DEF At
        <5>3. (verb \o blanks)[i] = Blank
          BY <3>1, <3>3, <5>1
        <5> QED BY <3>5, <3>6, <4>2, <5>2, <5>3
      <4>3. CASE i > k
        <5>1. i - k \in 1..(l - k) /\ ~ (i <= k) /\ k + (i - k) = i
          BY <2>2, <2>5, <4>3
        <5>2. rest[i - k] = arg[i]
          BY <2>6, <5>1
        <5> QED BY <3>5, <3>6, <5>1, <5>2
      <4>4. i <= v \/ (i > v /\ i <= k) \/ i > k
        BY <2>2, <2>5
      <4> QED BY <4>1, <4>2, <4>3, <4>4
    <3> DEFINE whole == verb \o blanks \o rest
    <3>8. whole \in Seq(T) /\ Len(whole) = Len(arg) /\ \A i \in 1..Len(arg) : arg[i] = whole[i]
      BY <3>5, <3>6, <3>7
    <3> HIDE DEF whole
    <3>9. arg = whole
      BY <3>2, <3>8, SeqEqual
    <3> QED BY <3>9 DEF whole
  <2>8. rest = <<>> \/ rest[1] # Blank
    <3>1. CASE k < l
      <4>1. 1 \in 1..(l - k)
        BY <2>2, <2>5, <3>1
      <4>2. rest[1] = arg[k + 1] /\ At(arg, k) = arg[k + 1]
        BY <2>6, <3>1, <4>1 DEF At
      <4> QED BY <2>3, <3>1, <4>2
    <3>2. CASE k = l
      <4>1. Len(rest) = 0
        BY <2>2, <2>6, <3>2
      <4> QED BY <2>6, <4>1
    <3> QED BY <2>2, <2>5, <3>1, <3>2
  <2>9. \E m \in 0..l : arg = verb \o [i \in 1..m |-> Blank] \o rest
    BY <2>5, <2>7
  <2> QED BY <1>2, <2>1, <2>6, <2>8, <2>9 DEF IsRest
<1> QED BY <1>1, <1>2
-----------------------------------------------------------------------------
(* CommandGiver: the states of the loop.                                   *)

CommandSet(Letters, Controllers) == [verbs : Seq(Seq(Letters)), controller : Controllers]

\* No command has a verb twice, and the letters are none of the two values by
\* which the end of a line and a line without a match are known.
IsRouting(input, Letters, Controllers) ==
  /\ "end" \notin Letters /\ "unmatched" \notin Letters
  /\ input.commands \in Seq(CommandSet(Letters, Controllers))
  /\ input.arg \in Seq(Letters)
  /\ input.answers \in [Controllers -> Answers]
  /\ \A n \in DOMAIN input.commands : \A i, j \in DOMAIN input.commands[n].verbs :
       input.commands[n].verbs[i] = input.commands[n].verbs[j] => i = j

MatchedSet(Letters) == UNION {[vs -> Seq(Letters) \cup {NoMatch}] : vs \in SUBSET Seq(Letters)}

CallSet(Letters, Controllers) ==
  [command : Nat, controller : Controllers, verb : Seq(Letters), arg : Seq(Letters)]

StateSet(Letters, Controllers) ==
  [matched : MatchedSet(Letters), ran : Seq(CallSet(Letters, Controllers)), result : BOOLEAN]

\* Only what the verb was matched with is replaced.
Replaces(L, new, matched, verb, rest) ==
  /\ new \in MatchedSet(L) /\ DOMAIN new = DOMAIN matched \cup {verb} /\ new[verb] = rest
  /\ \A v \in DOMAIN matched : v # verb => new[v] = matched[v]

\* Each verb is matched once.
LEMMA MatchedIsKept ==
  ASSUME NEW L, NEW matched \in MatchedSet(L), NEW verb \in Seq(L),
         NEW rest \in Seq(L) \cup {NoMatch}
  PROVE  Replaces(L, Matched(matched, verb, rest), matched, verb, rest)
<1> DEFINE vs == DOMAIN matched \cup {verb}
<1>1. DOMAIN matched \in SUBSET Seq(L) /\ \A v \in DOMAIN matched : matched[v] \in Seq(L) \cup {NoMatch}
  BY DEF MatchedSet
<1>2. Matched(matched, verb, rest) \in [vs -> Seq(L) \cup {NoMatch}]
  BY <1>1 DEF Matched
<1>3. vs \in SUBSET Seq(L)
  BY <1>1
<1>4. Matched(matched, verb, rest) \in MatchedSet(L)
  <2> HIDE DEF vs
  <2> QED BY <1>2, <1>3 DEF MatchedSet
<1> QED BY <1>4 DEF Matched, Replaces

\* One call of a controller.
CallOf(state, n, command, verb) ==
  [command |-> n, controller |-> command.controller, verb |-> verb, arg |-> state.matched[verb]]

HasSuccess(state, command, answers) ==
  \/ answers[command.controller] = "succeeds"
  \/ /\ answers[command.controller] = "second"
     /\ \E i \in DOMAIN state.ran : state.ran[i].controller = command.controller

\* A call keeps the state of the loop one, and adds itself to the calls.
LEMMA CalledIsAState ==
  ASSUME NEW L, NEW C, NEW s \in StateSet(L, C), NEW n \in Nat,
         NEW command \in CommandSet(L, C), NEW verb \in DOMAIN s.matched,
         s.matched[verb] # NoMatch, NEW answers
  PROVE  LET t == Called(s, n, command, verb, answers) IN
           /\ t \in StateSet(L, C) /\ t.matched = s.matched
           /\ ~ load_controller(command, answers) => t = s
           /\ load_controller(command, answers) =>
                /\ t.ran = Append(s.ran, CallOf(s, n, command, verb))
                /\ t.result <=> HasSuccess(s, command, answers)
<1> DEFINE t == Called(s, n, command, verb, answers)
           call == CallOf(s, n, command, verb)
           before == {i \in DOMAIN s.ran : s.ran[i].controller = command.controller}
           answer == answers[command.controller]
           new == [s EXCEPT !.ran = Append(@, call),
                            !.result = answer = "succeeds" \/ (answer = "second" /\ before # {})]
<1>1. s.matched \in MatchedSet(L) /\ s.ran \in Seq(CallSet(L, C)) /\ command.controller \in C
  BY DEF StateSet, CommandSet
<1>2. verb \in Seq(L) /\ s.matched[verb] \in Seq(L)
  BY <1>1 DEF MatchedSet
<1>3. call \in CallSet(L, C)
  BY <1>1, <1>2 DEF CallSet, CallOf
<1>4. t = IF ~ load_controller(command, answers) THEN s ELSE new
  BY DEF Called, CallOf
<1>5. CASE ~ load_controller(command, answers)
  BY <1>4, <1>5
<1>6. CASE load_controller(command, answers)
  <2>1. t = new
    BY <1>4, <1>6
  <2> HIDE DEF call, t
  <2>2. /\ new \in StateSet(L, C) /\ new.matched = s.matched /\ new.ran = Append(s.ran, call)
        /\ new.result <=> (answer = "succeeds" \/ (answer = "second" /\ before # {}))
    <3> HIDE DEF answer, before
    <3>1. Append(s.ran, call) \in Seq(CallSet(L, C))
      BY <1>1, <1>3
    <3> QED BY <1>1, <3>1 DEF StateSet
  <2> HIDE DEF new
  <2>3. before # {} <=> \E i \in DOMAIN s.ran : s.ran[i].controller = command.controller
    OBVIOUS
  <2>4. new.result <=> HasSuccess(s, command, answers)
    BY <2>2, <2>3 DEF HasSuccess
  <2> QED BY <1>6, <2>1, <2>2, <2>4 DEF t, call
<1> QED BY <1>5, <1>6
-----------------------------------------------------------------------------
(* CommandGiver: the calls that were made.                                 *)

Loads(input, n) == load_controller(input.commands[n], input.answers)

IsVerb(input, n, verb) == \E i \in DOMAIN input.commands[n].verbs : input.commands[n].verbs[i] = verb

\* A call is made for the controller of a command up to n, with what the line
\* has behind one of its verbs.
IsGoodCall(input, call, n) ==
  /\ call.command \in DOMAIN input.commands /\ call.command <= n
  /\ IsVerb(input, call.command, call.verb)
  /\ call.controller = input.commands[call.command].controller
  /\ match(input.arg, call.verb) # NoMatch /\ call.arg = match(input.arg, call.verb)

Succeeds(input, ran, i) ==
  \/ input.answers[ran[i].controller] = "succeeds"
  \/ /\ input.answers[ran[i].controller] = "second"
     /\ \E j \in 1..(i - 1) : ran[j].controller = ran[i].controller

\* While command n is tried: what was matched, the calls, their order, and no
\* success but the last call's.
Fine(input, s, n) ==
  /\ \A v \in DOMAIN s.matched : s.matched[v] = match(input.arg, v)
  /\ \A i \in DOMAIN s.ran : IsGoodCall(input, s.ran[i], n)
  /\ \A i, j \in DOMAIN s.ran : i < j => s.ran[i].command <= s.ran[j].command
  /\ \A i \in DOMAIN s.ran : Succeeds(input, s.ran, i) <=> (i = Len(s.ran) /\ s.result)

\* m more calls were made, all for this command and this verb.
Added(s, t, n, verb, m) ==
  /\ Len(t.ran) = Len(s.ran) + m
  /\ \A i \in 1..Len(s.ran) : t.ran[i] = s.ran[i]
  /\ \A i \in (Len(s.ran) + 1)..Len(t.ran) : t.ran[i].command = n /\ t.ran[i].verb = verb

\* A call keeps that, and is made if the controller can be loaded.
LEMMA CalledIsFine ==
  ASSUME NEW L, NEW C, NEW input, IsRouting(input, L, C), NEW s \in StateSet(L, C),
         NEW n \in DOMAIN input.commands, NEW verb \in DOMAIN s.matched,
         s.matched[verb] # NoMatch, IsVerb(input, n, verb), Fine(input, s, n), ~ s.result
  PROVE  LET t == Called(s, n, input.commands[n], verb, input.answers) IN
           /\ t \in StateSet(L, C) /\ t.matched = s.matched /\ Fine(input, t, n)
           /\ ~ Loads(input, n) => t = s
           /\ Loads(input, n) => Added(s, t, n, verb, 1)
<1> DEFINE t == Called(s, n, input.commands[n], verb, input.answers)
           command == input.commands[n]
           call == CallOf(s, n, command, verb)
           l == Len(s.ran)
<1>1. n \in Nat /\ command \in CommandSet(L, C)
  BY DEF IsRouting
<1>2. /\ t \in StateSet(L, C) /\ t.matched = s.matched
      /\ ~ Loads(input, n) => t = s
      /\ Loads(input, n) => /\ t.ran = Append(s.ran, call)
                            /\ t.result <=> HasSuccess(s, command, input.answers)
  BY <1>1, CalledIsAState DEF Loads
<1>3. CASE ~ Loads(input, n)
  BY <1>2, <1>3
<1>4. CASE Loads(input, n)
  <2>1. /\ call.command = n /\ call.controller = command.controller /\ call.verb = verb
        /\ call.arg = s.matched[verb]
    BY DEF CallOf
  <2>2. s.ran \in Seq(CallSet(L, C)) /\ l \in Nat /\ DOMAIN s.ran = 1..l
    BY DEF StateSet
  <2>3. call \in CallSet(L, C)
    <3>1. t.ran \in Seq(CallSet(L, C))
      BY <1>2 DEF StateSet
    <3>2. command.controller \in C /\ verb \in Seq(L) /\ s.matched[verb] \in Seq(L)
      BY <1>1 DEF CommandSet, StateSet, MatchedSet
    <3> QED BY <1>1, <3>2 DEF CallOf, CallSet
  <2> HIDE DEF call, command, t
  <2>4. /\ DOMAIN t.ran = 1..(l + 1) /\ Len(t.ran) = l + 1 /\ t.ran[l + 1] = call
        /\ \A i \in 1..l : t.ran[i] = s.ran[i]
    BY <1>2, <1>4, <2>2, <2>3
  <2> HIDE DEF l
  <2>5. Added(s, t, n, verb, 1)
    <3>1. \A i \in (l + 1)..(l + 1) : i = l + 1
      BY <2>2
    <3> QED BY <2>1, <2>4, <3>1 DEF Added, l
  <2>6. \A v \in DOMAIN t.matched : t.matched[v] = match(input.arg, v)
    BY <1>2 DEF Fine
  <2>7. \A i \in 1..(l + 1) : i \in 1..l \/ i = l + 1
    BY <2>2
  <2>8. ASSUME NEW i \in DOMAIN t.ran PROVE IsGoodCall(input, t.ran[i], n)
    <3>1. CASE i \in 1..l
      BY <2>2, <2>4, <3>1 DEF Fine
    <3>2. CASE i = l + 1
      <4>1. n <= n
        BY <1>1
      <4>2. s.matched[verb] = match(input.arg, verb)
        BY DEF Fine
      <4> QED BY <2>1, <2>4, <3>2, <4>1, <4>2 DEF IsGoodCall, command
    <3> QED BY <2>4, <2>7, <3>1, <3>2
  <2>9. ASSUME NEW i \in DOMAIN t.ran, NEW j \in DOMAIN t.ran, i < j
        PROVE  t.ran[i].command <= t.ran[j].command
    <3>1. i \in 1..l
      BY <2>2, <2>4, <2>9
    <3>2. CASE j \in 1..l
      BY <2>2, <2>4, <2>9, <3>1, <3>2 DEF Fine
    <3>3. CASE j = l + 1
      <4>1. s.ran[i].command <= n
        BY <2>2, <3>1 DEF Fine, IsGoodCall
      <4> QED BY <2>1, <2>4, <3>1, <3>3, <4>1
    <3> QED BY <2>4, <2>7, <3>2, <3>3
  <2>10. ASSUME NEW i \in DOMAIN t.ran
         PROVE  Succeeds(input, t.ran, i) <=> (i = Len(t.ran) /\ t.result)
    <3>1. CASE i \in 1..l
      <4>1. \A j \in 1..(i - 1) : j \in 1..l
        BY <2>2, <3>1
      <4>2. Succeeds(input, t.ran, i) <=> Succeeds(input, s.ran, i)
        BY <2>4, <3>1, <4>1 DEF Succeeds
      <4>3. i # l + 1
        BY <2>2, <3>1
      <4> QED BY <2>2, <2>4, <3>1, <4>2, <4>3 DEF Fine
    <3>2. CASE i = l + 1
      <4>1. (l + 1) - 1 = l
        BY <2>2
      <4>2. t.ran[i].controller = command.controller
        BY <2>1, <2>4, <3>2
      <4>3. Succeeds(input, t.ran, i) <=> HasSuccess(s, command, input.answers)
        BY <2>2, <2>4, <3>2, <4>1, <4>2 DEF Succeeds, HasSuccess
      <4> QED BY <1>2, <1>4, <2>4, <3>2, <4>3
    <3> QED BY <2>4, <2>7, <3>1, <3>2
  <2>11. Fine(input, t, n)
    BY <2>6, <2>8, <2>9, <2>10 DEF Fine
  <2> QED BY <1>2, <1>4, <2>5, <2>11 DEF t
<1> QED BY <1>3, <1>4
LEMMA NoMatchIsNoRest ==
  ASSUME NEW L, "unmatched" \notin L
  PROVE  NoMatch \notin Seq(L)
BY DEF NoMatch

\* Calls added in two steps are added.
LEMMA AddedTwice ==
  ASSUME NEW k \in Nat, NEW m \in Nat, NEW s, NEW u, NEW t, NEW n, NEW verb,
         Len(s.ran) = k, Added(s, u, n, verb, m), Added(u, t, n, verb, 1)
  PROVE  Added(s, t, n, verb, m + 1)
<1>1. Len(u.ran) = k + m /\ Len(t.ran) = (k + m) + 1 /\ (k + m) + 1 = k + (m + 1)
  BY DEF Added
<1>2. ASSUME NEW i \in 1..k PROVE t.ran[i] = s.ran[i]
  <2>1. i \in 1..(k + m)
    OBVIOUS
  <2> QED BY <1>1, <2>1 DEF Added
<1>3. ASSUME NEW i \in (k + 1)..((k + m) + 1) PROVE t.ran[i].command = n /\ t.ran[i].verb = verb
  <2>1. CASE i <= k + m
    <3>1. i \in 1..(k + m) /\ i \in (k + 1)..(k + m)
      BY <2>1
    <3> QED BY <1>1, <3>1 DEF Added
  <2>2. CASE i = (k + m) + 1
    <3>1. i \in ((k + m) + 1)..((k + m) + 1)
      BY <2>2
    <3> QED BY <1>1, <3>1 DEF Added
  <2>3. i <= k + m \/ i = (k + m) + 1
    OBVIOUS
  <2> QED BY <2>1, <2>2, <2>3
<1> QED BY <1>1, <1>2, <1>3 DEF Added

\* What is known of a verb may change as long as it stays true.
LEMMA FineForMatched ==
  ASSUME NEW input, NEW s, NEW t, NEW n, Fine(input, s, n), t.ran = s.ran, t.result <=> s.result,
         \A v \in DOMAIN t.matched : t.matched[v] = match(input.arg, v)
  PROVE  Fine(input, t, n)
BY DEF Fine

\* The line is tried with one verb: no call, one, or two; and if the line is for
\* it, at least one.
LEMMA WithVerbIsFine ==
  ASSUME NEW L, NEW C, NEW input, IsRouting(input, L, C), NEW s \in StateSet(L, C),
         NEW n \in DOMAIN input.commands, NEW verb, IsVerb(input, n, verb),
         Fine(input, s, n), ~ s.result
  PROVE  LET t == WithVerb(s, n, input.commands[n], verb, input.arg, input.answers) IN
           /\ t \in StateSet(L, C) /\ Fine(input, t, n)
           /\ \E m \in 0..2 :
                /\ Added(s, t, n, verb, m)
                /\ Loads(input, n) /\ IsFor(input.arg, verb) => m # 0
<1> DEFINE command == input.commands[n]
           seen == verb \in DOMAIN s.matched
           found == match(input.arg, verb)
           again == IF seen THEN Called(s, n, command, verb, input.answers) ELSE s
           now == [again EXCEPT !.matched = Matched(@, verb, found)]
           last == Called(now, n, command, verb, input.answers)
           t == WithVerb(s, n, command, verb, input.arg, input.answers)
           due == Loads(input, n) /\ IsFor(input.arg, verb)
<1>1. /\ "end" \notin L /\ input.arg \in Seq(L) /\ command \in CommandSet(L, C) /\ n \in Nat
      /\ verb \in Seq(L)
  <2>1. "end" \notin L /\ input.arg \in Seq(L) /\ command \in CommandSet(L, C) /\ n \in Nat
    BY DEF IsRouting
  <2>2. PICK i \in DOMAIN command.verbs : command.verbs[i] = verb
    BY DEF IsVerb
  <2>3. command.verbs \in Seq(Seq(L))
    BY <2>1 DEF CommandSet
  <2> HIDE DEF command
  <2>4. command.verbs[i] \in Seq(L)
    BY <2>2, <2>3
  <2> QED BY <2>1, <2>2, <2>4
<1>2. found \in Seq(L) \cup {NoMatch} /\ (found # NoMatch <=> IsFor(input.arg, verb))
  <2>1. NoMatch \notin Seq(L)
    BY NoMatchIsNoRest DEF IsRouting
  <2> HIDE DEF found
  <2>2. /\ ~ IsFor(input.arg, verb) => found = NoMatch
        /\ IsFor(input.arg, verb) => found \in Seq(L)
    BY <1>1, MatchIsRest DEF found
  <2> QED BY <2>1, <2>2
<1>3. Len(verb) > Len(input.arg) => ~ IsFor(input.arg, verb)
  BY <1>1 DEF IsFor
<1>4. \A u \in StateSet(L, C) : Len(u.ran) \in Nat
  BY DEF StateSet
<1>5. CASE seen /\ s.matched[verb] = NoMatch
  <2>1. t = s /\ ~ due
    BY <1>2, <1>5 DEF WithVerb, Fine
  <2>2. Added(s, t, n, verb, 0)
    BY <1>4, <2>1 DEF Added
  <2> QED BY <2>1, <2>2
<1>6. CASE ~ (seen /\ s.matched[verb] = NoMatch)
  <2>1. /\ again \in StateSet(L, C) /\ again.matched = s.matched /\ Fine(input, again, n)
        /\ ~ Loads(input, n) => again = s
        /\ ~ seen => again = s
        /\ Loads(input, n) /\ seen => Added(s, again, n, verb, 1)
    BY <1>6, CalledIsFine
  <2>2. IF again.result \/ Len(verb) > Len(input.arg) THEN t = again
        ELSE IF now.matched[verb] = NoMatch THEN t = now
        ELSE t = last
    BY <1>6 DEF WithVerb
  <2> HIDE DEF again, found, t
  <2> DEFINE kept == again.matched
             new == Matched(kept, verb, found)
  <2>3. Replaces(L, new, kept, verb, found)
    <3>1. kept \in MatchedSet(L)
      BY <2>1 DEF StateSet
    <3> HIDE DEF kept
    <3> QED BY <1>1, <1>2, <3>1, MatchedIsKept
  <2>4. /\ now \in StateSet(L, C) /\ now.matched = new
        /\ now.ran = again.ran /\ (now.result <=> again.result)
    BY <2>1, <2>3 DEF StateSet, Replaces
  <2> HIDE DEF now, new
  <2>5. Fine(input, now, n)
    <3>1. \A v \in DOMAIN now.matched : now.matched[v] = match(input.arg, v)
      BY <2>1, <2>3, <2>4 DEF Fine, found, Replaces
    <3> QED BY <2>1, <2>4, <3>1, FineForMatched
  <2>6. \E m \in 0..1 : Added(s, again, n, verb, m) /\ (due /\ seen => m # 0)
    <3>1. Added(s, s, n, verb, 0)
      BY <1>4 DEF Added
    <3> QED BY <2>1, <3>1
  <2>7. CASE again.result \/ Len(verb) > Len(input.arg)
    <3>1. t = again
      BY <2>2, <2>7
    <3>2. due => seen
      <4>1. again.result => again # s
        OBVIOUS
      <4>2. again.result => seen
        BY <2>1, <4>1
      <4> QED BY <1>2, <1>3, <2>7, <4>2
    <3> QED BY <2>1, <2>6, <3>1, <3>2 DEF t
  <2>8. CASE ~ (again.result \/ Len(verb) > Len(input.arg)) /\ found = NoMatch
    <3>1. t = now /\ ~ due
      BY <1>2, <2>2, <2>3, <2>4, <2>8 DEF Replaces
    <3>2. \E m \in 0..1 : Added(s, now, n, verb, m)
      BY <2>4, <2>6 DEF Added
    <3> QED BY <2>4, <2>5, <3>1, <3>2 DEF t
  <2>9. CASE ~ (again.result \/ Len(verb) > Len(input.arg)) /\ found # NoMatch
    <3>1. t = last
      BY <2>2, <2>3, <2>4, <2>9 DEF Replaces
    <3>2. verb \in DOMAIN now.matched /\ now.matched[verb] # NoMatch /\ ~ now.result
      BY <2>3, <2>4, <2>9 DEF Replaces
    <3>3. /\ last \in StateSet(L, C) /\ Fine(input, last, n)
          /\ ~ Loads(input, n) => last = now
          /\ Loads(input, n) => Added(now, last, n, verb, 1)
      BY <2>4, <2>5, <3>2, CalledIsFine
    <3> HIDE DEF last
    <3>4. PICK m \in 0..1 : Added(s, now, n, verb, m)
      BY <2>4, <2>6 DEF Added
    <3>5. CASE ~ Loads(input, n)
      BY <3>1, <3>3, <3>4, <3>5 DEF t
    <3>6. CASE Loads(input, n)
      <4>1. Added(now, last, n, verb, 1) /\ Len(s.ran) \in Nat
        BY <1>4, <3>3, <3>6
      <4>2. Added(s, last, n, verb, m + 1)
        BY <3>4, <4>1, AddedTwice
      <4>3. m + 1 \in 0..2 /\ m + 1 # 0
        OBVIOUS
      <4> QED BY <3>1, <3>3, <4>2, <4>3 DEF t
    <3> QED BY <3>5, <3>6
  <2> QED BY <2>7, <2>8, <2>9
<1> QED BY <1>5, <1>6
\* The line is for one of the first k verbs of command n.
IsDue(input, n, k) == \E i \in 1..k : IsFor(input.arg, input.commands[n].verbs[i])

IsServed(input, s, n, k) ==
  ~ s.result /\ IsDue(input, n, k) /\ Loads(input, n) => \E i \in DOMAIN s.ran : s.ran[i].command = n

Same(ran, i, j) == ran[i].command = ran[j].command /\ ran[i].verb = ran[j].verb

\* No controller was called thrice for a verb.
Seldom(ran) ==
  \A i, j, k \in DOMAIN ran : i < j /\ j < k => ~ (Same(ran, i, j) /\ Same(ran, j, k))

\* What holds when the first k verbs of command n were tried: whoever of these
\* and of the commands before is due was called, and no other verb of it.
Tried(input, s, n, k) ==
  /\ Fine(input, s, n)
  /\ Seldom(s.ran)
  /\ \A m \in 1..(n - 1) : IsServed(input, s, m, Len(input.commands[m].verbs))
  /\ IsServed(input, s, n, k)
  /\ \A i \in DOMAIN s.ran :
       s.ran[i].command = n => \E j \in 1..k : input.commands[n].verbs[j] = s.ran[i].verb

\* One call or two more, for a verb that was not tried before, are not three.
LEMMA SeldomAdded ==
  ASSUME NEW l \in Nat, NEW m \in 0..2, NEW s, NEW t, NEW n, NEW verb,
         DOMAIN s.ran = 1..l, DOMAIN t.ran = 1..(l + m), Len(s.ran) = l, Len(t.ran) = l + m,
         Seldom(s.ran), Added(s, t, n, verb, m),
         \A i \in 1..l : ~ (s.ran[i].command = n /\ s.ran[i].verb = verb)
  PROVE  Seldom(t.ran)
<1>1. SUFFICES ASSUME NEW i \in 1..(l + m), NEW j \in 1..(l + m), NEW k \in 1..(l + m),
                      i < j, j < k, Same(t.ran, i, j), Same(t.ran, j, k)
               PROVE  FALSE
  BY DEF Seldom
<1>2. CASE k <= l
  <2>1. i \in 1..l /\ j \in 1..l /\ k \in 1..l
    BY <1>1, <1>2
  <2>2. t.ran[i] = s.ran[i] /\ t.ran[j] = s.ran[j] /\ t.ran[k] = s.ran[k]
    BY <2>1 DEF Added
  <2>3. Same(s.ran, i, j) /\ Same(s.ran, j, k)
    BY <1>1, <2>2 DEF Same
  <2> QED BY <1>1, <2>1, <2>3 DEF Seldom
<1>3. CASE k > l
  <2>1. k \in (l + 1)..(l + m)
    BY <1>3
  <2>2. t.ran[k].command = n /\ t.ran[k].verb = verb
    BY <2>1 DEF Added
  <2>3. t.ran[i].command = n /\ t.ran[i].verb = verb
    BY <1>1, <2>2 DEF Same
  <2>4. i <= l
    BY <1>1
  <2>5. i \in 1..l
    BY <2>4
  <2>6. t.ran[i] = s.ran[i]
    BY <2>5 DEF Added
  <2> QED BY <2>3, <2>5, <2>6
<1> QED BY <1>2, <1>3

\* One verb more.
LEMMA VerbIsTried ==
  ASSUME NEW L, NEW C, NEW input, IsRouting(input, L, C), NEW s \in StateSet(L, C),
         NEW n \in DOMAIN input.commands, NEW k \in 1..Len(input.commands[n].verbs),
         Tried(input, s, n, k - 1), ~ s.result
  PROVE  LET t == WithVerb(s, n, input.commands[n], input.commands[n].verbs[k], input.arg,
                           input.answers)
         IN  t \in StateSet(L, C) /\ Tried(input, t, n, k)
<1> DEFINE verbs == input.commands[n].verbs
           verb == verbs[k]
           t == WithVerb(s, n, input.commands[n], verb, input.arg, input.answers)
           l == Len(s.ran)
<1>1. verbs \in Seq(Seq(L)) /\ n \in Nat
  <2>1. input.commands[n] \in CommandSet(L, C) /\ n \in Nat
    BY DEF IsRouting
  <2> QED BY <2>1 DEF CommandSet
<1>2. DOMAIN verbs = 1..Len(verbs) /\ Len(verbs) \in Nat
  BY <1>1
<1>3. IsVerb(input, n, verb)
  BY <1>2 DEF IsVerb
<1>4. PICK m \in 0..2 :
            /\ t \in StateSet(L, C) /\ Fine(input, t, n) /\ Added(s, t, n, verb, m)
            /\ Loads(input, n) /\ IsFor(input.arg, verb) => m # 0
  <2> HIDE DEF verb
  <2> QED BY <1>3, WithVerbIsFine DEF Tried
<1> HIDE DEF t, verb
<1>5. /\ l \in Nat /\ DOMAIN s.ran = 1..l /\ Len(t.ran) = l + m /\ DOMAIN t.ran = 1..(l + m)
      /\ \A i \in 1..l : i \in 1..(l + m)
  <2>1. l \in Nat /\ DOMAIN s.ran = 1..l /\ DOMAIN t.ran = 1..Len(t.ran)
    BY <1>4 DEF StateSet
  <2>2. Len(t.ran) = l + m
    BY <1>4 DEF Added
  <2> QED BY <2>1, <2>2
<1> HIDE DEF l
<1>6. \A i \in 1..l : t.ran[i] = s.ran[i]
  BY <1>4 DEF Added, l
<1>7. \A i \in (l + 1)..(l + m) : t.ran[i].command = n /\ t.ran[i].verb = verb
  BY <1>4, <1>5 DEF Added, l
<1>8. k - 1 < k /\ \A j \in 1..(k - 1) : j \in 1..k /\ j # k /\ j \in 1..Len(verbs)
  BY <1>2
<1>9. ASSUME NEW i \in 1..l PROVE ~ (s.ran[i].command = n /\ s.ran[i].verb = verb)
  <2>1. SUFFICES ASSUME s.ran[i].command = n, s.ran[i].verb = verb PROVE FALSE
    OBVIOUS
  <2>2. PICK j \in 1..(k - 1) : verbs[j] = verb
    BY <1>5, <2>1 DEF Tried
  <2>3. j = k
    BY <1>2, <1>8, <2>2 DEF IsRouting, verb
  <2> QED BY <1>8, <2>3
<1>10. Seldom(t.ran)
  BY <1>4, <1>5, <1>9, SeldomAdded DEF Tried, l
<1>11. ASSUME NEW o, NEW i \in DOMAIN s.ran, s.ran[i].command = o
       PROVE  \E j \in DOMAIN t.ran : t.ran[j].command = o
  BY <1>5, <1>6, <1>11
<1>12. ASSUME NEW o \in 1..(n - 1) PROVE IsServed(input, t, o, Len(input.commands[o].verbs))
  BY <1>11 DEF Tried, IsServed
<1>13. IsServed(input, t, n, k)
  <2>1. SUFFICES ASSUME IsDue(input, n, k), Loads(input, n)
                 PROVE  \E j \in DOMAIN t.ran : t.ran[j].command = n
    BY DEF IsServed
  <2>2. CASE IsFor(input.arg, verb)
    <3>1. l + 1 \in (l + 1)..(l + m) /\ l + 1 \in 1..(l + m)
      BY <1>4, <1>5, <2>1, <2>2
    <3> QED BY <1>5, <1>7, <3>1
  <2>3. CASE ~ IsFor(input.arg, verb)
    <3>1. \A i \in 1..k : i \in 1..(k - 1) \/ i = k
      OBVIOUS
    <3>2. IsDue(input, n, k - 1)
      BY <2>1, <2>3, <3>1 DEF IsDue, verb
    <3> QED BY <1>11, <2>1, <3>2 DEF Tried, IsServed
  <2> QED BY <2>2, <2>3
<1>14. ASSUME NEW i \in DOMAIN t.ran, t.ran[i].command = n
       PROVE  \E j \in 1..k : verbs[j] = t.ran[i].verb
  <2>1. i \in 1..l \/ i \in (l + 1)..(l + m)
    BY <1>5
  <2>2. CASE i \in 1..l
    BY <1>5, <1>6, <1>8, <1>14, <2>2 DEF Tried
  <2>3. CASE i \in (l + 1)..(l + m)
    <3>1. k \in 1..k
      OBVIOUS
    <3> QED BY <1>7, <2>3, <3>1 DEF verb
  <2> QED BY <2>1, <2>2, <2>3
<1>15. Tried(input, t, n, k)
  BY <1>4, <1>10, <1>12, <1>13, <1>14 DEF Tried
<1> QED BY <1>4, <1>15 DEF t, verb
\* A round for verb k of command n.
VerbRound(input, s, n, k) ==
  IF s.result THEN s
    ELSE WithVerb(s, n, input.commands[n], input.commands[n].verbs[k], input.arg, input.answers)

LEMMA VerbRoundIsTried ==
  ASSUME NEW L, NEW C, NEW input, IsRouting(input, L, C), NEW s \in StateSet(L, C),
         NEW n \in DOMAIN input.commands, NEW k \in 1..Len(input.commands[n].verbs),
         Tried(input, s, n, k - 1)
  PROVE  VerbRound(input, s, n, k) \in StateSet(L, C) /\ Tried(input, VerbRound(input, s, n, k), n, k)
<1>1. CASE s.result
  <2>1. VerbRound(input, s, n, k) = s
    BY <1>1 DEF VerbRound
  <2>2. \A j \in 1..(k - 1) : j \in 1..k
    OBVIOUS
  <2>3. Tried(input, s, n, k)
    BY <1>1, <2>2 DEF Tried, IsServed
  <2> QED BY <2>1, <2>3
<1>2. CASE ~ s.result
  BY <1>2, VerbIsTried DEF VerbRound
<1> QED BY <1>1, <1>2

\* All verbs of a command.
LEMMA CommandIsTried ==
  ASSUME NEW L, NEW C, NEW input, IsRouting(input, L, C), NEW s \in StateSet(L, C),
         NEW n \in DOMAIN input.commands, Tried(input, s, n, 0)
  PROVE  LET t == WithCommand(s, n, input.commands[n], input.arg, input.answers) IN
           t \in StateSet(L, C) /\ Tried(input, t, n, Len(input.commands[n].verbs))
<1> DEFINE V == StateSet(L, C)
           K == Len(input.commands[n].verbs)
           Round(f, k) == IF k = 0 THEN s ELSE VerbRound(input, f[k - 1], n, k)
           In == [k \in 0..K |-> {u \in V : Tried(input, u, n, k)}]
           next == [p \in V \X (1..K) |->
                      IF p[1] \in In[p[2] - 1] THEN VerbRound(input, p[1], n, p[2]) ELSE p[1]]
           g == CHOOSE f : f = [k \in 0..K |-> Round(f, k)]
<1>1. K \in Nat
  <2>1. input.commands[n] \in CommandSet(L, C)
    BY DEF IsRouting
  <2> QED BY <2>1 DEF CommandSet
<1>2. In \in [0..K -> SUBSET V] /\ s \in In[0] /\ \A k \in 1..K : k - 1 \in 0..K /\ k \in 0..K
  BY <1>1
<1>3. ASSUME NEW k \in 1..K, NEW v \in In[k - 1]
      PROVE  VerbRound(input, v, n, k) \in In[k]
  <2>1. v \in V /\ Tried(input, v, n, k - 1)
    BY <1>2
  <2>2. VerbRound(input, v, n, k) \in V /\ Tried(input, VerbRound(input, v, n, k), n, k)
    BY <2>1, VerbRoundIsTried
  <2> QED BY <1>2, <2>2
<1> HIDE DEF K, V
<1>4. ASSUME NEW p \in V \X (1..K)
      PROVE  (IF p[1] \in In[p[2] - 1] THEN VerbRound(input, p[1], n, p[2]) ELSE p[1]) \in V
  <2>1. p[1] \in V /\ p[2] \in 1..K
    OBVIOUS
  <2> HIDE DEF In
  <2>2. p[1] \in In[p[2] - 1] => VerbRound(input, p[1], n, p[2]) \in In[p[2]]
    BY <1>3, <2>1
  <2>3. In[p[2]] \in SUBSET V
    BY <1>2, <2>1
  <2> QED BY <2>1, <2>2, <2>3
<1> HIDE DEF In
<1>5. next \in [V \X (1..K) -> V]
  BY <1>4
<1>6. \A k \in 1..K : \A v \in In[k - 1] : next[<<v, k>>] = VerbRound(input, v, n, k)
  <2>1. ASSUME NEW k \in 1..K, NEW v \in In[k - 1] PROVE <<v, k>> \in V \X (1..K)
    BY <1>2
  <2> QED BY <2>1
<1> HIDE DEF next
<1>7. \E f : f = [k \in 0..K |-> Round(f, k)]
  <2>1. PICK f \in [0..K -> V] : Rounds(f, K, s, next) /\ \A k \in 0..K : f[k] \in In[k]
    <3>1. Leads(next, K, In)
      BY <1>3, <1>6 DEF Leads
    <3> QED BY <1>1, <1>2, <1>5, <3>1, Passing
  <2>2. ASSUME NEW k \in 0..K PROVE f[k] = Round(f, k)
    <3>1. k # 0 => k \in 1..K
      BY <1>1
    <3> QED BY <1>2, <1>6, <2>1, <3>1 DEF Rounds
  <2>3. f = [k \in 0..K |-> Round(f, k)]
    <3> HIDE DEF Round
    <3> QED BY <2>2
  <2> QED BY <2>3
<1>8. g = [k \in 0..K |-> Round(g, k)]
  <2> HIDE DEF Round
  <2> QED BY <1>7
<1>9. WithCommand(s, n, input.commands[n], input.arg, input.answers) = g[K]
  BY DEF WithCommand, VerbRound, K
<1> HIDE DEF g
<1>10. \A k \in 0..K : g[k] = Round(g, k)
  <2> HIDE DEF Round
  <2> QED BY <1>8
<1> DEFINE T == {k \in 0..K : g[k] \in In[k]}
<1>11. 0 \in T
  BY <1>1, <1>2, <1>10
<1>12. ASSUME NEW k \in 0..(K - 1), k \in T PROVE k + 1 \in T
  <2>1. k + 1 \in 1..K /\ k + 1 \in 0..K /\ (k + 1) - 1 = k /\ k + 1 # 0
    BY <1>1
  <2>2. g[k + 1] = VerbRound(input, g[k], n, k + 1)
    BY <1>10, <2>1
  <2>3. g[k] \in In[(k + 1) - 1]
    BY <1>12, <2>1
  <2>4. VerbRound(input, g[k], n, k + 1) \in In[k + 1]
    BY <1>3, <2>1, <2>3
  <2> QED BY <2>1, <2>2, <2>4
<1>13. g[K] \in In[K]
  <2>1. \A k \in 0..K : k \in T
    <3> HIDE DEF T
    <3> QED BY <1>1, <1>11, <1>12, UpTo
  <2> QED BY <1>1, <2>1
<1>14. g[K] \in V /\ Tried(input, g[K], n, K)
  BY <1>1, <1>13 DEF In
<1> QED BY <1>9, <1>14 DEF K, V
\* A round for command n.
CommandRound(input, s, n) ==
  IF s.result THEN s ELSE WithCommand(s, n, input.commands[n], input.arg, input.answers)

LEMMA CommandRoundIsTried ==
  ASSUME NEW L, NEW C, NEW input, IsRouting(input, L, C), NEW s \in StateSet(L, C),
         NEW n \in DOMAIN input.commands, Tried(input, s, n, 0)
  PROVE  CommandRound(input, s, n) \in StateSet(L, C) /\ Tried(input, CommandRound(input, s, n), n + 1, 0)
<1> DEFINE t == CommandRound(input, s, n)
           K == Len(input.commands[n].verbs)
<1>1. t \in StateSet(L, C) /\ Tried(input, t, n, K)
  <2>1. CASE s.result
    <3>1. t = s
      BY <2>1 DEF CommandRound
    <3>2. Tried(input, s, n, K)
      BY <2>1 DEF Tried, IsServed
    <3> QED BY <3>1, <3>2
  <2>2. CASE ~ s.result
    BY <2>2, CommandIsTried DEF CommandRound
  <2> QED BY <2>1, <2>2
<1> HIDE DEF t
<1>2. n \in Nat
  BY DEF IsRouting
<1>3. ASSUME NEW i \in DOMAIN t.ran
      PROVE  t.ran[i].command <= n /\ t.ran[i].command # n + 1 /\ IsGoodCall(input, t.ran[i], n + 1)
  <2>1. IsGoodCall(input, t.ran[i], n)
    BY <1>1 DEF Tried, Fine
  <2>2. t.ran[i].command <= n /\ t.ran[i].command \in Nat
    BY <2>1 DEF IsGoodCall, IsRouting
  <2>3. t.ran[i].command <= n + 1 /\ t.ran[i].command # n + 1
    BY <1>2, <2>2
  <2> QED BY <2>1, <2>2, <2>3 DEF IsGoodCall
<1>4. Fine(input, t, n + 1)
  BY <1>1, <1>3 DEF Tried, Fine
<1>5. ASSUME NEW m \in 1..((n + 1) - 1)
      PROVE  IsServed(input, t, m, Len(input.commands[m].verbs))
  <2>1. m \in 1..(n - 1) \/ m = n
    BY <1>2
  <2> QED BY <1>1, <2>1 DEF Tried
<1>6. IsServed(input, t, n + 1, 0)
  BY DEF IsServed, IsDue
<1>7. Tried(input, t, n + 1, 0)
  BY <1>1, <1>3, <1>4, <1>5, <1>6 DEF Tried
<1> QED BY <1>1, <1>7 DEF t

LEMMA NothingIsTried ==
  ASSUME NEW L, NEW C, NEW input, NEW first, first = [matched |-> <<>>, ran |-> <<>>, result |-> FALSE]
  PROVE  first \in StateSet(L, C) /\ Tried(input, first, 1, 0)
<1>1. first.matched = <<>> /\ first.ran = <<>> /\ ~ first.result /\ DOMAIN first.ran = {}
  OBVIOUS
<1>2. first.matched \in [{} -> Seq(L) \cup {NoMatch}] /\ {} \in SUBSET Seq(L)
  BY <1>1
<1>3. first.matched \in MatchedSet(L)
  BY <1>2 DEF MatchedSet
<1>4. first.ran \in Seq(CallSet(L, C))
  BY <1>1
<1>5. first \in StateSet(L, C)
  BY <1>3, <1>4 DEF StateSet
<1>6. DOMAIN first.matched = {}
  BY <1>2
<1>7. Fine(input, first, 1)
  BY <1>1, <1>6 DEF Fine
<1>8. Seldom(first.ran)
  BY <1>1 DEF Seldom
<1>9. Tried(input, first, 1, 0)
  BY <1>1, <1>7, <1>8 DEF Tried, IsServed, IsDue
<1> QED BY <1>5, <1>9

\* All commands.
LEMMA LineIsTried ==
  ASSUME NEW L, NEW C, NEW input, IsRouting(input, L, C)
  PROVE  LET t == do_command(input.commands, input.arg, input.answers) IN
           t \in StateSet(L, C) /\ Tried(input, t, Len(input.commands) + 1, 0)
<1> DEFINE V == StateSet(L, C)
           N == Len(input.commands)
           first == [matched |-> <<>>, ran |-> <<>>, result |-> FALSE]
           Round(f, n) == IF n = 0 THEN first ELSE CommandRound(input, f[n - 1], n)
           In == [n \in 0..N |-> {u \in V : Tried(input, u, n + 1, 0)}]
           next == [p \in V \X (1..N) |->
                      IF p[1] \in In[p[2] - 1] THEN CommandRound(input, p[1], p[2]) ELSE p[1]]
           g == CHOOSE f : f = [n \in 0..N |-> Round(f, n)]
<1>1. N \in Nat /\ DOMAIN input.commands = 1..N
  BY DEF IsRouting
<1>2. In \in [0..N -> SUBSET V] /\ \A n \in 1..N : n - 1 \in 0..N /\ n \in 0..N
  BY <1>1
<1>3. first \in In[0]
  <2> HIDE DEF first
  <2>1. first \in V /\ Tried(input, first, 0 + 1, 0)
    BY NothingIsTried DEF first
  <2> QED BY <1>1, <2>1
<1> HIDE DEF first
<1>4. ASSUME NEW n \in 1..N, NEW v \in In[n - 1]
      PROVE  CommandRound(input, v, n) \in In[n]
  <2>1. v \in V /\ Tried(input, v, n, 0)
    <3>1. (n - 1) + 1 = n
      OBVIOUS
    <3> QED BY <1>2, <3>1
  <2>2. CommandRound(input, v, n) \in V /\ Tried(input, CommandRound(input, v, n), n + 1, 0)
    BY <1>1, <2>1, CommandRoundIsTried
  <2> QED BY <1>2, <2>2
<1> HIDE DEF N, V
<1>5. ASSUME NEW p \in V \X (1..N)
      PROVE  (IF p[1] \in In[p[2] - 1] THEN CommandRound(input, p[1], p[2]) ELSE p[1]) \in V
  <2>1. p[1] \in V /\ p[2] \in 1..N
    OBVIOUS
  <2> HIDE DEF In
  <2>2. p[1] \in In[p[2] - 1] => CommandRound(input, p[1], p[2]) \in In[p[2]]
    BY <1>4, <2>1
  <2>3. In[p[2]] \in SUBSET V
    BY <1>2, <2>1
  <2> QED BY <2>1, <2>2, <2>3
<1> HIDE DEF In
<1>6. next \in [V \X (1..N) -> V]
  BY <1>5
<1>7. \A n \in 1..N : \A v \in In[n - 1] : next[<<v, n>>] = CommandRound(input, v, n)
  <2>1. ASSUME NEW n \in 1..N, NEW v \in In[n - 1] PROVE <<v, n>> \in V \X (1..N)
    BY <1>2
  <2> QED BY <2>1
<1> HIDE DEF next
<1>8. \E f : f = [n \in 0..N |-> Round(f, n)]
  <2>1. PICK f \in [0..N -> V] : Rounds(f, N, first, next) /\ \A n \in 0..N : f[n] \in In[n]
    <3>1. Leads(next, N, In)
      BY <1>4, <1>7 DEF Leads
    <3> QED BY <1>1, <1>2, <1>3, <1>6, <3>1, Passing
  <2>2. ASSUME NEW n \in 0..N PROVE f[n] = Round(f, n)
    <3>1. n # 0 => n \in 1..N
      BY <1>1
    <3> QED BY <1>2, <1>7, <2>1, <3>1 DEF Rounds
  <2>3. f = [n \in 0..N |-> Round(f, n)]
    <3> HIDE DEF Round
    <3> QED BY <2>2
  <2> QED BY <2>3
<1>9. g = [n \in 0..N |-> Round(g, n)]
  <2> HIDE DEF Round
  <2> QED BY <1>8
<1>10. do_command(input.commands, input.arg, input.answers) = g[N]
  BY DEF do_command, CommandRound, N, first
<1> HIDE DEF g
<1>11. \A n \in 0..N : g[n] = Round(g, n)
  <2> HIDE DEF Round
  <2> QED BY <1>9
<1> DEFINE T == {n \in 0..N : g[n] \in In[n]}
<1>12. 0 \in T
  BY <1>1, <1>3, <1>11
<1>13. ASSUME NEW n \in 0..(N - 1), n \in T PROVE n + 1 \in T
  <2>1. n + 1 \in 1..N /\ n + 1 \in 0..N /\ (n + 1) - 1 = n /\ n + 1 # 0
    BY <1>1
  <2>2. g[n + 1] = CommandRound(input, g[n], n + 1)
    BY <1>11, <2>1
  <2>3. g[n] \in In[(n + 1) - 1]
    BY <1>13, <2>1
  <2>4. CommandRound(input, g[n], n + 1) \in In[n + 1]
    BY <1>4, <2>1, <2>3
  <2> QED BY <2>1, <2>2, <2>4
<1>14. g[N] \in In[N]
  <2>1. \A n \in 0..N : n \in T
    <3> HIDE DEF T
    <3> QED BY <1>1, <1>12, <1>13, UpTo
  <2> QED BY <1>1, <2>1
<1>15. g[N] \in V /\ Tried(input, g[N], N + 1, 0)
  BY <1>1, <1>14 DEF In
<1> QED BY <1>10, <1>15 DEF N, V

\* Who is called, with what, in which order and how often.
LEMMA LineReaches ==
  ASSUME NEW Letters, NEW Controllers, NEW input, IsRouting(input, Letters, Controllers)
  PROVE  IsRouted(input)
<1> DEFINE done == do_command(input.commands, input.arg, input.answers)
           ran == done.ran
           N == Len(input.commands)
<1>1. done \in StateSet(Letters, Controllers) /\ Tried(input, done, N + 1, 0)
  BY LineIsTried
<1>2. N \in Nat /\ DOMAIN input.commands = 1..N
  BY DEF IsRouting
<1> HIDE DEF done
<1>3. ASSUME NEW i \in DOMAIN ran
      PROVE  /\ ran[i].command \in DOMAIN input.commands
             /\ \E k \in DOMAIN input.commands[ran[i].command].verbs :
                  input.commands[ran[i].command].verbs[k] = ran[i].verb
             /\ ran[i].controller = input.commands[ran[i].command].controller
             /\ IsFor(input.arg, ran[i].verb)
             /\ IsRest(input.arg, ran[i].verb, ran[i].arg)
             /\ Succeeds(input, ran, i) <=> (i = Len(ran) /\ done.result)
  <2>1. IsGoodCall(input, ran[i], N + 1)
    BY <1>1 DEF Tried, Fine
  <2>2. Succeeds(input, ran, i) <=> (i = Len(ran) /\ done.result)
    BY <1>1 DEF Tried, Fine
  <2>3. ran[i].verb \in Seq(Letters)
    <3>1. ran \in Seq(CallSet(Letters, Controllers))
      BY <1>1 DEF StateSet
    <3>2. ran[i] \in CallSet(Letters, Controllers)
      BY <3>1
    <3> QED BY <3>2 DEF CallSet
  <2>4. "end" \notin Letters /\ input.arg \in Seq(Letters)
    BY DEF IsRouting
  <2>5. match(input.arg, ran[i].verb) # NoMatch /\ ran[i].arg = match(input.arg, ran[i].verb)
    BY <2>1 DEF IsGoodCall
  <2>6. IsFor(input.arg, ran[i].verb) /\ IsRest(input.arg, ran[i].verb, ran[i].arg)
    BY <2>3, <2>4, <2>5, MatchIsRest
  <2> QED BY <2>1, <2>2, <2>6 DEF IsGoodCall, IsVerb
<1>4. \A i, j \in DOMAIN ran : i < j => ran[i].command <= ran[j].command
  BY <1>1 DEF Tried, Fine
<1>5. ASSUME NEW n \in DOMAIN input.commands, ~ done.result,
             \E i \in DOMAIN input.commands[n].verbs : IsFor(input.arg, input.commands[n].verbs[i]),
             load_controller(input.commands[n], input.answers)
      PROVE  \E i \in DOMAIN ran : ran[i].command = n
  <2>1. n \in 1..((N + 1) - 1)
    BY <1>2
  <2>2. IsServed(input, done, n, Len(input.commands[n].verbs))
    BY <1>1, <2>1 DEF Tried
  <2>3. DOMAIN input.commands[n].verbs = 1..Len(input.commands[n].verbs)
    <3>1. input.commands[n] \in CommandSet(Letters, Controllers)
      BY DEF IsRouting
    <3> QED BY <3>1 DEF CommandSet
  <2> QED BY <1>5, <2>2, <2>3 DEF IsServed, IsDue, Loads
<1>6. \A i, j, k \in DOMAIN ran : i < j /\ j < k => ~ (Same(ran, i, j) /\ Same(ran, j, k))
  BY <1>1 DEF Tried, Seldom
<1> QED BY <1>3, <1>4, <1>5, <1>6 DEF IsRouted, Succeeds, Same, done

\* LineIsRouted, for any commands that have no verb twice, any line and any
\* answers of the controllers.
THEOREM LinesAreRouted ==
  ASSUME NEW Letters, NEW Controllers
  PROVE  [](focus = "routing" => IsRouting(given, Letters, Controllers)) => []LineIsRouted
<1>1. (focus = "routing" => IsRouting(given, Letters, Controllers)) => LineIsRouted
  BY LineReaches DEF LineIsRouted
<1> QED BY <1>1, PTL
-----------------------------------------------------------------------------
(* TextLib: what is escaped.                                               *)

\* Of two numbers next to each other one is odd.
LEMMA Parity ==
  ASSUME NEW x \in Int
  PROVE  (x + 1) % 2 = 1 <=> ~ (x % 2 = 1)
OBVIOUS

\* A character is escaped by a backslash that is not escaped.
LEMMA EscapedStep ==
  ASSUME NEW str, NEW i \in Nat
  PROVE  /\ ~ is_escaped(str, 0)
         /\ is_escaped(str, i + 1) <=> At(str, i) = Backslash /\ ~ is_escaped(str, i)
<1> DEFINE found(n) == {j \in 0..n : At(str, j) # Backslash}
           last(n) == IF found(n) = {} THEN -1 ELSE Max(found(n))
<1>1. \A n : anti_searcha(str, Backslash, n) = last(n)
  BY DEF anti_searcha
<1>2. \A n : is_escaped(str, n) <=> (n - last(n - 1) + 1) % 2 = 1
  BY <1>1 DEF is_escaped
<1>3. ~ is_escaped(str, 0)
  <2>1. found(0 - 1) = {}
    OBVIOUS
  <2>2. last(0 - 1) = -1
    BY <2>1
  <2> HIDE DEF last
  <2>3. ~ ((0 - (-1) + 1) % 2 = 1)
    OBVIOUS
  <2> QED BY <1>2, <2>2, <2>3
<1>4. (i + 1) - 1 = i
  OBVIOUS
<1>5. CASE At(str, i) # Backslash
  <2>1. i \in found(i) /\ found(i) \in SUBSET (0..i)
    BY <1>5
  <2>2. Max(found(i)) \in found(i) /\ i <= Max(found(i))
    <3> HIDE DEF found
    <3> QED BY <2>1, MaxIsGreatest
  <2>3. last(i) = i
    BY <2>1, <2>2
  <2> HIDE DEF last
  <2>4. ~ (((i + 1) - i + 1) % 2 = 1)
    <3>1. (i + 1) - i + 1 = 2
      OBVIOUS
    <3>2. ~ (2 % 2 = 1)
      OBVIOUS
    <3> QED BY <3>1, <3>2
  <2> QED BY <1>2, <1>3, <1>4, <1>5, <2>3, <2>4
<1>6. CASE At(str, i) = Backslash
  <2>1. found(i) = found(i - 1)
    BY <1>6
  <2>2. last(i) = last(i - 1) /\ last(i) \in Int
    <3>1. found(i) \in SUBSET (0..i)
      OBVIOUS
    <3>2. found(i) # {} => Max(found(i)) \in found(i)
      <4> HIDE DEF found
      <4> QED BY <3>1, MaxIsGreatest
    <3>3. found(i) # {} => Max(found(i)) \in Int
      BY <3>2
    <3> HIDE DEF found
    <3> QED BY <2>1, <3>3
  <2> HIDE DEF last
  <2>3. (i + 1) - last(i) + 1 = (i - last(i) + 1) + 1 /\ i - last(i) + 1 \in Int
    BY <2>2
  <2>4. (((i - last(i) + 1) + 1) % 2 = 1) <=> ~ ((i - last(i) + 1) % 2 = 1)
    BY <2>3, Parity
  <2>5. is_escaped(str, i + 1) <=> ((i + 1) - last(i) + 1) % 2 = 1
    BY <1>2, <1>4
  <2>6. is_escaped(str, i) <=> (i - last(i) + 1) % 2 = 1
    BY <1>2, <2>2
  <2> QED BY <1>3, <1>6, <2>3, <2>4, <2>5, <2>6
<1> QED BY <1>5, <1>6
-----------------------------------------------------------------------------
(* TextLib: texts within texts.                                            *)

\* What a text holds from place p on.
Holds(str, p, t) == p + Len(t) <= Len(str) /\ \A i \in 1..Len(t) : str[p + i] = t[i]

\* A text within a text within a text is in that one.
LEMMA HoldsWithin ==
  ASSUME NEW S, NEW str \in Seq(S), NEW p \in Nat, NEW t \in Seq(S), NEW q \in Nat, NEW u \in Seq(S),
         Holds(str, p, t), Holds(t, q, u)
  PROVE  Holds(str, p + q, u)
<1>1. Len(str) \in Nat /\ Len(t) \in Nat /\ Len(u) \in Nat
  OBVIOUS
<1>2. p + Len(t) <= Len(str) /\ q + Len(u) <= Len(t)
  BY DEF Holds
<1>3. ASSUME NEW i \in 1..Len(u) PROVE str[(p + q) + i] = u[i]
  <2>1. q + i \in 1..Len(t) /\ (p + q) + i = p + (q + i)
    BY <1>1, <1>2
  <2>2. str[p + (q + i)] = t[q + i] /\ t[q + i] = u[i]
    BY <2>1 DEF Holds
  <2> QED BY <2>1, <2>2
<1> QED BY <1>1, <1>2, <1>3 DEF Holds

\* The characters of a part.
LEMMA HoldsAt ==
  ASSUME NEW S, NEW str \in Seq(S), NEW p \in Nat, NEW t \in Seq(S), Holds(str, p, t),
         NEW i \in 0..(Len(t) - 1)
  PROVE  At(str, p + i) = t[i + 1] /\ At(t, i) = t[i + 1] /\ p + i < Len(str)
<1>1. Len(str) \in Nat /\ Len(t) \in Nat /\ p + Len(t) <= Len(str)
  BY DEF Holds
<1>2. i + 1 \in 1..Len(t) /\ (p + i) + 1 = p + (i + 1) /\ p + i < Len(str) /\ i < Len(t)
  BY <1>1
<1>3. str[p + (i + 1)] = t[i + 1]
  BY <1>2 DEF Holds
<1> QED BY <1>2, <1>3 DEF At

\* It begins with its first character.
LEMMA HoldsFirst ==
  ASSUME NEW S, NEW str \in Seq(S), NEW p \in Nat, NEW t \in Seq(S), Holds(str, p, t), t # <<>>
  PROVE  At(str, p) = t[1] /\ p < Len(str)
<1>1. Len(t) \in Nat /\ Len(str) \in Nat /\ Len(t) >= 1
  OBVIOUS
<1>2. 0 \in 0..(Len(t) - 1) /\ p + 0 = p /\ 0 + 1 = 1
  BY <1>1
<1>3. At(str, p + 0) = t[0 + 1] /\ p + 0 < Len(str)
  BY <1>2, HoldsAt
<1> QED BY <1>2, <1>3

\* What is put together holds both.
LEMMA HoldsConcat ==
  ASSUME NEW S, NEW t \in Seq(S), NEW u \in Seq(S)
  PROVE  t \o u \in Seq(S) /\ Len(t \o u) = Len(t) + Len(u) /\ Holds(t \o u, 0, t) /\ Holds(t \o u, Len(t), u)
<1>1. Len(t) \in Nat /\ Len(u) \in Nat
  OBVIOUS
<1>2. /\ t \o u \in Seq(S) /\ Len(t \o u) = Len(t) + Len(u)
      /\ \A i \in 1..(Len(t) + Len(u)) : (t \o u)[i] = IF i <= Len(t) THEN t[i] ELSE u[i - Len(t)]
  BY ConcatProperties
<1> DEFINE k == Len(t)
           l == Len(u)
           both == t \o u
<1>3. /\ k \in Nat /\ l \in Nat /\ Len(both) = k + l
      /\ \A i \in 1..(k + l) : both[i] = IF i <= k THEN t[i] ELSE u[i - k]
  BY <1>1, <1>2
<1> HIDE DEF k, l, both
<1>4. ASSUME NEW i \in 1..k PROVE both[0 + i] = t[i]
  <2>1. i \in 1..(k + l) /\ i <= k /\ 0 + i = i
    BY <1>3
  <2> QED BY <1>3, <2>1
<1>5. ASSUME NEW i \in 1..l PROVE both[k + i] = u[i]
  <2>1. k + i \in 1..(k + l) /\ ~ (k + i <= k) /\ (k + i) - k = i
    BY <1>3
  <2> QED BY <1>3, <2>1
<1>6. Holds(both, 0, t)
  BY <1>3, <1>4 DEF Holds, k
<1>7. Holds(both, Len(t), u)
  BY <1>3, <1>5 DEF Holds, k, l
<1> QED BY <1>2, <1>6, <1>7 DEF both

\* Parts that are put together one by one.
Grows(F, s, S) ==
  /\ F \in [0..Len(s) -> Seq(S)]
  /\ F[0] = <<>>
  /\ \A k \in 1..Len(s) : F[k] = F[k - 1] \o s[k]

\* FlattenSeq puts together one text after the other.
LEMMA Flattened ==
  ASSUME NEW S, NEW s \in Seq(Seq(S))
  PROVE  \E F : Grows(F, s, S) /\ FlattenSeq(s) = F[Len(s)]
<1> DEFINE n == Len(s)
           Round(f, i) == IF i = 1 THEN s[i] ELSE f[i - 1] \o s[i]
           step == [p \in Seq(S) \X (1..n) |-> p[1] \o s[p[2]]]
           g == CHOOSE f : f = [i \in 1..n |-> Round(f, i)]
           F == [k \in 0..n |-> IF k = 0 THEN <<>> ELSE g[k]]
<1>1. n \in Nat /\ <<>> \in Seq(S) /\ \A k \in 1..n : s[k] \in Seq(S)
  OBVIOUS
<1>2. step \in [Seq(S) \X (1..n) -> Seq(S)]
  <2>1. ASSUME NEW p \in Seq(S) \X (1..n) PROVE p[1] \o s[p[2]] \in Seq(S)
    <3>1. p[1] \in Seq(S) /\ s[p[2]] \in Seq(S)
      BY <1>1
    <3> QED BY <3>1
  <2> QED BY <2>1
<1>3. \A t \in Seq(S) : <<>> \o t = t
  OBVIOUS
<1> HIDE DEF n
<1>4. \E f : f = [i \in 1..n |-> Round(f, i)]
  <2>1. PICK f \in [0..n -> Seq(S)] : Rounds(f, n, <<>>, step)
    <3> HIDE DEF step
    <3> QED BY <1>1, <1>2, Iteration
  <2> DEFINE h == [i \in 1..n |-> f[i]]
  <2>2. ASSUME NEW i \in 1..n PROVE h[i] = Round(h, i)
    <3>1. i - 1 \in 0..n /\ (i # 1 => i - 1 \in 1..n) /\ i \in 0..n
      BY <1>1
    <3>2. <<f[i - 1], i>> \in Seq(S) \X (1..n)
      BY <3>1
    <3>3. f[i] = f[i - 1] \o s[i]
      BY <2>1, <3>2 DEF Rounds
    <3>4. i = 1 => f[i - 1] = <<>>
      BY <2>1 DEF Rounds
    <3>5. i = 1 => f[i] = s[i]
      BY <1>1, <1>3, <3>3, <3>4
    <3> QED BY <3>1, <3>3, <3>5
  <2>3. h = [i \in 1..n |-> Round(h, i)]
    <3>1. h = [i \in 1..n |-> h[i]]
      OBVIOUS
    <3> HIDE DEF Round, h
    <3> QED BY <2>2, <3>1
  <2> HIDE DEF h
  <2> QED BY <2>3
<1>5. g = [i \in 1..n |-> Round(g, i)]
  <2> HIDE DEF Round
  <2> QED BY <1>4
<1>6. n # 0 => FlattenSeq(s) = g[n]
  BY DEF FlattenSeq, n
<1>7. n = 0 => FlattenSeq(s) = <<>>
  BY DEF FlattenSeq, n
<1> HIDE DEF g
<1>8. \A i \in 1..n : g[i] = Round(g, i)
  <2> HIDE DEF Round
  <2> QED BY <1>5
<1>9. F[0] = <<>>
  BY <1>1
<1>10. ASSUME NEW k \in 1..n, F[k - 1] \in Seq(S) PROVE F[k] = F[k - 1] \o s[k] /\ F[k] \in Seq(S)
  <2>1. k \in 0..n /\ k - 1 \in 0..n /\ k # 0 /\ (k = 1 <=> k - 1 = 0) /\ s[k] \in Seq(S)
    BY <1>1
  <2>2. F[k] = F[k - 1] \o s[k]
    BY <1>3, <1>8, <2>1
  <2> HIDE DEF F
  <2> QED BY <1>10, <2>1, <2>2
<1>11. DOMAIN F = 0..n /\ F = [k \in 0..n |-> F[k]]
  OBVIOUS
<1> HIDE DEF F
<1>12. F \in [0..n -> Seq(S)]
  BY <1>1, <1>9, <1>10, <1>11, IterationStays
<1>13. \A k \in 1..n : F[k] = F[k - 1] \o s[k]
  <2>1. \A k \in 1..n : k - 1 \in 0..n
    BY <1>1
  <2> QED BY <1>10, <1>12, <2>1
<1>14. FlattenSeq(s) = F[n]
  <2>1. n \in 0..n
    BY <1>1
  <2> QED BY <1>1, <1>6, <1>7, <2>1 DEF F
<1> QED BY <1>9, <1>12, <1>13, <1>14 DEF Grows, n

\* Each part has its place in the whole.
LEMMA PartHasItsPlace ==
  ASSUME NEW S, NEW s \in Seq(Seq(S)), NEW F, Grows(F, s, S), NEW k \in 1..Len(s)
  PROVE  /\ Len(F[k - 1]) \in Nat /\ Len(F[k]) = Len(F[k - 1]) + Len(s[k])
         /\ Len(F[k]) <= Len(F[Len(s)])
         /\ Holds(F[Len(s)], Len(F[k - 1]), s[k])
<1> DEFINE n == Len(s)
           T == {j \in 0..n : k <= j => Holds(F[j], 0, F[k])}
<1>1. n \in Nat /\ (\A j \in 0..n : F[j] \in Seq(S)) /\ \A j \in 1..n : s[j] \in Seq(S)
  <2>1. n \in Nat /\ \A j \in 1..n : s[j] \in Seq(S)
    OBVIOUS
  <2>2. \A j \in 0..n : F[j] \in Seq(S)
    BY DEF Grows
  <2> QED BY <2>1, <2>2
<1> HIDE DEF n
<1>2. \A j \in 0..n : Holds(F[j], 0, F[j])
  <2>1. \A t \in Seq(S) : Len(t) \in Nat /\ 0 + Len(t) <= Len(t) /\ \A i \in 1..Len(t) : 0 + i = i
    OBVIOUS
  <2> QED BY <1>1, <2>1 DEF Holds
<1>3. k \in 0..n /\ k - 1 \in 0..n /\ k \in 1..n
  BY <1>1 DEF n
<1>4. 0 \in T
  BY <1>1, <1>3
<1>5. ASSUME NEW j \in 0..(n - 1), j \in T PROVE j + 1 \in T
  <2>1. j + 1 \in 1..n /\ j + 1 \in 0..n /\ j \in 0..n /\ (j + 1) - 1 = j
    BY <1>1
  <2>2. CASE k = j + 1
    BY <1>2, <2>1, <2>2
  <2>3. CASE k # j + 1
    <3>1. k <= j + 1 => k <= j
      BY <1>3, <2>3
    <3>2. F[j + 1] = F[j] \o s[j + 1] /\ F[j] \in Seq(S) /\ s[j + 1] \in Seq(S)
      BY <1>1, <2>1 DEF Grows, n
    <3>3. F[j + 1] \in Seq(S) /\ Holds(F[j + 1], 0, F[j])
      BY <3>2, HoldsConcat
    <3>4. k <= j => Holds(F[j + 1], 0 + 0, F[k])
      BY <1>1, <1>3, <1>5, <3>2, <3>3, HoldsWithin
    <3> QED BY <2>1, <3>1, <3>4
  <2> QED BY <2>2, <2>3
<1>6. Holds(F[n], 0, F[k])
  <2>1. \A j \in 0..n : j \in T
    <3> HIDE DEF T
    <3> QED BY <1>1, <1>4, <1>5, UpTo
  <2>2. n \in 0..n /\ k <= n
    BY <1>1, <1>3
  <2> QED BY <2>1, <2>2
<1>7. F[k] = F[k - 1] \o s[k] /\ F[k - 1] \in Seq(S) /\ s[k] \in Seq(S) /\ F[k] \in Seq(S)
  BY <1>1, <1>3 DEF Grows, n
<1>8. Len(F[k]) = Len(F[k - 1]) + Len(s[k]) /\ Holds(F[k], Len(F[k - 1]), s[k])
  BY <1>7, HoldsConcat
<1>9. F[n] \in Seq(S) /\ Len(F[n]) \in Nat /\ Len(F[k]) \in Nat /\ Len(F[k - 1]) \in Nat
  <2>1. n \in 0..n
    BY <1>1
  <2>2. F[n] \in Seq(S)
    BY <1>1, <2>1
  <2>3. \A t \in Seq(S) : Len(t) \in Nat
    OBVIOUS
  <2> QED BY <1>7, <2>2, <2>3
<1>10. Holds(F[n], Len(F[k - 1]), s[k])
  <2>1. 0 + Len(F[k - 1]) = Len(F[k - 1])
    BY <1>9
  <2>2. Holds(F[n], 0 + Len(F[k - 1]), s[k])
    BY <1>6, <1>7, <1>8, <1>9, HoldsWithin
  <2> QED BY <2>1, <2>2
<1>11. Len(F[k]) <= Len(F[n])
  BY <1>6, <1>9 DEF Holds
<1> HIDE DEF T
<1> QED BY <1>8, <1>9, <1>10, <1>11 DEF n
-----------------------------------------------------------------------------
(* TextLib: words that are escaped.                                        *)

\* A word that is escaped, character by character; q are the places where each
\* begins.
Piece(c, chars) == IF c \in chars THEN <<Backslash, c>> ELSE <<c>>

WrittenAt(str, q, word, chars) ==
  \A k \in 1..Len(word) :
    IF word[k] \in chars
      THEN /\ q[k] = q[k - 1] + 2
           /\ At(str, q[k - 1]) = Backslash /\ At(str, q[k - 1] + 1) = word[k]
      ELSE q[k] = q[k - 1] + 1 /\ At(str, q[k - 1]) = word[k]

\* A character, escaped or not, within a text.
LEMMA PieceAt ==
  ASSUME NEW S, Backslash \in S, NEW c \in S, NEW chars, NEW str \in Seq(S), NEW q \in Nat
  PROVE  /\ Piece(c, chars) \in Seq(S) /\ Len(Piece(c, chars)) = (IF c \in chars THEN 2 ELSE 1)
         /\ Holds(str, q, Piece(c, chars)) =>
              IF c \in chars THEN At(str, q) = Backslash /\ At(str, q + 1) = c ELSE At(str, q) = c
<1>1. CASE c \in chars
  <2>1. Piece(c, chars) = <<Backslash, c>>
    BY <1>1 DEF Piece
  <2> DEFINE t == <<Backslash, c>>
  <2>2. t \in Seq(S) /\ Len(t) = 2 /\ t[1] = Backslash /\ t[2] = c
    OBVIOUS
  <2>3. ASSUME Holds(str, q, t) PROVE At(str, q) = Backslash /\ At(str, q + 1) = c
    <3> HIDE DEF t
    <3>1. 0 \in 0..(Len(t) - 1) /\ 1 \in 0..(Len(t) - 1) /\ q + 0 = q
      BY <2>2
    <3>2. At(str, q + 0) = t[0 + 1]
      BY <2>2, <2>3, <3>1, HoldsAt
    <3>3. At(str, q + 1) = t[1 + 1]
      BY <2>2, <2>3, <3>1, HoldsAt
    <3> QED BY <2>2, <3>1, <3>2, <3>3
  <2> HIDE DEF t
  <2> QED BY <1>1, <2>1, <2>2, <2>3 DEF t
<1>2. CASE c \notin chars
  <2>1. Piece(c, chars) = <<c>>
    BY <1>2 DEF Piece
  <2> DEFINE t == <<c>>
  <2>2. t \in Seq(S) /\ Len(t) = 1 /\ t[1] = c
    OBVIOUS
  <2>3. ASSUME Holds(str, q, t) PROVE At(str, q) = c
    <3> HIDE DEF t
    <3>1. 0 \in 0..(Len(t) - 1) /\ q + 0 = q
      BY <2>2
    <3>2. At(str, q + 0) = t[0 + 1]
      BY <2>2, <2>3, <3>1, HoldsAt
    <3> QED BY <2>2, <3>1, <3>2
  <2> HIDE DEF t
  <2> QED BY <1>2, <2>1, <2>2, <2>3 DEF t
<1> QED BY <1>1, <1>2

LEMMA PieceSize ==
  ASSUME NEW S, Backslash \in S, NEW c \in S, NEW chars
  PROVE  Len(Piece(c, chars)) = (IF c \in chars THEN 2 ELSE 1)
BY DEF Piece

Pieces(word, chars) == [i \in DOMAIN word |-> Piece(word[i], chars)]

\* An escaped word is its pieces put together.
LEMMA PiecesAreTexts ==
  ASSUME NEW S, Backslash \in S, NEW word \in Seq(S), NEW chars
  PROVE  /\ Pieces(word, chars) \in Seq(Seq(S)) /\ Len(Pieces(word, chars)) = Len(word)
         /\ \A i \in 1..Len(word) :
              Pieces(word, chars)[i] = Piece(word[i], chars) /\ Piece(word[i], chars) \in Seq(S)
         /\ Escaped(word, chars) = FlattenSeq(Pieces(word, chars))
         /\ Escaped(word, chars) \in Seq(S)
<1> DEFINE n == Len(word)
           s == Pieces(word, chars)
<1>1. n \in Nat /\ DOMAIN word = 1..n /\ \A i \in 1..n : word[i] \in S
  OBVIOUS
<1>2. \A i \in 1..n : Piece(word[i], chars) \in Seq(S)
  <2>1. <<>> \in Seq(S) /\ 0 \in Nat
    OBVIOUS
  <2> HIDE DEF n
  <2> QED BY <1>1, <2>1, PieceAt
<1>3. s \in Seq(Seq(S)) /\ Len(s) = n /\ \A i \in 1..n : s[i] = Piece(word[i], chars)
  <2> HIDE DEF n
  <2>1. s \in [1..n -> Seq(S)]
    BY <1>1, <1>2 DEF Pieces
  <2>2. s \in Seq(Seq(S)) /\ Len(s) = n
    BY <1>1, <2>1
  <2> QED BY <1>1, <2>2 DEF Pieces
<1>4. Escaped(word, chars) = FlattenSeq(s)
  BY DEF Escaped, Piece, Pieces
<1> HIDE DEF s
<1>5. PICK F : Grows(F, s, S) /\ FlattenSeq(s) = F[Len(s)]
  BY <1>3, Flattened
<1>6. FlattenSeq(s) \in Seq(S)
  <2>1. n \in 0..n
    BY <1>1
  <2>2. F \in [0..n -> Seq(S)]
    BY <1>3, <1>5 DEF Grows
  <2> QED BY <1>3, <1>5, <2>1, <2>2
<1> QED BY <1>2, <1>3, <1>4, <1>6 DEF s

\* An escaped word within a text has its characters there, in order.
LEMMA EscapedPlaces ==
  ASSUME NEW S, Backslash \in S, NEW word \in Seq(S), NEW chars, NEW str \in Seq(S), NEW p \in Nat,
         Holds(str, p, Escaped(word, chars))
  PROVE  /\ Escaped(word, chars) \in Seq(S)
         /\ \E q \in [0..Len(word) -> Nat] :
              /\ q[0] = p /\ q[Len(word)] = p + Len(Escaped(word, chars))
              /\ WrittenAt(str, q, word, chars)
<1> DEFINE n == Len(word)
           s == Pieces(word, chars)
           text == Escaped(word, chars)
<1>1. n \in Nat /\ \A i \in 1..n : word[i] \in S
  OBVIOUS
<1>2. \A i \in 1..n : Piece(word[i], chars) \in Seq(S)
  BY PiecesAreTexts
<1>3. s \in Seq(Seq(S)) /\ Len(s) = n /\ \A i \in 1..n : s[i] = Piece(word[i], chars)
  BY PiecesAreTexts
<1>4. text = FlattenSeq(s)
  BY PiecesAreTexts
<1> HIDE DEF s, text
<1>5. PICK F : Grows(F, s, S) /\ FlattenSeq(s) = F[Len(s)]
  BY <1>3, Flattened
<1> HIDE DEF n
<1> DEFINE q == [k \in 0..n |-> p + Len(F[k])]
<1>6. (\A k \in 0..n : F[k] \in Seq(S)) /\ F[0] = <<>> /\ text = F[n]
  BY <1>3, <1>4, <1>5 DEF Grows
<1>7. \A k \in 0..n : Len(F[k]) \in Nat
  <2>1. \A t \in Seq(S) : Len(t) \in Nat
    OBVIOUS
  <2> QED BY <1>6, <2>1
<1>8. q \in [0..n -> Nat] /\ q[0] = p /\ q[n] = p + Len(text)
  <2>1. Len(<<>>) = 0 /\ 0 \in 0..n /\ n \in 0..n
    BY <1>1
  <2>2. \A k \in 0..n : p + Len(F[k]) \in Nat
    BY <1>7
  <2>3. p + Len(F[0]) = p /\ p + Len(F[n]) = p + Len(text)
    BY <1>6, <2>1
  <2> QED BY <2>1, <2>2, <2>3
<1>9. text \in Seq(S)
  <2>1. n \in 0..n
    BY <1>1
  <2> QED BY <1>6, <2>1
<1>10. ASSUME NEW k \in 1..n
       PROVE  IF word[k] \in chars
                THEN /\ q[k] = q[k - 1] + 2
                     /\ At(str, q[k - 1]) = Backslash /\ At(str, q[k - 1] + 1) = word[k]
                ELSE q[k] = q[k - 1] + 1 /\ At(str, q[k - 1]) = word[k]
  <2>1. k \in 0..n /\ k - 1 \in 0..n
    BY <1>1
  <2> DEFINE l == Len(F[k - 1])
             t == Piece(word[k], chars)
  <2>2. l \in Nat /\ Len(F[k]) = l + Len(t) /\ Holds(text, l, t)
    <3>1. k \in 1..Len(s) /\ s[k] = t /\ F[Len(s)] = text
      BY <1>3, <1>6
    <3>2. /\ Len(F[k - 1]) \in Nat /\ Len(F[k]) = Len(F[k - 1]) + Len(s[k])
          /\ Holds(F[Len(s)], Len(F[k - 1]), s[k])
      BY <1>3, <1>5, <3>1, PartHasItsPlace
    <3> HIDE DEF t
    <3> QED BY <3>1, <3>2
  <2>3. t \in Seq(S)
    BY <1>2
  <2>4. Holds(str, p + l, t)
    <3> HIDE DEF l, t
    <3> QED BY <1>9, <2>2, <2>3, HoldsWithin DEF text
  <2>5. q[k - 1] = p + l /\ q[k] = p + (l + Len(t))
    BY <2>1, <2>2
  <2>6. p + l \in Nat /\ word[k] \in S
    BY <1>1, <2>2
  <2> DEFINE r == p + l
  <2>7. Len(t) = (IF word[k] \in chars THEN 2 ELSE 1)
    BY <2>6, PieceSize
  <2>8. IF word[k] \in chars THEN At(str, r) = Backslash /\ At(str, r + 1) = word[k]
          ELSE At(str, r) = word[k]
    <3>1. Holds(str, r, t)
      BY <2>4
    <3>2. r \in Nat
      BY <2>6
    <3> HIDE DEF r, l
    <3> QED BY <2>6, <3>1, <3>2, PieceAt DEF t
  <2>9. p + (l + 2) = r + 2 /\ p + (l + 1) = r + 1
    BY <2>2
  <2> HIDE DEF q, t, l
  <2> QED BY <2>5, <2>7, <2>8, <2>9
<1>11. WrittenAt(str, q, word, chars)
  <2> HIDE DEF q
  <2> QED BY <1>10 DEF WrittenAt, n
<1> HIDE DEF q
<1> QED BY <1>8, <1>9, <1>11 DEF n, text

\* Behind a word the next character is not escaped, and within it all that had
\* to be are.
LEMMA EscapedWord ==
  ASSUME NEW S, NEW word \in Seq(S), NEW chars, Backslash \in chars, NEW str,
         NEW q \in [0..Len(word) -> Nat], WrittenAt(str, q, word, chars), ~ is_escaped(str, q[0])
  PROVE  /\ ~ is_escaped(str, q[Len(word)])
         /\ q[0] + Len(word) <= q[Len(word)]
         /\ \A i \in q[0]..(q[Len(word)] - 1) :
              At(str, i) \in chars /\ At(str, i) # Backslash => is_escaped(str, i)
<1> DEFINE n == Len(word)
           Sound(k) == /\ ~ is_escaped(str, q[k])
                       /\ q[0] + k <= q[k]
                       /\ \A i \in q[0]..(q[k] - 1) :
                            At(str, i) \in chars /\ At(str, i) # Backslash => is_escaped(str, i)
           T == {k \in 0..n : Sound(k)}
<1>1. n \in Nat
  OBVIOUS
<1>2. \A k \in 0..n : q[k] \in Nat
  OBVIOUS
<1> HIDE DEF n
<1>3. 0 \in T
  <2>1. 0 \in 0..n /\ q[0] \in Nat
    BY <1>1, <1>2
  <2>2. q[0] + 0 <= q[0] /\ q[0]..(q[0] - 1) = {}
    BY <2>1
  <2> QED BY <2>1, <2>2
<1>4. ASSUME NEW k \in 0..(n - 1), k \in T PROVE k + 1 \in T
  <2>1. k \in 0..n /\ k + 1 \in 1..n /\ k + 1 \in 0..n /\ (k + 1) - 1 = k /\ k \in Nat
    BY <1>1
  <2> DEFINE r == q[k]
             c == word[k + 1]
  <2>2. r \in Nat /\ q[0] \in Nat
    BY <1>1, <1>2, <2>1
  <2>3. IF c \in chars
          THEN q[k + 1] = r + 2 /\ At(str, r) = Backslash /\ At(str, r + 1) = c
          ELSE q[k + 1] = r + 1 /\ At(str, r) = c
    BY <2>1 DEF WrittenAt, n
  <2>4. /\ ~ is_escaped(str, r) /\ q[0] + k <= r
        /\ \A i \in q[0]..(r - 1) : At(str, i) \in chars /\ At(str, i) # Backslash => is_escaped(str, i)
    BY <1>4
  <2> HIDE DEF r, c
  <2>5. CASE c \in chars
    <3>1. is_escaped(str, r + 1)
      BY <2>2, <2>3, <2>4, <2>5, EscapedStep
    <3>2. r + 1 \in Nat /\ (r + 1) + 1 = r + 2
      BY <2>2
    <3>3. ~ is_escaped(str, (r + 1) + 1)
      BY <3>1, <3>2, EscapedStep
    <3>4. q[0] + (k + 1) <= r + 2 /\ \A i \in q[0]..((r + 2) - 1) : i \in q[0]..(r - 1) \/ i = r \/ i = r + 1
      BY <2>1, <2>2, <2>4
    <3>5. \A i \in q[0]..((r + 2) - 1) : At(str, i) \in chars /\ At(str, i) # Backslash => is_escaped(str, i)
      BY <2>3, <2>4, <2>5, <3>1, <3>4
    <3>6. Sound(k + 1)
      BY <2>3, <2>5, <3>2, <3>3, <3>4, <3>5
    <3> QED BY <2>1, <3>6
  <2>6. CASE c \notin chars
    <3>1. ~ is_escaped(str, r + 1)
      BY <2>2, <2>3, <2>6, EscapedStep
    <3>2. q[0] + (k + 1) <= r + 1 /\ \A i \in q[0]..((r + 1) - 1) : i \in q[0]..(r - 1) \/ i = r
      BY <2>1, <2>2, <2>4
    <3>3. \A i \in q[0]..((r + 1) - 1) : At(str, i) \in chars /\ At(str, i) # Backslash => is_escaped(str, i)
      BY <2>3, <2>4, <2>6, <3>2
    <3>4. Sound(k + 1)
      BY <2>3, <2>6, <3>1, <3>2, <3>3
    <3> QED BY <2>1, <3>4
  <2> QED BY <2>5, <2>6
<1>5. Sound(n)
  <2>1. \A k \in 0..n : k \in T
    <3> HIDE DEF T
    <3> QED BY <1>1, <1>3, <1>4, UpTo
  <2>2. n \in 0..n
    BY <1>1
  <2> HIDE DEF Sound
  <2> QED BY <2>1, <2>2
<1> QED BY <1>5 DEF n

\* What begins later ends later.
LEMMA Rising ==
  ASSUME NEW n \in Nat, NEW q \in [0..n -> Nat], \A k \in 1..n : q[k - 1] < q[k]
  PROVE  \A k \in 0..n : q[k] + (n - k) <= q[n]
<1> DEFINE T == {m \in 0..n : q[n - m] + m <= q[n]}
<1>1. \A k \in 0..n : q[k] \in Nat
  OBVIOUS
<1>2. 0 \in T
  <2>1. 0 \in 0..n /\ n - 0 = n /\ n \in 0..n
    OBVIOUS
  <2> QED BY <1>1, <2>1
<1>3. ASSUME NEW m \in 0..(n - 1), m \in T PROVE m + 1 \in T
  <2>1. /\ m + 1 \in 0..n /\ n - m \in 1..n /\ n - m \in 0..n /\ (n - m) - 1 = n - (m + 1)
        /\ n - (m + 1) \in 0..n /\ m \in Nat
    OBVIOUS
  <2>2. q[n - (m + 1)] < q[n - m] /\ q[n - m] + m <= q[n]
    BY <1>3, <2>1
  <2>3. q[n - (m + 1)] \in Nat /\ q[n - m] \in Nat /\ q[n] \in Nat
    BY <1>1, <2>1
  <2>4. q[n - (m + 1)] + (m + 1) <= q[n]
    BY <2>1, <2>2, <2>3
  <2> QED BY <2>1, <2>4
<1>4. \A m \in 0..n : m \in T
  <2> HIDE DEF T
  <2> QED BY <1>2, <1>3, UpTo
<1>5. ASSUME NEW k \in 0..n PROVE q[k] + (n - k) <= q[n]
  <2>1. n - k \in 0..n /\ n - (n - k) = k
    OBVIOUS
  <2>2. n - k \in T
    BY <1>4, <2>1
  <2> QED BY <2>1, <2>2
<1> QED BY <1>5
-----------------------------------------------------------------------------
(* TextLib: the first place of a character.                                *)

\* The first of some places, and what a search gives for those from i on.
First(places) == IF places = {} THEN -1 ELSE Min(places)

\* It is one of them.
LEMMA FirstIsLeast ==
  ASSUME NEW n \in Nat, NEW T \in SUBSET (0..(n - 1))
  PROVE  /\ T = {} => First(T) = -1
         /\ T # {} => First(T) \in T /\ First(T) \in 0..(n - 1) /\ \A m \in T : First(T) <= m
<1>1. T \in SUBSET Nat
  <2>1. \A m \in 0..(n - 1) : m \in Nat
    OBVIOUS
  <2> QED BY <2>1
<1>2. CASE T = {}
  BY <1>2 DEF First
<1>3. CASE T # {}
  BY <1>1, <1>3, MinIsLeast DEF First
<1> QED BY <1>2, <1>3

Places(str, i, c) == {j \in i..(Len(str) - 1) : At(str, j) = c}

\* One place on, the search is the same but for the place it leaves.
LEMMA FirstOnward ==
  ASSUME NEW S, NEW str \in Seq(S), NEW i \in 0..(Len(str) - 1), NEW c
  PROVE  /\ At(str, i) = c => First(Places(str, i, c)) = i
         /\ At(str, i) # c => First(Places(str, i, c)) = First(Places(str, i + 1, c))
<1> DEFINE n == Len(str)
           T == Places(str, i, c)
<1>1. n \in Nat /\ i \in Nat /\ i \in i..(n - 1)
  OBVIOUS
<1>2. T \in SUBSET (0..(n - 1)) /\ \A j \in T : i <= j
  BY <1>1 DEF Places
<1>3. ASSUME At(str, i) = c PROVE First(T) = i
  <2>1. i \in T
    BY <1>1, <1>3 DEF Places
  <2> HIDE DEF T
  <2>2. First(T) <= i /\ First(T) \in T /\ First(T) \in 0..(n - 1)
    BY <1>1, <1>2, <2>1, FirstIsLeast
  <2>3. i <= First(T)
    BY <1>2, <2>2
  <2> QED BY <1>1, <2>2, <2>3
<1>4. ASSUME At(str, i) # c PROVE T = Places(str, i + 1, c)
  <2>1. \A j \in i..(n - 1) : j = i \/ j \in (i + 1)..(n - 1)
    BY <1>1
  <2>2. \A j \in (i + 1)..(n - 1) : j \in i..(n - 1)
    BY <1>1
  <2> QED BY <1>4, <2>1, <2>2 DEF Places
<1> QED BY <1>3, <1>4

\* A search that finds something finds the character.
LEMMA FirstPlace ==
  ASSUME NEW S, NEW str \in Seq(S), NEW i \in 0..Len(str), NEW c
  PROVE  LET next == First(Places(str, i, c)) IN
           /\ next = -1 \/ (next \in i..(Len(str) - 1) /\ At(str, next) = c)
<1> DEFINE n == Len(str)
           T == Places(str, i, c)
<1>1. n \in Nat /\ T \in SUBSET (0..(n - 1)) /\ \A j \in T : j \in i..(n - 1) /\ At(str, j) = c
  BY DEF Places
<1> HIDE DEF T
<1> QED BY <1>1, FirstIsLeast DEF T

\* Parts of a text between two places.
LEMMA SliceOfText ==
  ASSUME NEW S, NEW str \in Seq(S), NEW i \in 0..Len(str), NEW j \in (i - 1)..(Len(str) - 1)
  PROVE  /\ Slice(str, i, j) \in Seq(S) /\ Len(Slice(str, i, j)) = (j + 1) - i
         /\ \A k \in 1..((j + 1) - i) : Slice(str, i, j)[k] = str[i + k]
         /\ j = i - 1 => Slice(str, i, j) = <<>>
         /\ i <= j => Slice(str, i, j) = <<At(str, i)>> \o Slice(str, i + 1, j)
<1> DEFINE l == Len(str)
           m == i + 1
           t == Slice(str, i, j)
<1>1. l \in Nat /\ m \in Int /\ i \in Nat /\ j \in Int /\ j + 1 \in Int /\ j + 1 <= l
  OBVIOUS
<1>2. \A k \in m..(j + 1) : str[k] \in S
  <2>1. \A k \in m..(j + 1) : k \in 1..l
    BY <1>1
  <2>2. \A k \in 1..l : str[k] \in S
    OBVIOUS
  <2> QED BY <2>1, <2>2
<1>3. t = SubSeq(str, m, j + 1)
  BY DEF Slice
<1> HIDE DEF m, t, l
<1>4. /\ t \in Seq(S) /\ Len(t) = (IF m <= j + 1 THEN (j + 1) - m + 1 ELSE 0)
      /\ \A k \in 1..((j + 1) - m + 1) : t[k] = str[m + k - 1]
  BY <1>1, <1>2, <1>3, SubSeqProperties
<1>5. /\ (m <= j + 1 => (j + 1) - m + 1 = (j + 1) - i) /\ (~ (m <= j + 1) => (j + 1) - i = 0)
      /\ (j + 1) - m + 1 = (j + 1) - i /\ \A k \in 1..((j + 1) - i) : m + k - 1 = i + k
  BY <1>1 DEF m
<1>6. Len(t) = (j + 1) - i /\ \A k \in 1..((j + 1) - i) : t[k] = str[i + k]
  BY <1>4, <1>5
<1>7. j = i - 1 => t = <<>>
  <2>1. j = i - 1 => Len(t) = 0
    BY <1>1, <1>6
  <2> QED BY <1>4, <2>1
<1>8. ASSUME i <= j PROVE t = <<At(str, i)>> \o Slice(str, i + 1, j)
  <2>1. m \in 1..Len(str) /\ j + 1 \in m..Len(str) /\ i < Len(str)
    BY <1>1, <1>8 DEF m, l
  <2>2. t = <<str[m]>> \o SubSeq(str, m + 1, j + 1)
    BY <1>3, <2>1, SubSeqRecursiveFirst
  <2> QED BY <2>1, <2>2 DEF Slice, At, m
<1> QED BY <1>4, <1>6, <1>7, <1>8 DEF t
-----------------------------------------------------------------------------
(* TextLib: escapes.                                                       *)

\* What unescape() does from place i on, if g is what it does from later ones.
UnescapedFrom(str, g, i) ==
  LET next == First(Places(str, i, Backslash))
  IN  IF next = -1 THEN Rest(str, i)
        ELSE IF next = Len(str) - 1 THEN Slice(str, i, next - 1)
        ELSE Slice(str, i, next - 1) \o <<At(str, next + 1)>> \o g[next + 2]

\* It depends on later places only.
LEMMA UnescapedFromIsAText ==
  ASSUME NEW S, NEW str \in Seq(S), NEW i \in 0..Len(str), NEW g, NEW h,
         AgreeBehind(g, h, i, Len(str), Seq(S))
  PROVE  UnescapedFrom(str, g, i) \in Seq(S) /\ UnescapedFrom(str, h, i) = UnescapedFrom(str, g, i)
<1> DEFINE n == Len(str)
           next == First(Places(str, i, Backslash))
<1>1. n \in Nat /\ i \in Nat /\ i <= n
  OBVIOUS
<1>2. next = -1 \/ next \in i..(n - 1)
  BY FirstPlace
<1> HIDE DEF next
<1>3. CASE next = -1
  <2>1. UnescapedFrom(str, g, i) = Rest(str, i) /\ UnescapedFrom(str, h, i) = Rest(str, i)
    BY <1>3 DEF UnescapedFrom, next
  <2>2. Rest(str, i) \in Seq(S)
    BY RestOfText
  <2> QED BY <2>1, <2>2
<1>4. CASE next # -1
  <2>1. next \in i..(n - 1) /\ next - 1 \in (i - 1)..(n - 1) /\ next \in Nat
    BY <1>1, <1>2, <1>4
  <2>2. Slice(str, i, next - 1) \in Seq(S)
    BY <2>1, SliceOfText
  <2>3. CASE next = n - 1
    <3>1. UnescapedFrom(str, g, i) = Slice(str, i, next - 1) /\ UnescapedFrom(str, h, i) = Slice(str, i, next - 1)
      BY <1>4, <2>3 DEF UnescapedFrom, next
    <3> QED BY <2>2, <3>1
  <2>4. CASE next # n - 1
    <3>1. next + 2 \in 0..n /\ i < next + 2 /\ next + 1 < n
      BY <1>1, <2>1, <2>4
    <3>2. At(str, next + 1) \in S
      <4>1. (next + 1) + 1 \in 1..n
        BY <1>1, <2>1, <3>1
      <4> QED BY <3>1, <4>1 DEF At
    <3>3. /\ UnescapedFrom(str, g, i) = Slice(str, i, next - 1) \o <<At(str, next + 1)>> \o g[next + 2]
          /\ UnescapedFrom(str, h, i) = Slice(str, i, next - 1) \o <<At(str, next + 1)>> \o h[next + 2]
      BY <1>4, <2>4 DEF UnescapedFrom, next
    <3>4. g[next + 2] \in Seq(S) /\ h[next + 2] = g[next + 2]
      BY <3>1 DEF AgreeBehind
    <3>5. \A t, u \in Seq(S) : \A c \in S : t \o <<c>> \o u \in Seq(S)
      OBVIOUS
    <3> QED BY <2>2, <3>2, <3>3, <3>4, <3>5
  <2> QED BY <2>3, <2>4
<1> QED BY <1>3, <1>4

\* unescape() is done place by place.
LEMMA UnescapedRounds ==
  ASSUME NEW S, NEW str \in Seq(S)
  PROVE  \E g \in [0..Len(str) -> Seq(S)] :
           unescape(str) = g[0] /\ \A i \in 0..Len(str) : g[i] = UnescapedFrom(str, g, i)
<1> DEFINE n == Len(str)
           V == Seq(S)
           step == [p \in [0..n -> V] \X (0..n) |-> UnescapedFrom(str, p[1], p[2])]
           g == CHOOSE f : f = [i \in 0..n |-> UnescapedFrom(str, f, i)]
<1>1. n \in Nat /\ V # {}
  <2>1. <<>> \in Seq(S)
    OBVIOUS
  <2> QED BY <2>1
<1>2. unescape(str) = g[0]
  BY DEF unescape, Search, First, Places, UnescapedFrom
<1> HIDE DEF V
<1>3. ASSUME NEW f, NEW h, NEW i \in 0..n, AgreeBehind(f, h, i, n, V)
      PROVE  UnescapedFrom(str, f, i) \in V /\ UnescapedFrom(str, h, i) = UnescapedFrom(str, f, i)
  BY <1>3, UnescapedFromIsAText DEF V
<1> HIDE DEF n
<1>4. \A f \in [0..n -> V] : \A i \in 0..n : step[<<f, i>>] = UnescapedFrom(str, f, i)
  OBVIOUS
<1>5. step \in [[0..n -> V] \X (0..n) -> V]
  <2>1. ASSUME NEW p \in [0..n -> V] \X (0..n) PROVE UnescapedFrom(str, p[1], p[2]) \in V
    <3>1. AgreeBehind(p[1], p[1], p[2], n, V)
      BY DEF AgreeBehind
    <3> QED BY <1>3, <3>1
  <2> QED BY <2>1
<1> HIDE DEF step, g
<1>6. LooksBehind(step, n, V)
  BY <1>3, <1>4 DEF LooksBehind
<1>7. PICK f \in [0..n -> V] : Follows(f, 0..n, step)
  BY <1>1, <1>5, <1>6, FromBehind
<1>8. f = [i \in 0..n |-> UnescapedFrom(str, f, i)]
  BY <1>4, <1>7 DEF Follows
<1>9. g = [i \in 0..n |-> UnescapedFrom(str, g, i)]
  BY <1>8 DEF g
<1>10. \A i \in 0..n : g[i] = UnescapedFrom(str, g, i)
  BY <1>9
<1>11. g \in [0..n -> V]
  <2>1. g = [i \in 0..n |-> g[i]]
    BY <1>9, <1>10
  <2>2. \A i \in 0..n : AgreeBehind(g, g, i, n, V) => g[i] \in V
    BY <1>3, <1>10
  <2> QED BY <1>1, <2>1, <2>2, FromBehindStays
<1> QED BY <1>2, <1>10, <1>11 DEF n, V

\* A character that is no backslash stands for itself, one behind a backslash
\* too.
LEMMA UnescapeStep ==
  ASSUME NEW S, NEW str \in Seq(S), NEW g \in [0..Len(str) -> Seq(S)],
         \A i \in 0..Len(str) : g[i] = UnescapedFrom(str, g, i),
         NEW i \in 0..Len(str)
  PROVE  /\ i = Len(str) => g[i] = <<>>
         /\ i < Len(str) /\ At(str, i) # Backslash => g[i] = <<At(str, i)>> \o g[i + 1]
         /\ i + 1 < Len(str) /\ At(str, i) = Backslash => g[i] = <<At(str, i + 1)>> \o g[i + 2]
<1> DEFINE n == Len(str)
           next == First(Places(str, i, Backslash))
           c == At(str, i)
<1>1. n \in Nat /\ i \in 0..n /\ n \in 0..n
  OBVIOUS
<1>2. next = -1 \/ (next \in i..(n - 1) /\ At(str, next) = Backslash)
  BY FirstPlace
<1>3. Rest(str, i) = Slice(str, i, n - 1)
  BY DEF Rest
<1>4. g[i] = UnescapedFrom(str, g, i) /\ \A j \in 0..n : g[j] \in Seq(S)
  OBVIOUS
<1>5. n - 1 \in (i - 1)..(n - 1)
  BY <1>1
<1>6. ASSUME i = n PROVE g[i] = <<>>
  <2>1. next = -1
    BY <1>1, <1>2, <1>6
  <2>2. g[i] = Rest(str, i)
    BY <1>4, <2>1 DEF UnescapedFrom
  <2> QED BY <1>1, <1>3, <1>5, <1>6, <2>2, SliceOfText
<1>7. ASSUME i < n, c # Backslash PROVE g[i] = <<c>> \o g[i + 1]
  <2>1. i \in 0..(n - 1) /\ i + 1 \in 0..n
    BY <1>1, <1>7
  <2>2. next = First(Places(str, i + 1, Backslash))
    BY <1>7, <2>1, FirstOnward
  <2>3. g[i + 1] = UnescapedFrom(str, g, i + 1)
    BY <2>1
  <2>4. c \in S
    <3>1. i + 1 \in 1..n
      BY <2>1
    <3> QED BY <1>7, <3>1 DEF At
  <2> HIDE DEF next, n, c
  <2>5. CASE next = -1
    <3>1. g[i] = Slice(str, i, n - 1) /\ g[i + 1] = Slice(str, i + 1, n - 1)
      BY <1>3, <1>4, <2>2, <2>3, <2>5 DEF UnescapedFrom, Rest, next, n
    <3>2. i <= n - 1
      BY <2>1
    <3> QED BY <1>5, <3>1, <3>2, SliceOfText DEF n, c
  <2>6. CASE next # -1
    <3>1. next \in i..(n - 1) /\ At(str, next) = Backslash
      BY <1>2, <2>6
    <3>2. next # i
      BY <1>7, <3>1 DEF c
    <3>3. i <= next - 1 /\ next - 1 \in (i - 1)..(n - 1) /\ next - 1 \in ((i + 1) - 1)..(n - 1)
      BY <1>1, <3>1, <3>2
    <3>4. Slice(str, i, next - 1) = <<c>> \o Slice(str, i + 1, next - 1)
      BY <3>3, SliceOfText DEF n, c
    <3>5. Slice(str, i + 1, next - 1) \in Seq(S)
      BY <2>1, <3>3, SliceOfText DEF n
    <3>6. CASE next = n - 1
      <4>1. g[i] = Slice(str, i, next - 1) /\ g[i + 1] = Slice(str, i + 1, next - 1)
        BY <1>4, <2>2, <2>3, <2>6, <3>6 DEF UnescapedFrom, next, n
      <4> QED BY <3>4, <4>1
    <3>7. CASE next # n - 1
      <4> DEFINE t == Slice(str, i + 1, next - 1)
                 u == <<At(str, next + 1)>>
                 v == g[next + 2]
      <4>1. g[i] = (Slice(str, i, next - 1) \o u) \o v /\ g[i + 1] = (t \o u) \o v
        BY <1>4, <2>2, <2>3, <2>6, <3>7 DEF UnescapedFrom, next, n
      <4>2. u \in Seq(S)
        <5>1. next + 1 < Len(str) /\ (next + 1) + 1 \in 1..Len(str)
          BY <1>1, <3>1, <3>7 DEF n
        <5> QED BY <5>1 DEF At
      <4>3. v \in Seq(S)
        <5>1. next + 2 \in 0..n
          BY <1>1, <3>1, <3>7
        <5> QED BY <1>4, <5>1
      <4>4. t \in Seq(S) /\ <<c>> \in Seq(S)
        BY <2>4, <3>5
      <4> HIDE DEF t, u, v
      <4>5. ((<<c>> \o t) \o u) \o v = <<c>> \o ((t \o u) \o v)
        <5>1. (<<c>> \o t) \o u = <<c>> \o (t \o u) /\ t \o u \in Seq(S)
          BY <4>2, <4>4, ConcatAssociative, ConcatProperties
        <5>2. (<<c>> \o (t \o u)) \o v = <<c>> \o ((t \o u) \o v)
          BY <4>3, <4>4, <5>1, ConcatAssociative
        <5> QED BY <5>1, <5>2
      <4> QED BY <3>4, <4>1, <4>5 DEF t
    <3> QED BY <3>6, <3>7
  <2> QED BY <2>5, <2>6
<1>8. ASSUME i + 1 < n, c = Backslash PROVE g[i] = <<At(str, i + 1)>> \o g[i + 2]
  <2>1. i \in 0..(n - 1) /\ i # -1 /\ i # n - 1 /\ i - 1 \in (i - 1)..(n - 1) /\ i + 2 \in 0..n
    BY <1>1, <1>8
  <2>2. next = i
    BY <1>8, <2>1, FirstOnward
  <2>3. g[i] = Slice(str, i, i - 1) \o <<At(str, i + 1)>> \o g[i + 2]
    BY <1>4, <2>1, <2>2 DEF UnescapedFrom
  <2>4. Slice(str, i, i - 1) = <<>>
    BY <1>1, <2>1, SliceOfText
  <2>5. <<At(str, i + 1)>> \in Seq(S) /\ g[i + 2] \in Seq(S)
    <3>1. (i + 1) + 1 \in 1..Len(str) /\ i + 1 < Len(str)
      BY <1>1, <1>8
    <3>2. At(str, i + 1) \in S
      BY <3>1 DEF At
    <3> QED BY <1>4, <2>1, <3>2
  <2> QED BY <2>3, <2>4, <2>5, ConcatEmptySeq
<1> QED BY <1>6, <1>7, <1>8

\* A word that was escaped is the same again when it is unescaped.
LEMMA UnescapedWord ==
  ASSUME NEW S, Backslash \in S, NEW word \in Seq(S), NEW chars, Backslash \in chars
  PROVE  unescape(Escaped(word, chars)) = word
<1> DEFINE str == Escaped(word, chars)
           n == Len(str)
           m == Len(word)
<1>1. str \in Seq(S) /\ n \in Nat /\ m \in Nat
  <2>1. str \in Seq(S)
    BY PiecesAreTexts
  <2> QED BY <2>1
<1>2. Holds(str, 0, str)
  <2> HIDE DEF str
  <2> QED BY <1>1 DEF Holds
<1>3. PICK q \in [0..m -> Nat] : q[0] = 0 /\ q[m] = 0 + n /\ WrittenAt(str, q, word, chars)
  BY <1>1, <1>2, EscapedPlaces
<1> HIDE DEF str
<1>4. PICK g \in [0..n -> Seq(S)] : unescape(str) = g[0] /\ \A i \in 0..n : g[i] = UnescapedFrom(str, g, i)
  BY <1>1, UnescapedRounds
<1> HIDE DEF m, n
<1>5. \A k \in 1..m : q[k] \in Nat /\ q[k - 1] \in Nat /\ word[k] \in S
  <2>1. \A k \in 1..m : k \in 0..m /\ k - 1 \in 0..m
    BY <1>1
  <2>2. \A k \in 1..m : word[k] \in S
    BY DEF m
  <2> QED BY <2>1, <2>2
<1>6. \A k \in 1..m : q[k - 1] < q[k]
  BY <1>3, <1>5 DEF WrittenAt, m
<1>7. \A k \in 0..m : q[k] + (m - k) <= q[m]
  BY <1>1, <1>6, Rising
<1>8. \A k \in 1..m : q[k] <= n
  <2>1. ASSUME NEW k \in 1..m PROVE q[k] <= n
    <3>1. k \in 0..m /\ m - k \in Nat
      BY <1>1
    <3>2. q[k] + (m - k) <= n
      BY <1>1, <1>3, <1>7, <3>1
    <3> QED BY <1>1, <1>5, <3>1, <3>2
  <2> QED BY <2>1
<1> DEFINE T == {j \in 0..m : g[q[m - j]] = SubSeq(word, (m - j) + 1, m)}
<1>9. 0 \in T
  <2>1. q[m] = n /\ n \in 0..n /\ n = Len(str)
    BY <1>1, <1>3 DEF n
  <2>2. g[n] = <<>>
    BY <1>1, <1>4, <2>1, UnescapeStep DEF n
  <2>3. SubSeq(word, m + 1, m) = <<>>
    BY <1>1, SubSeqEmpty
  <2>4. m - 0 = m /\ 0 \in 0..m
    BY <1>1
  <2> QED BY <2>1, <2>2, <2>3, <2>4
<1>10. ASSUME NEW j \in 0..(m - 1), j \in T PROVE j + 1 \in T
  <2> DEFINE k == m - j
             i == q[k - 1]
             c == word[k]
  <2>1. k \in 1..m /\ k - 1 = m - (j + 1) /\ j + 1 \in 0..m
    BY <1>1
  <2>2. g[q[k]] = SubSeq(word, k + 1, m)
    BY <1>10
  <2>3. IF c \in chars
          THEN q[k] = i + 2 /\ At(str, i) = Backslash /\ At(str, i + 1) = c
          ELSE q[k] = i + 1 /\ At(str, i) = c
    BY <1>3, <2>1 DEF WrittenAt, m
  <2>4. i \in Nat /\ q[k] \in Nat /\ q[k] <= n /\ c \in S
    BY <1>5, <1>8, <2>1
  <2>5. SubSeq(word, k, m) = <<c>> \o SubSeq(word, k + 1, m)
    <3>1. k \in 1..Len(word) /\ m \in k..Len(word)
      BY <1>1, <2>1 DEF m
    <3> HIDE DEF k
    <3> QED BY <3>1, SubSeqRecursiveFirst
  <2> HIDE DEF k, i, c
  <2>6. i \in 0..Len(str)
    BY <1>1, <2>3, <2>4 DEF n
  <2>7. g[i] = <<c>> \o g[q[k]]
    <3>0. /\ i < Len(str) /\ At(str, i) # Backslash => g[i] = <<At(str, i)>> \o g[i + 1]
          /\ i + 1 < Len(str) /\ At(str, i) = Backslash => g[i] = <<At(str, i + 1)>> \o g[i + 2]
      BY <1>1, <1>4, <2>6, UnescapeStep DEF n
    <3>1. CASE c \in chars
      <4>1. i + 1 < Len(str) /\ At(str, i) = Backslash
        BY <1>1, <2>3, <2>4, <3>1 DEF n
      <4> QED BY <2>3, <3>0, <3>1, <4>1
    <3>2. CASE c \notin chars
      <4>1. i < Len(str) /\ At(str, i) # Backslash
        BY <1>1, <2>3, <2>4, <3>2 DEF n
      <4> QED BY <2>3, <3>0, <3>2, <4>1
    <3> QED BY <3>1, <3>2
  <2>8. (m - (j + 1)) + 1 = k /\ i = q[m - (j + 1)]
    <3>1. (m - (j + 1)) + 1 = k
      BY <1>1 DEF k
    <3> QED BY <2>1, <3>1 DEF i
  <2> QED BY <2>1, <2>2, <2>5, <2>7, <2>8
<1>11. g[q[0]] = SubSeq(word, 1, m)
  <2>1. \A j \in 0..m : j \in T
    <3> HIDE DEF T
    <3> QED BY <1>1, <1>9, <1>10, UpTo
  <2>2. m \in T /\ m - m = 0 /\ 0 + 1 = 1
    BY <1>1, <2>1
  <2> QED BY <2>2
<1>12. SubSeq(word, 1, m) = word
  BY SubSeqFull DEF m
<1> QED BY <1>3, <1>4, <1>11, <1>12 DEF str
-----------------------------------------------------------------------------
(* TextLib: parts of a list.                                               *)

LEMMA SliceIsAText ==
  ASSUME NEW S, NEW str \in Seq(S), NEW i \in 0..Len(str), NEW j \in -1..(Len(str) - 1)
  PROVE  Slice(str, i, j) \in Seq(S)
<1> DEFINE l == Len(str)
           m == i + 1
<1>1. l \in Nat /\ m \in Int /\ j + 1 \in Int /\ \A k \in m..(j + 1) : k \in 1..l
  OBVIOUS
<1>2. \A k \in m..(j + 1) : str[k] \in S
  <2>1. \A k \in 1..l : str[k] \in S
    OBVIOUS
  <2> QED BY <1>1, <2>1
<1> HIDE DEF m, l
<1>3. SubSeq(str, m, j + 1) \in Seq(S)
  BY <1>1, <1>2, SubSeqProperties
<1> QED BY <1>3 DEF Slice, m

\* What explode_unescaped() gives for each start when its cursor is at place i,
\* if g is what it gives later.
CutHere(str, delim, g, i, start) ==
  LET found == First(Places(str, i, delim))
  IN  IF found = -1 THEN <<Rest(str, start)>>
        ELSE IF is_escaped(str, found) THEN g[found + 1][start]
        ELSE <<Slice(str, start, found - 1)>> \o g[found + 1][found + 1]

CutFrom(str, delim, g, i) == [start \in 0..Len(str) |-> CutHere(str, delim, g, i, start)]

TextLists(S, n) == [0..n -> Seq(Seq(S))]

\* It depends on later places only.
LEMMA CutHereIsAList ==
  ASSUME NEW S, NEW str \in Seq(S), NEW delim, NEW i \in 0..Len(str), NEW g, NEW h,
         AgreeBehind(g, h, i, Len(str), TextLists(S, Len(str))), NEW start \in 0..Len(str)
  PROVE  /\ CutHere(str, delim, g, i, start) \in Seq(Seq(S))
         /\ CutHere(str, delim, h, i, start) = CutHere(str, delim, g, i, start)
<1> DEFINE n == Len(str)
           found == First(Places(str, i, delim))
<1>1. n \in Nat /\ i \in Nat /\ i <= n
  OBVIOUS
<1>2. found = -1 \/ found \in i..(n - 1)
  BY FirstPlace
<1> HIDE DEF found
<1>3. CASE found = -1
  <2>1. Rest(str, start) \in Seq(S)
    BY RestOfText
  <2>2. CutHere(str, delim, g, i, start) = <<Rest(str, start)>> /\ CutHere(str, delim, h, i, start) = <<Rest(str, start)>>
    BY <1>3 DEF CutHere, found
  <2> QED BY <2>1, <2>2
<1>4. CASE found # -1
  <2>1. found + 1 \in 0..n /\ i < found + 1 /\ found - 1 \in -1..(n - 1)
    BY <1>1, <1>2, <1>4
  <2>2. g[found + 1] \in TextLists(S, n) /\ h[found + 1] = g[found + 1]
    BY <2>1 DEF AgreeBehind
  <2>3. g[found + 1][start] \in Seq(Seq(S)) /\ g[found + 1][found + 1] \in Seq(Seq(S))
    BY <2>1, <2>2 DEF TextLists
  <2>4. Slice(str, start, found - 1) \in Seq(S)
    BY <2>1, SliceIsAText
  <2> DEFINE now == <<Slice(str, start, found - 1)>>
             later == g[found + 1][found + 1]
  <2>5. now \o later \in Seq(Seq(S))
    <3>1. now \in Seq(Seq(S)) /\ later \in Seq(Seq(S))
      BY <2>3, <2>4
    <3> HIDE DEF now, later
    <3> QED BY <3>1
  <2>6. CutHere(str, delim, g, i, start) = IF is_escaped(str, found) THEN g[found + 1][start] ELSE now \o later
    BY <1>4 DEF CutHere, found
  <2>7. CutHere(str, delim, h, i, start) = IF is_escaped(str, found) THEN g[found + 1][start] ELSE now \o later
    BY <1>4, <2>2 DEF CutHere, found
  <2> HIDE DEF now, later
  <2> QED BY <2>3, <2>5, <2>6, <2>7
<1> QED BY <1>3, <1>4

LEMMA CutFromIsALister ==
  ASSUME NEW S, NEW str \in Seq(S), NEW delim, NEW i \in 0..Len(str), NEW g, NEW h,
         AgreeBehind(g, h, i, Len(str), TextLists(S, Len(str)))
  PROVE  /\ CutFrom(str, delim, g, i) \in TextLists(S, Len(str))
         /\ CutFrom(str, delim, h, i) = CutFrom(str, delim, g, i)
<1>1. \A start \in 0..Len(str) :
        /\ CutHere(str, delim, g, i, start) \in Seq(Seq(S))
        /\ CutHere(str, delim, h, i, start) = CutHere(str, delim, g, i, start)
  BY CutHereIsAList
<1> QED BY <1>1 DEF CutFrom, TextLists

Cutting(str, delim, g) == \A i \in 0..Len(str) : g[i] = CutFrom(str, delim, g, i)

\* explode_unescaped() is done place by place.
LEMMA CutRounds ==
  ASSUME NEW S, NEW str \in Seq(S), NEW delim
  PROVE  \E g : explode_unescaped(str, delim) = g[0][0] /\ Cutting(str, delim, g)
<1> DEFINE n == Len(str)
           V == TextLists(S, n)
           step == [p \in [0..n -> V] \X (0..n) |-> CutFrom(str, delim, p[1], p[2])]
           g == CHOOSE f : f = [i \in 0..n |-> CutFrom(str, delim, f, i)]
<1>1. n \in Nat /\ V # {}
  <2>1. n \in Nat
    OBVIOUS
  <2>2. [j \in 0..n |-> <<>>] \in [0..n -> Seq(Seq(S))]
    OBVIOUS
  <2>3. V # {}
    BY <2>2 DEF TextLists
  <2> QED BY <2>1, <2>3
<1>2. explode_unescaped(str, delim) = g[0][0]
  BY DEF explode_unescaped, Search, First, Places, CutFrom, CutHere
<1> HIDE DEF V
<1>3. ASSUME NEW f, NEW h, NEW i \in 0..n, AgreeBehind(f, h, i, n, V)
      PROVE  CutFrom(str, delim, f, i) \in V /\ CutFrom(str, delim, h, i) = CutFrom(str, delim, f, i)
  BY <1>3, CutFromIsALister DEF V
<1> HIDE DEF n
<1>4. \A f \in [0..n -> V] : \A i \in 0..n : step[<<f, i>>] = CutFrom(str, delim, f, i)
  OBVIOUS
<1>5. step \in [[0..n -> V] \X (0..n) -> V]
  <2>1. ASSUME NEW p \in [0..n -> V] \X (0..n) PROVE CutFrom(str, delim, p[1], p[2]) \in V
    <3>1. AgreeBehind(p[1], p[1], p[2], n, V)
      BY DEF AgreeBehind
    <3> QED BY <1>3, <3>1
  <2> QED BY <2>1
<1> HIDE DEF step, g
<1>6. LooksBehind(step, n, V)
  BY <1>3, <1>4 DEF LooksBehind
<1>7. PICK f \in [0..n -> V] : Follows(f, 0..n, step)
  BY <1>1, <1>5, <1>6, FromBehind
<1>8. f = [i \in 0..n |-> CutFrom(str, delim, f, i)]
  BY <1>4, <1>7 DEF Follows
<1>9. g = [i \in 0..n |-> CutFrom(str, delim, g, i)]
  BY <1>8 DEF g
<1>10. \A i \in 0..n : g[i] = CutFrom(str, delim, g, i)
  BY <1>9
<1> QED BY <1>2, <1>10 DEF n, Cutting

LEMMA CutHereIsIt ==
  ASSUME NEW str, NEW delim, NEW g, Cutting(str, delim, g), NEW i \in 0..Len(str), NEW start \in 0..Len(str)
  PROVE  g[i][start] = CutHere(str, delim, g, i, start)
BY DEF Cutting, CutFrom

\* The cursor stops at the end and at a delimiter that is not escaped.
LEMMA CutEnds ==
  ASSUME NEW S, NEW str \in Seq(S), NEW delim, NEW g, Cutting(str, delim, g), NEW start \in 0..Len(str)
  PROVE  g[Len(str)][start] = <<Rest(str, start)>>
<1> DEFINE n == Len(str)
<1>1. n \in Nat /\ n \in 0..n
  OBVIOUS
<1>2. First(Places(str, n, delim)) = -1
  <2>1. n..(n - 1) = {}
    BY <1>1
  <2> QED BY <2>1 DEF Places, First
<1>3. CutHere(str, delim, g, n, start) = <<Rest(str, start)>>
  BY <1>2 DEF CutHere
<1> QED BY <1>1, <1>3, CutHereIsIt

\* A place that is no delimiter, or escaped, cuts nothing.
LEMMA CutPasses ==
  ASSUME NEW S, NEW str \in Seq(S), NEW delim, NEW g, Cutting(str, delim, g), NEW start \in 0..Len(str),
         NEW i \in 0..(Len(str) - 1), At(str, i) = delim => is_escaped(str, i)
  PROVE  g[i][start] = g[i + 1][start]
<1>1. i \in 0..Len(str) /\ i + 1 \in 0..Len(str) /\ i # -1
  OBVIOUS
<1>2. g[i][start] = CutHere(str, delim, g, i, start) /\ g[i + 1][start] = CutHere(str, delim, g, i + 1, start)
  BY <1>1, CutHereIsIt
<1>3. CASE At(str, i) # delim
  <2>1. First(Places(str, i, delim)) = First(Places(str, i + 1, delim))
    BY <1>3, FirstOnward
  <2> QED BY <1>2, <2>1 DEF CutHere
<1>4. CASE At(str, i) = delim
  <2>1. First(Places(str, i, delim)) = i
    BY <1>4, FirstOnward
  <2> QED BY <1>1, <1>2, <1>4, <2>1 DEF CutHere
<1> QED BY <1>3, <1>4

Before(t, list) == <<t>> \o list

\* A delimiter that is not escaped ends a part.
LEMMA CutStops ==
  ASSUME NEW S, NEW str \in Seq(S), NEW delim, NEW g, Cutting(str, delim, g), NEW start \in 0..Len(str),
         NEW i \in 0..(Len(str) - 1), At(str, i) = delim, ~ is_escaped(str, i)
  PROVE  g[i][start] = Before(Slice(str, start, i - 1), g[i + 1][i + 1])
<1>1. i \in 0..Len(str) /\ i # -1
  OBVIOUS
<1>2. g[i][start] = CutHere(str, delim, g, i, start)
  BY <1>1, CutHereIsIt
<1>3. First(Places(str, i, delim)) = i
  BY FirstOnward
<1> QED BY <1>1, <1>2, <1>3 DEF CutHere, Before

\* No delimiter stops the cursor from place p to place r.
Uncut(str, delim, p, r) == \A i \in p..(r - 1) : At(str, i) = delim => is_escaped(str, i)

\* Where the parts that were joined begin and end, and the delimiters between
\* them; from place p on.
Laid(str, b, e, parts, delim, p) ==
  /\ b[1] = p /\ e[Len(parts)] = Len(str)
  /\ \A k \in 1..Len(parts) : e[k] = b[k] + Len(parts[k]) /\ e[k] <= Len(str) /\ Holds(str, b[k], parts[k])
  /\ \A k \in 2..Len(parts) : b[k] = e[k - 1] + 1 /\ e[k - 1] < Len(str) /\ At(str, e[k - 1]) = delim

\* Each part of a list has its places in it, a delimiter behind each but the last.
LEMMA JoinedIsLaid ==
  ASSUME NEW S, NEW parts \in Seq(Seq(S)), parts # <<>>, NEW delim \in S, NEW before \in Seq(S)
  PROVE  /\ before \o Joined(parts, delim) \in Seq(S) /\ Joined(parts, delim) \in Seq(S)
         /\ Holds(before \o Joined(parts, delim), 0, before)
         /\ \E b, e \in [1..Len(parts) -> Nat] :
              Laid(before \o Joined(parts, delim), b, e, parts, delim, Len(before))
<1> DEFINE m == Len(parts)
           s == [i \in DOMAIN parts |-> IF i = 1 THEN parts[i] ELSE <<delim>> \o parts[i]]
           text == Joined(parts, delim)
           str == before \o text
           p == Len(before)
           one == <<delim>>
<1>1. /\ m \in Nat /\ m >= 1 /\ DOMAIN parts = 1..m /\ p \in Nat
      /\ \A k \in 1..m : parts[k] \in Seq(S) /\ Len(parts[k]) \in Nat
  <2>1. m \in Nat /\ m >= 1 /\ DOMAIN parts = 1..m /\ p \in Nat
    OBVIOUS
  <2>2. \A k \in 1..m : parts[k] \in Seq(S)
    OBVIOUS
  <2>3. \A t \in Seq(S) : Len(t) \in Nat
    OBVIOUS
  <2> QED BY <2>1, <2>2, <2>3
<1>2. one \in Seq(S) /\ Len(one) = 1 /\ one[1] = delim
  OBVIOUS
<1>3. text = FlattenSeq(s)
  BY DEF Joined
<1> HIDE DEF one, text
<1>4. \A k \in 1..m : one \o parts[k] \in Seq(S)
  BY <1>1, <1>2
<1>5. s \in Seq(Seq(S)) /\ Len(s) = m /\ \A k \in 1..m : s[k] = IF k = 1 THEN parts[k] ELSE one \o parts[k]
  <2> HIDE DEF m
  <2>1. s \in [1..m -> Seq(S)]
    BY <1>1, <1>4 DEF one
  <2>2. s \in Seq(Seq(S)) /\ Len(s) = m
    BY <1>1, <2>1
  <2> QED BY <1>1, <2>2 DEF one
<1> HIDE DEF s, m
<1>6. PICK F : Grows(F, s, S) /\ FlattenSeq(s) = F[Len(s)]
  BY <1>5, Flattened
<1>7. text = F[m] /\ F[0] = <<>> /\ \A k \in 0..m : F[k] \in Seq(S)
  BY <1>3, <1>5, <1>6 DEF Grows
<1>8. text \in Seq(S)
  <2>1. m \in 0..m
    BY <1>1
  <2> QED BY <1>7, <2>1
<1>9. str \in Seq(S) /\ Len(str) = p + Len(text) /\ Holds(str, 0, before) /\ Holds(str, p, text)
  BY <1>8, HoldsConcat
<1> HIDE DEF str, p
<1> DEFINE l == [k \in 0..m |-> Len(F[k])]
           e == [k \in 1..m |-> p + l[k]]
           b == [k \in 1..m |-> IF k = 1 THEN p ELSE p + (l[k - 1] + 1)]
<1>10. l \in [0..m -> Nat] /\ l[0] = 0 /\ l[m] = Len(text)
  <2>1. \A t \in Seq(S) : Len(t) \in Nat
    OBVIOUS
  <2>2. 0 \in 0..m /\ m \in 0..m /\ Len(<<>>) = 0
    BY <1>1
  <2> QED BY <1>7, <2>1, <2>2
<1>11. ASSUME NEW k \in 1..m
       PROVE  /\ l[k] = l[k - 1] + Len(s[k]) /\ l[k] <= l[m] /\ Holds(str, p + l[k - 1], s[k])
              /\ l[k - 1] \in Nat /\ l[k] \in Nat /\ s[k] \in Seq(S)
  <2>1. k - 1 \in 0..m /\ k \in 0..m /\ m \in 0..m /\ k \in 1..Len(s)
    BY <1>1, <1>5
  <2>2. l[k - 1] = Len(F[k - 1]) /\ l[k] = Len(F[k]) /\ l[m] = Len(F[m])
    BY <2>1
  <2>3. l[k - 1] \in Nat /\ l[k] \in Nat /\ s[k] \in Seq(S)
    BY <1>5, <1>10, <2>1
  <2> HIDE DEF l
  <2>4. l[k] = l[k - 1] + Len(s[k]) /\ l[k] <= l[m] /\ Holds(text, l[k - 1], s[k])
    <3>1. /\ Len(F[k]) = Len(F[k - 1]) + Len(s[k]) /\ Len(F[k]) <= Len(F[Len(s)])
          /\ Holds(F[Len(s)], Len(F[k - 1]), s[k])
      BY <1>5, <1>6, <2>1, PartHasItsPlace
    <3>2. F[Len(s)] = F[m] /\ F[m] = text
      BY <1>5, <1>7
    <3> QED BY <2>2, <3>1, <3>2
  <2>5. Holds(str, p + l[k - 1], s[k])
    BY <1>1, <1>8, <1>9, <2>3, <2>4, HoldsWithin
  <2> QED BY <2>3, <2>4, <2>5
<1> HIDE DEF l
<1>12. \A k \in 1..m : e[k] = p + l[k] /\ b[k] = IF k = 1 THEN p ELSE p + (l[k - 1] + 1)
  OBVIOUS
<1>13. b \in [1..m -> Nat] /\ e \in [1..m -> Nat]
  <2>1. \A k \in 1..m : l[k] \in Nat /\ l[k - 1] \in Nat
    BY <1>11
  <2> QED BY <1>1, <2>1
<1> HIDE DEF b, e
<1>14. ASSUME NEW k \in 1..m, k # 1
       PROVE  /\ e[k] = b[k] + Len(parts[k]) /\ Holds(str, b[k], parts[k])
              /\ b[k] = e[k - 1] + 1 /\ At(str, e[k - 1]) = delim
  <2>1. s[k] = one \o parts[k] /\ Len(s[k]) = 1 + Len(parts[k]) /\ Holds(s[k], 0, one) /\ Holds(s[k], 1, parts[k])
    <3> DEFINE t == parts[k]
    <3>1. t \in Seq(S) /\ s[k] = one \o t
      BY <1>1, <1>5, <1>14
    <3> HIDE DEF t
    <3>2. Len(one \o t) = Len(one) + Len(t) /\ Holds(one \o t, 0, one) /\ Holds(one \o t, Len(one), t)
      BY <1>2, <3>1, HoldsConcat
    <3>3. Len(s[k]) = 1 + Len(t) /\ Holds(s[k], 0, one) /\ Holds(s[k], 1, t)
      BY <1>2, <3>1, <3>2
    <3> QED BY <3>1, <3>3 DEF t
  <2> DEFINE r == p + l[k - 1]
  <2>2. r \in Nat /\ r + 0 = r /\ k - 1 \in 1..m
    BY <1>1, <1>11, <1>14
  <2>3. Holds(str, r, s[k])
    BY <1>11
  <2>4. e[k - 1] = r /\ b[k] = r + 1
    BY <1>1, <1>11, <1>14, <1>12, <2>2
  <2>5. e[k] = b[k] + Len(parts[k])
    <3>1. e[k] = p + (l[k - 1] + (1 + Len(parts[k])))
      BY <1>11, <1>12, <2>1
    <3> QED BY <1>1, <1>11, <2>4, <3>1
  <2> HIDE DEF r
  <2>6. Holds(str, r + 0, one)
    BY <1>2, <1>9, <1>11, <2>1, <2>2, <2>3, HoldsWithin
  <2>7. Holds(str, r + 1, parts[k])
    BY <1>1, <1>9, <1>11, <2>1, <2>2, <2>3, HoldsWithin
  <2>8. At(str, r + 0) = one[0 + 1]
    <3>1. 0 \in 0..(Len(one) - 1)
      BY <1>2
    <3> QED BY <1>2, <1>9, <2>2, <2>6, <3>1, HoldsAt
  <2> QED BY <1>2, <2>2, <2>4, <2>5, <2>7, <2>8
<1>15. e[1] = b[1] + Len(parts[1]) /\ Holds(str, b[1], parts[1]) /\ b[1] = p
  <2>1. 1 \in 1..m /\ 1 - 1 = 0
    BY <1>1
  <2>2. l[1] = l[0] + Len(s[1]) /\ s[1] = parts[1] /\ Holds(str, p + l[0], s[1])
    BY <1>5, <1>11, <2>1
  <2>3. p + l[0] = p
    BY <1>1, <1>10
  <2> QED BY <1>10, <1>12, <2>1, <2>2, <2>3
<1>16. e[m] = Len(str) /\ \A k \in 1..m : e[k] <= Len(str)
  <2>1. \A k \in 1..m : p + l[k] <= p + l[m]
    BY <1>1, <1>11
  <2>2. m \in 1..m
    BY <1>1
  <2> QED BY <1>9, <1>10, <1>12, <2>1, <2>2
<1>17. \A k \in 2..m : k \in 1..m /\ k # 1
  BY <1>1
<1>18. \A k \in 2..m : e[k - 1] < Len(str)
  <2>1. ASSUME NEW k \in 2..m PROVE e[k - 1] < Len(str)
    <3>1. k - 1 \in 1..m /\ k \in 1..m
      BY <1>1
    <3>2. e[k] = (e[k - 1] + 1) + Len(parts[k]) /\ e[k - 1] \in Nat /\ e[k] <= Len(str) /\ Len(parts[k]) \in Nat
      BY <1>1, <1>13, <1>14, <1>16, <1>17, <3>1
    <3>3. Len(str) \in Nat
      BY <1>9
    <3> QED BY <3>2, <3>3
  <2> QED BY <2>1
<1>19. Laid(str, b, e, parts, delim, p)
  <2>1. \A k \in 1..m : e[k] = b[k] + Len(parts[k]) /\ Holds(str, b[k], parts[k])
    BY <1>14, <1>15
  <2> QED BY <1>14, <1>15, <1>16, <1>17, <1>18, <2>1 DEF Laid, m
<1> QED BY <1>8, <1>9, <1>13, <1>19 DEF str, p, text, m

\* An escaped word holds none of its characters unescaped.
Guarded(str, p, r, chars) ==
  /\ ~ is_escaped(str, r)
  /\ \A i \in p..(r - 1) : At(str, i) \in chars /\ At(str, i) # Backslash => is_escaped(str, i)

\* In an escaped word every character of chars is escaped.
LEMMA EscapedIsGuarded ==
  ASSUME NEW S, Backslash \in S, NEW word \in Seq(S), NEW chars, Backslash \in chars, NEW str \in Seq(S),
         NEW p \in Nat, Holds(str, p, Escaped(word, chars)), ~ is_escaped(str, p)
  PROVE  /\ Guarded(str, p, p + Len(Escaped(word, chars)), chars)
         /\ Len(word) <= Len(Escaped(word, chars))
<1> DEFINE n == Len(Escaped(word, chars))
           m == Len(word)
<1>1. n \in Nat /\ m \in Nat
  <2>1. Escaped(word, chars) \in Seq(S)
    BY PiecesAreTexts
  <2> QED BY <2>1
<1>2. PICK q \in [0..m -> Nat] : q[0] = p /\ q[m] = p + n /\ WrittenAt(str, q, word, chars)
  BY EscapedPlaces
<1>3. /\ ~ is_escaped(str, q[m]) /\ q[0] + m <= q[m]
      /\ \A i \in q[0]..(q[m] - 1) : At(str, i) \in chars /\ At(str, i) # Backslash => is_escaped(str, i)
  BY <1>2, EscapedWord
<1> HIDE DEF n, m
<1>4. p + m <= p + n
  BY <1>2, <1>3
<1>5. m <= n
  BY <1>1, <1>4
<1>6. Guarded(str, p, p + n, chars)
  BY <1>2, <1>3 DEF Guarded
<1> QED BY <1>5, <1>6 DEF m, n

\* A slice between the places of a part is the part.
LEMMA SliceIsPart ==
  ASSUME NEW S, NEW str \in Seq(S), NEW p \in Nat, NEW t \in Seq(S), Holds(str, p, t)
  PROVE  Slice(str, p, (p + Len(t)) - 1) = t
<1> DEFINE j == (p + Len(t)) - 1
           u == Slice(str, p, j)
<1>1. /\ Len(t) \in Nat /\ Len(str) \in Nat /\ p + Len(t) <= Len(str) /\ \A i \in 1..Len(t) : str[p + i] = t[i]
  BY DEF Holds
<1>2. p \in 0..Len(str) /\ j \in (p - 1)..(Len(str) - 1) /\ (j + 1) - p = Len(t)
  BY <1>1
<1> HIDE DEF j
<1>3. u \in Seq(S) /\ Len(u) = (j + 1) - p /\ \A k \in 1..((j + 1) - p) : u[k] = str[p + k]
  BY <1>2, SliceOfText
<1> HIDE DEF u
<1>4. Len(u) = Len(t) /\ \A k \in 1..Len(u) : u[k] = t[k]
  BY <1>1, <1>2, <1>3
<1>5. u = t
  BY <1>3, <1>4, SeqEqual
<1> QED BY <1>5 DEF u, j

\* The cursor passes what is no delimiter, or an escaped one.
LEMMA CutOnward ==
  ASSUME NEW S, NEW str \in Seq(S), NEW delim, NEW g, Cutting(str, delim, g),
         NEW r \in 0..Len(str), NEW p \in 0..r, NEW start \in 0..Len(str),
         Uncut(str, delim, p, r)
  PROVE  g[p][start] = g[r][start]
<1> DEFINE n == r - p
           T == {j \in 0..n : g[r - j][start] = g[r][start]}
<1>1. n \in Nat /\ r - n = p /\ r - 0 = r /\ Len(str) \in Nat
  OBVIOUS
<1> HIDE DEF n
<1>2. 0 \in T
  BY <1>1
<1>3. ASSUME NEW j \in 0..(n - 1), j \in T PROVE j + 1 \in T
  <2> DEFINE i == r - (j + 1)
  <2>1. i \in p..(r - 1) /\ i \in 0..(Len(str) - 1) /\ i + 1 = r - j /\ j + 1 \in 0..n
    BY <1>1 DEF n
  <2> HIDE DEF i
  <2>2. g[i][start] = g[i + 1][start]
    <3>1. At(str, i) = delim => is_escaped(str, i)
      BY <2>1 DEF Uncut
    <3> QED BY <2>1, <3>1, CutPasses
  <2>3. g[r - j][start] = g[r][start]
    BY <1>3
  <2> QED BY <2>1, <2>2, <2>3 DEF i
<1>4. n \in T
  <2>1. \A j \in 0..n : j \in T
    <3> HIDE DEF T
    <3> QED BY <1>1, <1>2, <1>3, UpTo
  <2> QED BY <1>1, <2>1
<1> QED BY <1>1, <1>4

Each(parts, chars) == [i \in DOMAIN parts |-> Escaped(parts[i], chars)]

LEMMA EachIsAText ==
  ASSUME NEW S, Backslash \in S, NEW parts \in Seq(Seq(S)), NEW chars
  PROVE  /\ Each(parts, chars) \in Seq(Seq(S)) /\ Len(Each(parts, chars)) = Len(parts)
         /\ \A i \in 1..Len(parts) : Each(parts, chars)[i] = Escaped(parts[i], chars) /\ parts[i] \in Seq(S)
<1> DEFINE m == Len(parts)
<1>1. m \in Nat /\ DOMAIN parts = 1..m /\ \A i \in 1..m : parts[i] \in Seq(S)
  OBVIOUS
<1> HIDE DEF m
<1>2. \A i \in 1..m : Escaped(parts[i], chars) \in Seq(S)
  BY <1>1, PiecesAreTexts
<1>3. Each(parts, chars) \in [1..m -> Seq(S)]
  BY <1>1, <1>2 DEF Each
<1>4. Each(parts, chars) \in Seq(Seq(S)) /\ Len(Each(parts, chars)) = m
  BY <1>1, <1>3
<1> QED BY <1>1, <1>4 DEF Each, m

\* A list of escaped parts is cut at the delimiters that join them.
LEMMA ListIsCut ==
  ASSUME NEW S, Backslash \in S, NEW parts \in Seq(Seq(S)), parts # <<>>, NEW delim \in S, delim # Backslash,
         NEW chars, Backslash \in chars, delim \in chars
  PROVE  explode_unescaped(Joined(Each(parts, chars), delim), delim) = Each(parts, chars)
<1> DEFINE texts == Each(parts, chars)
           str == Joined(texts, delim)
           n == Len(str)
           m == Len(parts)
<1>1. /\ texts \in Seq(Seq(S)) /\ Len(texts) = m /\ m \in Nat /\ m >= 1
      /\ \A k \in 1..m : texts[k] = Escaped(parts[k], chars) /\ parts[k] \in Seq(S)
  <2>1. m \in Nat /\ m >= 1
    OBVIOUS
  <2> QED BY <2>1, EachIsAText
<1> HIDE DEF texts, m
<1>2. texts # <<>> /\ <<>> \in Seq(S) /\ Len(<<>>) = 0
  BY <1>1
<1>3. str \in Seq(S) /\ <<>> \o str = str /\ \E b, e \in [1..m -> Nat] : Laid(str, b, e, texts, delim, 0)
  <2>1. /\ <<>> \o str \in Seq(S) /\ str \in Seq(S)
        /\ \E b, e \in [1..Len(texts) -> Nat] : Laid(<<>> \o str, b, e, texts, delim, Len(<<>>))
    BY <1>1, <1>2, JoinedIsLaid
  <2> HIDE DEF str
  <2>2. <<>> \o str = str
    BY <2>1, ConcatEmptySeq
  <2> QED BY <1>1, <1>2, <2>1, <2>2
<1>4. PICK b, e \in [1..m -> Nat] : Laid(str, b, e, texts, delim, 0)
  BY <1>3
<1> HIDE DEF str
<1>5. PICK g : explode_unescaped(str, delim) = g[0][0] /\ Cutting(str, delim, g)
  BY <1>3, CutRounds
<1>7. n \in Nat /\ b[1] = 0 /\ e[m] = n
  BY <1>1, <1>3, <1>4 DEF Laid
<1>6. str \in Seq(S) /\ Cutting(str, delim, g)
  BY <1>3, <1>5
<1>8. \A k \in 1..m : b[k] \in Nat /\ e[k] \in Nat /\ e[k] = b[k] + Len(texts[k]) /\ e[k] <= n
                      /\ Holds(str, b[k], texts[k]) /\ texts[k] \in Seq(S) /\ Len(texts[k]) \in Nat
  <2>1. \A k \in 1..m : texts[k] \in Seq(S)
    BY <1>1
  <2>2. \A t \in Seq(S) : Len(t) \in Nat
    OBVIOUS
  <2> QED BY <1>1, <1>4, <2>1, <2>2 DEF Laid
<1>9. \A k \in 2..m : k - 1 \in 1..m /\ b[k] = e[k - 1] + 1 /\ e[k - 1] < n /\ At(str, e[k - 1]) = delim
  <2>1. \A k \in 2..m : k - 1 \in 1..m
    BY <1>1
  <2> QED BY <1>1, <1>4, <2>1 DEF Laid
<1> HIDE DEF n
<1>10. ASSUME NEW k \in 1..m PROVE ~ is_escaped(str, b[k])
  <2>1. CASE k = 1
    BY <1>7, <2>1, EscapedStep
  <2>2. CASE k # 1
    <3>1. k \in 2..m
      BY <1>1, <2>2
    <3>2. e[k - 1] \in Nat /\ At(str, e[k - 1]) # Backslash
      BY <1>8, <1>9, <3>1
    <3>3. ~ is_escaped(str, e[k - 1] + 1)
      BY <3>2, EscapedStep
    <3> QED BY <1>9, <3>1, <3>3
  <2> QED BY <2>1, <2>2
<1>11. ASSUME NEW k \in 1..m
       PROVE  g[b[k]][b[k]] = g[e[k]][b[k]] /\ ~ is_escaped(str, e[k]) /\ b[k] \in 0..n /\ e[k] \in 0..n
              /\ Slice(str, b[k], e[k] - 1) = texts[k]
  <2> DEFINE p == b[k]
             r == e[k]
             t == texts[k]
  <2>1. /\ p \in Nat /\ r \in Nat /\ r = p + Len(t) /\ r <= n /\ Holds(str, p, t) /\ t \in Seq(S) /\ Len(t) \in Nat
        /\ ~ is_escaped(str, p)
    BY <1>8, <1>10
  <2>2. t = Escaped(parts[k], chars) /\ parts[k] \in Seq(S)
    BY <1>1
  <2> HIDE DEF p, r, t
  <2>3. Guarded(str, p, r, chars)
    BY <1>3, <2>1, <2>2, EscapedIsGuarded
  <2>4. r \in 0..Len(str) /\ p \in 0..r /\ p \in 0..Len(str)
    BY <1>7, <2>1 DEF n
  <2>5. Uncut(str, delim, p, r)
    BY <2>3 DEF Guarded, Uncut
  <2>6. g[p][p] = g[r][p]
    BY <1>6, <2>4, <2>5, CutOnward
  <2>7. Slice(str, p, (p + Len(t)) - 1) = t
    BY <1>3, <2>1, SliceIsPart
  <2> QED BY <2>1, <2>3, <2>4, <2>6, <2>7 DEF Guarded, p, r, t, n
<1>12. g[b[m]][b[m]] = <<texts[m]>>
  <2>1. m \in 1..m
    BY <1>1
  <2>2. g[e[m]][b[m]] = <<Rest(str, b[m])>>
    <3>1. e[m] = Len(str) /\ b[m] \in 0..Len(str)
      BY <1>7, <1>11, <2>1 DEF n
    <3> QED BY <1>3, <1>5, <3>1, CutEnds
  <2>3. Rest(str, b[m]) = Slice(str, b[m], e[m] - 1)
    BY <1>7 DEF Rest, n
  <2> QED BY <1>11, <2>1, <2>2, <2>3
<1>13. ASSUME NEW k \in 1..(m - 1) PROVE g[b[k]][b[k]] = <<texts[k]>> \o g[b[k + 1]][b[k + 1]]
  <2>1. k \in 1..m /\ k + 1 \in 2..m /\ (k + 1) - 1 = k
    BY <1>1
  <2>2. b[k + 1] = e[k] + 1 /\ e[k] < Len(str) /\ At(str, e[k]) = delim
    BY <1>9, <2>1 DEF n
  <2>3. e[k] \in 0..(Len(str) - 1) /\ b[k] \in 0..Len(str) /\ ~ is_escaped(str, e[k])
    BY <1>11, <2>1, <2>2 DEF n
  <2>4. g[e[k]][b[k]] = <<Slice(str, b[k], e[k] - 1)>> \o g[e[k] + 1][e[k] + 1]
    <3> DEFINE r == e[k]
               p == b[k]
    <3>1. r \in 0..(Len(str) - 1) /\ p \in 0..Len(str) /\ At(str, r) = delim /\ ~ is_escaped(str, r)
      BY <2>2, <2>3
    <3> HIDE DEF r, p
    <3>2. g[r][p] = Before(Slice(str, p, r - 1), g[r + 1][r + 1])
      BY <1>6, <3>1, CutStops
    <3> QED BY <3>2 DEF r, p, Before
  <2> QED BY <1>11, <2>1, <2>2, <2>4
<1> DEFINE T == {j \in 0..(m - 1) : g[b[m - j]][b[m - j]] = SubSeq(texts, m - j, m)}
<1>14. 0 \in T
  <2>1. SubSeq(texts, m, m) = <<texts[m]>>
    <3>1. m \in 1..Len(texts) /\ m \in m..Len(texts)
      BY <1>1
    <3>2. SubSeq(texts, m, m) = <<texts[m]>> \o SubSeq(texts, m + 1, m)
      BY <1>1, <3>1, SubSeqRecursiveFirst
    <3>3. SubSeq(texts, m + 1, m) = <<>>
      BY <1>1, SubSeqEmpty
    <3>4. <<texts[m]>> \in Seq(Seq(S))
      BY <1>8, <3>1, <1>1
    <3> QED BY <3>2, <3>3, <3>4, ConcatEmptySeq
  <2>2. m - 0 = m /\ 0 \in 0..(m - 1)
    BY <1>1
  <2> QED BY <1>12, <2>1, <2>2
<1>15. ASSUME NEW j \in 0..((m - 1) - 1), j \in T PROVE j + 1 \in T
  <2> DEFINE k == m - (j + 1)
  <2>1. k \in 1..(m - 1) /\ k + 1 = m - j /\ j + 1 \in 0..(m - 1) /\ k \in 1..Len(texts) /\ m \in k..Len(texts)
    BY <1>1
  <2> HIDE DEF k
  <2>2. g[b[k]][b[k]] = <<texts[k]>> \o SubSeq(texts, k + 1, m)
    BY <1>13, <1>15, <2>1
  <2>3. SubSeq(texts, k, m) = <<texts[k]>> \o SubSeq(texts, k + 1, m)
    BY <1>1, <2>1, SubSeqRecursiveFirst
  <2> QED BY <2>1, <2>2, <2>3 DEF k
<1>16. g[b[1]][b[1]] = SubSeq(texts, 1, m)
  <2>1. m - 1 \in Nat /\ m - (m - 1) = 1 /\ m - 1 \in 0..(m - 1)
    BY <1>1
  <2>2. \A j \in 0..(m - 1) : j \in T
    <3> HIDE DEF T
    <3> QED BY <1>14, <1>15, <2>1, UpTo
  <2> QED BY <2>1, <2>2
<1>17. SubSeq(texts, 1, m) = texts
  BY <1>1, SubSeqFull
<1> QED BY <1>5, <1>7, <1>16, <1>17 DEF str, texts
-----------------------------------------------------------------------------
(* TextLib: words of a line.                                               *)

DoubleQuote == "\""

LEMMA CharactersDiffer ==
  /\ DoubleQuote \in QUOTE_CHARS /\ Blank \notin QUOTE_CHARS /\ Backslash \notin QUOTE_CHARS
  /\ Blank # Backslash /\ DoubleQuote # Backslash /\ DoubleQuote # Blank
BY Zenon DEF DoubleQuote, QUOTE_CHARS, Blank, Backslash

LEMMA QuotedIs ==
  ASSUME NEW word
  PROVE  Quoted(word) = <<DoubleQuote>> \o Escaped(word, {DoubleQuote, Backslash}) \o <<DoubleQuote>>
BY Zenon DEF Quoted, DoubleQuote

\* What the search for an unescaped character finds.
LEMMA UnescapedIsFound ==
  ASSUME NEW S, NEW str \in Seq(S), NEW el, NEW p \in Nat, NEW r \in p..(Len(str) - 1),
         At(str, r) = el, ~ is_escaped(str, r), Uncut(str, el, p, r)
  PROVE  search_str_unescaped(str, el, p) = r
<1> DEFINE n == Len(str)
           T == {i \in p..(n - 1) : At(str, i) = el /\ ~ is_escaped(str, i)}
<1>1. search_str_unescaped(str, el, p) = First(T)
  BY DEF search_str_unescaped, Search, First
<1>2. n \in Nat /\ T \in SUBSET (0..(n - 1)) /\ r \in T /\ r \in Nat
  OBVIOUS
<1>3. \A i \in T : ~ (i \in p..(r - 1)) /\ i \in p..(n - 1)
  BY DEF Uncut
<1> HIDE DEF T
<1>4. First(T) \in T /\ First(T) <= r /\ First(T) \in 0..(n - 1)
  BY <1>2, FirstIsLeast
<1>5. ~ (First(T) \in p..(r - 1)) /\ First(T) \in p..(n - 1)
  BY <1>3, <1>4
<1>6. First(T) = r
  BY <1>2, <1>4, <1>5
<1> QED BY <1>1, <1>6

\* Where none is free, none is found.
LEMMA UnescapedIsNotFound ==
  ASSUME NEW S, NEW str \in Seq(S), NEW el, NEW p \in Nat, Uncut(str, el, p, Len(str))
  PROVE  search_str_unescaped(str, el, p) = -1
<1> DEFINE T == {i \in p..(Len(str) - 1) : At(str, i) = el /\ ~ is_escaped(str, i)}
<1>1. search_str_unescaped(str, el, p) = First(T)
  BY DEF search_str_unescaped, Search, First
<1>2. T = {}
  BY DEF Uncut
<1> QED BY <1>1, <1>2 DEF First

\* What is found is within the text.
LEMMA UnescapedIsWithin ==
  ASSUME NEW S, NEW str \in Seq(S), NEW el, NEW p \in Nat
  PROVE  search_str_unescaped(str, el, p) = -1 \/ search_str_unescaped(str, el, p) \in p..(Len(str) - 1)
<1> DEFINE n == Len(str)
           T == {i \in p..(n - 1) : At(str, i) = el /\ ~ is_escaped(str, i)}
<1>1. search_str_unescaped(str, el, p) = First(T)
  BY DEF search_str_unescaped, Search, First
<1>2. n \in Nat /\ T \in SUBSET (0..(n - 1)) /\ \A i \in T : i \in p..(n - 1)
  OBVIOUS
<1> HIDE DEF T, n
<1>3. First(T) = -1 \/ First(T) \in T
  BY <1>2, FirstIsLeast
<1> QED BY <1>1, <1>2, <1>3 DEF n

\* What is found of a word is within the line, and the next place is behind it.
LEMMA WordIsWithin ==
  ASSUME NEW S, NEW str \in Seq(S), NEW start \in 0..Len(str)
  PROVE  /\ match_quote(str, start) \in -1..(Len(str) - 1)
         /\ start < Len(str) => match_quote(str, start) >= start
         /\ start = Len(str) => match_quote(str, start) = Len(str) - 1
<1> DEFINE n == Len(str)
           quote == search_str_unescaped(str, At(str, start), start + 1)
           blank == search_str_unescaped(str, Blank, start + 1)
           quoted == At(str, start) \in QUOTE_CHARS
           end == IF quoted THEN quote ELSE blank - 1
<1>1. n \in Nat /\ start \in Nat /\ start <= n /\ start + 1 \in Nat
  OBVIOUS
<1>2. quote = -1 \/ quote \in (start + 1)..(n - 1)
  BY <1>1, UnescapedIsWithin
<1>3. blank = -1 \/ blank \in (start + 1)..(n - 1)
  BY <1>1, UnescapedIsWithin
<1>4. match_quote(str, start) = IF end < 0 THEN n - 1 ELSE end
  BY Zenon DEF match_quote
<1> HIDE DEF quote, blank, quoted, n
<1>5. end < 0 \/ end \in start..(n - 1)
  BY <1>1, <1>2, <1>3
<1>6. start = n => end < 0
  BY <1>1, <1>2, <1>3
<1> HIDE DEF end
<1> QED BY <1>1, <1>4, <1>5, <1>6 DEF n

\* The next character that is no blank.
LEMMA NonBlankIsFound ==
  ASSUME NEW S, NEW str \in Seq(S), NEW p \in 0..Len(str)
  PROVE  /\ find_nonws(str, p) \in p..Len(str)
         /\ p < Len(str) /\ At(str, p) # Blank => find_nonws(str, p) = p
         /\ p + 1 < Len(str) /\ At(str, p) = Blank /\ At(str, p + 1) # Blank => find_nonws(str, p) = p + 1
<1> DEFINE n == Len(str)
           T == {i \in p..(n - 1) : At(str, i) # Blank}
<1>1. n \in Nat /\ p \in Nat /\ p <= n
  OBVIOUS
<1>2. find_nonws(str, p) = IF First(T) # -1 THEN First(T) ELSE IF p < n THEN n ELSE p
  BY DEF find_nonws, Search, First
<1>3. T \in SUBSET (0..(n - 1)) /\ \A i \in T : i \in p..(n - 1)
  BY <1>1
<1>4. p < n /\ At(str, p) # Blank => p \in T
  BY <1>1
<1>5. p + 1 < n /\ At(str, p) = Blank /\ At(str, p + 1) # Blank => p + 1 \in T /\ ~ (p \in T)
  BY <1>1
<1> HIDE DEF T, n
<1>6. First(T) = -1 \/ (First(T) \in T /\ First(T) \in p..(n - 1))
  BY <1>1, <1>3, FirstIsLeast
<1>7. \A i \in T : First(T) \in T /\ First(T) <= i /\ First(T) \in p..(n - 1)
  BY <1>1, <1>3, FirstIsLeast
<1>8. p \in T => First(T) = p
  BY <1>1, <1>7
<1>9. p + 1 \in T /\ ~ (p \in T) => First(T) = p + 1
  <2>1. ASSUME p + 1 \in T, ~ (p \in T) PROVE First(T) = p + 1
    <3>1. First(T) \in T /\ First(T) <= p + 1 /\ First(T) \in p..(n - 1)
      BY <1>7, <2>1
    <3>2. First(T) # p
      BY <2>1, <3>1
    <3> QED BY <1>1, <3>1, <3>2
  <2> QED BY <2>1
<1>10. find_nonws(str, p) \in p..n
  BY <1>1, <1>2, <1>6
<1>11. p < n /\ At(str, p) # Blank => find_nonws(str, p) = p
  BY <1>1, <1>2, <1>4, <1>8
<1>12. p + 1 < n /\ At(str, p) = Blank /\ At(str, p + 1) # Blank => find_nonws(str, p) = p + 1
  BY <1>1, <1>2, <1>5, <1>9
<1> QED BY <1>10, <1>11, <1>12 DEF n

LEMMA UnquotedIsAText ==
  ASSUME NEW S, NEW t \in Seq(S)
  PROVE  unquote(t) \in Seq(S)
<1>1. CASE Len(t) >= 2
  <2>1. 1 \in 0..Len(t) /\ Len(t) - 2 \in -1..(Len(t) - 1)
    BY <1>1
  <2>2. Slice(t, 1, Len(t) - 2) \in Seq(S)
    BY <2>1, SliceIsAText
  <2> QED BY <2>2 DEF unquote
<1>2. CASE ~ (Len(t) >= 2)
  BY <1>2 DEF unquote
<1> QED BY <1>1, <1>2

LEMMA UnescapedIsAText ==
  ASSUME NEW S, NEW t \in Seq(S)
  PROVE  unescape(t) \in Seq(S)
<1>1. PICK g \in [0..Len(t) -> Seq(S)] :
        unescape(t) = g[0] /\ \A i \in 0..Len(t) : g[i] = UnescapedFrom(t, g, i)
  BY UnescapedRounds
<1>2. 0 \in 0..Len(t)
  OBVIOUS
<1> QED BY <1>1, <1>2

\* What explode_args() reads from place p on, if g is what it reads later.
Word(str, p) == unescape(unquote(Slice(str, find_nonws(str, p), match_quote(str, find_nonws(str, p)))))

NextPlace(str, p) == match_quote(str, find_nonws(str, p)) + 1

ReadFrom(str, g, p) == IF p = Len(str) THEN <<>> ELSE <<Word(str, p)>> \o g[NextPlace(str, p)]

\* A word is read on from its place, and the next place is behind it.
LEMMA WordIsRead ==
  ASSUME NEW S, NEW str \in Seq(S), NEW p \in 0..Len(str)
  PROVE  Word(str, p) \in Seq(S) /\ (p # Len(str) => NextPlace(str, p) \in (p + 1)..Len(str))
<1> DEFINE n == Len(str)
           start == find_nonws(str, p)
           end == match_quote(str, start)
<1>1. n \in Nat /\ p \in Nat /\ p <= n
  OBVIOUS
<1>2. start \in p..n
  BY NonBlankIsFound
<1>3. start \in 0..n
  BY <1>1, <1>2
<1> HIDE DEF start
<1>4. end \in -1..(n - 1) /\ (start < n => end >= start) /\ (start = n => end = n - 1)
  BY <1>3, WordIsWithin
<1> HIDE DEF end
<1>5. Slice(str, start, end) \in Seq(S)
  BY <1>3, <1>4, SliceIsAText
<1> HIDE DEF n
<1>6. p # n => end + 1 \in (p + 1)..n
  BY <1>1, <1>2, <1>4
<1>7. unescape(unquote(Slice(str, start, end))) \in Seq(S)
  BY <1>5, UnquotedIsAText, UnescapedIsAText
<1> QED BY <1>6, <1>7 DEF Word, NextPlace, n, start, end

\* It depends on later places only.
LEMMA ReadFromIsAList ==
  ASSUME NEW S, NEW str \in Seq(S), NEW p \in 0..Len(str), NEW g, NEW h,
         AgreeBehind(g, h, p, Len(str), Seq(Seq(S)))
  PROVE  ReadFrom(str, g, p) \in Seq(Seq(S)) /\ ReadFrom(str, h, p) = ReadFrom(str, g, p)
<1>1. CASE p = Len(str)
  BY <1>1 DEF ReadFrom
<1>2. CASE p # Len(str)
  <2> DEFINE q == NextPlace(str, p)
             w == Word(str, p)
  <2>1. w \in Seq(S) /\ q \in (p + 1)..Len(str)
    BY <1>2, WordIsRead
  <2> HIDE DEF q, w
  <2>2. q \in 0..Len(str) /\ p < q
    BY <2>1
  <2>3. g[q] \in Seq(Seq(S)) /\ h[q] = g[q]
    BY <2>2 DEF AgreeBehind
  <2> DEFINE one == <<w>>
  <2>4. one \in Seq(Seq(S))
    BY <2>1
  <2> HIDE DEF one
  <2>5. one \o g[q] \in Seq(Seq(S))
    BY <2>3, <2>4
  <2>6. ReadFrom(str, g, p) = one \o g[q] /\ ReadFrom(str, h, p) = one \o h[q]
    BY <1>2 DEF ReadFrom, q, w, one
  <2> QED BY <2>3, <2>5, <2>6
<1> QED BY <1>1, <1>2

Reading(str, g) == \A p \in 0..Len(str) : g[p] = ReadFrom(str, g, p)

\* explode_args() is done place by place.
LEMMA ReadRounds ==
  ASSUME NEW S, NEW str \in Seq(S)
  PROVE  \E g : explode_args(str) = g[0] /\ Reading(str, g)
<1> DEFINE n == Len(str)
           V == Seq(Seq(S))
           step == [p \in [0..n -> V] \X (0..n) |-> ReadFrom(str, p[1], p[2])]
           g == CHOOSE f : f = [p \in 0..n |-> ReadFrom(str, f, p)]
<1>1. n \in Nat /\ V # {}
  <2>1. n \in Nat
    OBVIOUS
  <2>2. <<>> \in V
    OBVIOUS
  <2> HIDE DEF V
  <2> QED BY <2>1, <2>2
<1>2. explode_args(str) = g[0]
  BY DEF explode_args, ReadFrom, Word, NextPlace
<1> HIDE DEF V
<1>3. ASSUME NEW f, NEW h, NEW p \in 0..n, AgreeBehind(f, h, p, n, V)
      PROVE  ReadFrom(str, f, p) \in V /\ ReadFrom(str, h, p) = ReadFrom(str, f, p)
  BY <1>3, ReadFromIsAList DEF V
<1> HIDE DEF n
<1>4. \A f \in [0..n -> V] : \A p \in 0..n : step[<<f, p>>] = ReadFrom(str, f, p)
  OBVIOUS
<1>5. step \in [[0..n -> V] \X (0..n) -> V]
  <2>1. ASSUME NEW p \in [0..n -> V] \X (0..n) PROVE ReadFrom(str, p[1], p[2]) \in V
    <3>1. AgreeBehind(p[1], p[1], p[2], n, V)
      BY DEF AgreeBehind
    <3> QED BY <1>3, <3>1
  <2> QED BY <2>1
<1> HIDE DEF step, g
<1>6. LooksBehind(step, n, V)
  BY <1>3, <1>4 DEF LooksBehind
<1>7. PICK f \in [0..n -> V] : Follows(f, 0..n, step)
  BY <1>1, <1>5, <1>6, FromBehind
<1>8. f = [p \in 0..n |-> ReadFrom(str, f, p)]
  BY <1>4, <1>7 DEF Follows
<1>9. g = [p \in 0..n |-> ReadFrom(str, g, p)]
  BY <1>8 DEF g
<1>10. \A p \in 0..n : g[p] = ReadFrom(str, g, p)
  BY <1>9
<1> QED BY <1>2, <1>10 DEF n, Reading

\* What is known of a word at place p that ends before place r.
Read(str, p, r, text, word) ==
  /\ p < r /\ At(str, p) # Blank
  /\ match_quote(str, p) = r - 1
  /\ Slice(str, p, r - 1) = text
  /\ unescape(unquote(text)) = word

\* A word in quotes is read as it was, wherever it stands.
LEMMA QuotedIsRead ==
  ASSUME NEW S, Backslash \in S, DoubleQuote \in S, NEW word \in Seq(S),
         NEW str \in Seq(S), NEW p \in Nat, Holds(str, p, Quoted(word)), ~ is_escaped(str, p)
  PROVE  Quoted(word) \in Seq(S) /\ Read(str, p, p + Len(Quoted(word)), Quoted(word), word)
<1> DEFINE chars == {DoubleQuote, Backslash}
           inner == Escaped(word, chars)
           one == <<DoubleQuote>>
           open == one \o inner
           text == open \o one
           m == Len(inner)
           n == Len(str)
<1>1. Quoted(word) = text
  BY QuotedIs
<1>2. inner \in Seq(S) /\ one \in Seq(S) /\ Len(one) = 1 /\ one[1] = DoubleQuote /\ one # <<>> /\ m \in Nat /\ n \in Nat
  <2>1. inner \in Seq(S)
    BY PiecesAreTexts
  <2>2. one \in Seq(S) /\ Len(one) = 1 /\ one[1] = DoubleQuote /\ one # <<>>
    OBVIOUS
  <2>3. m \in Nat /\ n \in Nat
    <3> HIDE DEF inner
    <3> QED BY <2>1
  <2> HIDE DEF inner, one, m, n
  <2> QED BY <2>1, <2>2, <2>3
<1>3. unescape(inner) = word
  BY UnescapedWord
<1> HIDE DEF inner, one
<1>4. open \in Seq(S) /\ Len(open) = 1 + m /\ Holds(open, 0, one) /\ Holds(open, 1, inner)
  BY <1>2, HoldsConcat
<1> HIDE DEF open
<1>5. text \in Seq(S) /\ Len(text) = (1 + m) + 1 /\ Holds(text, 0, open) /\ Holds(text, 1 + m, one)
  <2> HIDE DEF m
  <2>1. /\ open \o one \in Seq(S) /\ Len(open \o one) = Len(open) + Len(one)
        /\ Holds(open \o one, 0, open) /\ Holds(open \o one, Len(open), one)
    BY <1>2, <1>4, HoldsConcat
  <2> HIDE DEF text
  <2>2. text \in Seq(S) /\ Len(text) = Len(open) + Len(one) /\ Holds(text, 0, open) /\ Holds(text, Len(open), one)
    BY <2>1 DEF text
  <2> QED BY <1>2, <1>4, <2>2
<1> HIDE DEF text, m
<1>6. Len(text) = m + 2 /\ 1 + m \in Nat
  BY <1>2, <1>5
<1>7. Holds(text, 0 + 0, one) /\ Holds(text, 0 + 1, inner)
  BY <1>2, <1>4, <1>5, HoldsWithin
<1>8. Holds(text, 0, one) /\ Holds(text, 1, inner)
  BY <1>7
<1>9. Holds(str, p, text)
  BY <1>1
<1>10. Holds(str, p + 0, one) /\ Holds(str, p + 1, inner) /\ Holds(str, p + (1 + m), one)
  BY <1>2, <1>5, <1>6, <1>8, <1>9, HoldsWithin
<1> DEFINE r == p + (1 + m)
<1>11. r \in Nat /\ p + 0 = p /\ p + 1 \in Nat /\ (p + 1) + m = r
  BY <1>2
<1>12. At(str, p) = DoubleQuote /\ p < n
  <2>1. Holds(str, p, one)
    BY <1>10, <1>11
  <2> QED BY <1>2, <2>1, HoldsFirst
<1>13. At(str, r) = DoubleQuote /\ r < n
  <2> HIDE DEF r
  <2>1. Holds(str, r, one)
    BY <1>10 DEF r
  <2> QED BY <1>2, <1>11, <2>1, HoldsFirst
<1> HIDE DEF r, n
<1>14. ~ is_escaped(str, p + 1)
  BY <1>12, EscapedStep, CharactersDiffer
<1>15. Guarded(str, p + 1, r, chars)
  <2>1. Guarded(str, p + 1, (p + 1) + Len(inner), chars)
    BY <1>10, <1>11, <1>14, EscapedIsGuarded DEF inner
  <2> QED BY <1>11, <2>1 DEF m
<1>16. search_str_unescaped(str, DoubleQuote, p + 1) = r
  <2>1. Uncut(str, DoubleQuote, p + 1, r) /\ ~ is_escaped(str, r)
    BY <1>15, CharactersDiffer DEF Guarded, Uncut
  <2>2. r \in (p + 1)..(Len(str) - 1)
    BY <1>2, <1>11, <1>13 DEF n
  <2> QED BY <1>11, <1>13, <2>1, <2>2, UnescapedIsFound
<1>17. match_quote(str, p) = r
  BY <1>11, <1>12, <1>16, CharactersDiffer DEF match_quote
<1>18. p + Len(text) = r + 1 /\ p < r + 1
  BY <1>2, <1>6 DEF r
<1>19. Slice(str, p, (p + Len(text)) - 1) = text
  BY <1>5, <1>9, SliceIsPart
<1>20. unquote(text) = inner
  <2>1. At(text, 0) = DoubleQuote
    BY <1>2, <1>5, <1>8, HoldsFirst
  <2>2. At(text, 1 + m) = DoubleQuote /\ 1 + m < Len(text)
    BY <1>2, <1>5, <1>6, HoldsFirst
  <2>3. text[m + 2] = DoubleQuote
    <3>1. (1 + m) + 1 = m + 2
      BY <1>2
    <3> QED BY <2>2, <3>1 DEF At
  <2>4. Last(text) = DoubleQuote /\ Len(text) >= 2
    BY <1>2, <1>6, <2>3 DEF Last
  <2>5. unquote(text) = Slice(text, 1, Len(text) - 2)
    BY <2>1, <2>4, CharactersDiffer DEF unquote
  <2>6. Slice(text, 1, (1 + Len(inner)) - 1) = inner
    BY <1>2, <1>5, <1>8, SliceIsPart
  <2>7. (1 + Len(inner)) - 1 = Len(text) - 2
    BY <1>2, <1>6 DEF m
  <2> QED BY <2>5, <2>6, <2>7
<1>21. Read(str, p, r + 1, text, word)
  <2>1. (r + 1) - 1 = r
    BY <1>11
  <2> QED BY <1>3, <1>12, <1>17, <1>18, <1>19, <1>20, <2>1, CharactersDiffer DEF Read
<1> QED BY <1>1, <1>5, <1>18, <1>21

\* A bare word is, if the text ends behind it or a blank follows.
LEMMA BareIsRead ==
  ASSUME NEW S, Backslash \in S, NEW word \in Seq(S), word # <<>>,
         NEW str \in Seq(S), NEW p \in Nat, Holds(str, p, Bare(word)), ~ is_escaped(str, p),
         p + Len(Bare(word)) = Len(str) \/ At(str, p + Len(Bare(word))) = Blank
  PROVE  Bare(word) \in Seq(S) /\ Read(str, p, p + Len(Bare(word)), Bare(word), word)
<1> DEFINE chars == {Blank, Backslash} \cup QUOTE_CHARS
           text == Escaped(word, chars)
           m == Len(text)
           n == Len(str)
           r == p + m
<1>1. Bare(word) = text
  BY Zenon DEF Bare
<1>2. text \in Seq(S) /\ m \in Nat /\ n \in Nat /\ r \in Nat
  <2>1. text \in Seq(S)
    BY PiecesAreTexts
  <2> HIDE DEF text
  <2> QED BY <2>1
<1>3. Backslash \in chars /\ Blank \in chars /\ QUOTE_CHARS \subseteq chars
  OBVIOUS
<1>4. Len(word) \in Nat /\ Len(word) >= 1 /\ word[1] \in S
  OBVIOUS
<1> HIDE DEF chars
<1>5. unescape(text) = word
  BY <1>3, UnescapedWord
<1>6. Holds(str, p, text)
  BY <1>1
<1>7. Guarded(str, p, r, chars) /\ Len(word) <= m
  BY <1>3, <1>6, EscapedIsGuarded
<1>8. At(str, p) \notin QUOTE_CHARS /\ At(str, p) # Blank
  <2>1. PICK q \in [0..Len(word) -> Nat] : q[0] = p /\ WrittenAt(str, q, word, chars)
    BY <1>6, EscapedPlaces
  <2>2. 1 \in 1..Len(word) /\ 1 - 1 = 0
    BY <1>4
  <2>3. IF word[1] \in chars THEN At(str, p) = Backslash ELSE At(str, p) = word[1]
    BY <2>1, <2>2 DEF WrittenAt
  <2> QED BY <1>3, <2>3, CharactersDiffer
<1>9. r <= n
  BY <1>6 DEF Holds
<1> HIDE DEF text
<1>10. p + Len(text) = r /\ p < r /\ m >= 1 /\ text # <<>>
  <2>1. m >= 1 /\ p < r
    BY <1>2, <1>4, <1>7
  <2>2. text # <<>>
    <3>1. Len(<<>>) = 0
      OBVIOUS
    <3> QED BY <1>2, <2>1, <3>1
  <2> QED BY <2>1, <2>2
<1>11. Slice(str, p, (p + Len(text)) - 1) = text
  BY <1>2, <1>6, SliceIsPart
<1>12. r = n \/ At(str, r) = Blank
  BY <1>1
<1> HIDE DEF m, r
<1>13. Uncut(str, Blank, p + 1, r) /\ ~ is_escaped(str, r)
  <2>1. \A i \in (p + 1)..(r - 1) : i \in p..(r - 1)
    BY <1>2
  <2> QED BY <1>3, <1>7, <2>1, CharactersDiffer DEF Guarded, Uncut
<1> DEFINE blank == search_str_unescaped(str, Blank, p + 1)
<1>14. match_quote(str, p) = IF blank - 1 < 0 THEN n - 1 ELSE blank - 1
  BY <1>8 DEF match_quote
<1>15. match_quote(str, p) = r - 1
  <2>1. CASE r = n
    <3>1. blank = -1
      BY <1>13, <2>1, UnescapedIsNotFound
    <3> QED BY <1>2, <1>14, <2>1, <3>1
  <2>2. CASE r # n
    <3>1. r \in (p + 1)..(Len(str) - 1) /\ p + 1 \in Nat
      BY <1>2, <1>9, <1>10, <2>2
    <3>2. blank = r
      BY <1>12, <1>13, <2>2, <3>1, UnescapedIsFound
    <3> QED BY <1>2, <1>10, <1>14, <3>2
  <2> QED BY <2>1, <2>2
<1>16. unquote(text) = text
  <2>1. At(str, p) = text[1]
    BY <1>2, <1>6, <1>10, HoldsFirst
  <2>2. 0 < Len(text) /\ 0 + 1 = 1
    BY <1>2, <1>10 DEF m
  <2>3. At(text, 0) = text[1]
    BY <2>2 DEF At
  <2> QED BY <1>8, <2>1, <2>3 DEF unquote
<1>17. Read(str, p, r, text, word)
  BY <1>5, <1>8, <1>10, <1>11, <1>15, <1>16 DEF Read
<1> QED BY <1>1, <1>2, <1>10, <1>17

\* So is one that is written either way.
LEMMA AsWrittenIsRead ==
  ASSUME NEW S, Backslash \in S, DoubleQuote \in S, NEW word \in Seq(S), NEW bare \in BOOLEAN,
         NEW str \in Seq(S), NEW p \in Nat, Holds(str, p, AsWritten(word, bare)), ~ is_escaped(str, p),
         p + Len(AsWritten(word, bare)) = Len(str) \/ At(str, p + Len(AsWritten(word, bare))) = Blank
  PROVE  Read(str, p, p + Len(AsWritten(word, bare)), AsWritten(word, bare), word)
<1>1. CASE bare /\ word # <<>>
  <2>1. AsWritten(word, bare) = Bare(word)
    BY <1>1 DEF AsWritten
  <2> QED BY <1>1, <2>1, BareIsRead
<1>2. CASE ~ (bare /\ word # <<>>)
  <2>1. AsWritten(word, bare) = Quoted(word)
    BY <1>2 DEF AsWritten
  <2> QED BY <2>1, QuotedIsRead
<1> QED BY <1>1, <1>2

Write(parts, bare) == [i \in DOMAIN parts |-> AsWritten(parts[i], bare)]

\* The words as they are written.
LEMMA WriteIsAText ==
  ASSUME NEW S, Backslash \in S, DoubleQuote \in S, NEW parts \in Seq(Seq(S)), NEW bare
  PROVE  /\ Write(parts, bare) \in Seq(Seq(S)) /\ Len(Write(parts, bare)) = Len(parts)
         /\ \A i \in 1..Len(parts) : Write(parts, bare)[i] = AsWritten(parts[i], bare) /\ parts[i] \in Seq(S)
<1> DEFINE m == Len(parts)
<1>1. m \in Nat /\ DOMAIN parts = 1..m /\ \A i \in 1..m : parts[i] \in Seq(S)
  OBVIOUS
<1> HIDE DEF m
<1>2. ASSUME NEW word \in Seq(S) PROVE AsWritten(word, bare) \in Seq(S)
  <2>1. Bare(word) \in Seq(S)
    <3>1. Bare(word) = Escaped(word, {Blank, Backslash} \cup QUOTE_CHARS)
      BY Zenon DEF Bare
    <3> QED BY <3>1, PiecesAreTexts
  <2>2. Quoted(word) \in Seq(S)
    <3> DEFINE inner == Escaped(word, {DoubleQuote, Backslash})
               one == <<DoubleQuote>>
    <3>1. inner \in Seq(S) /\ one \in Seq(S)
      BY PiecesAreTexts
    <3>2. Quoted(word) = one \o inner \o one
      BY QuotedIs
    <3> HIDE DEF inner, one
    <3> QED BY <3>1, <3>2
  <2> QED BY <2>1, <2>2 DEF AsWritten
<1>3. Write(parts, bare) \in [1..m -> Seq(S)]
  BY <1>1, <1>2 DEF Write
<1>4. Write(parts, bare) \in Seq(Seq(S)) /\ Len(Write(parts, bare)) = m
  BY <1>1, <1>3
<1> QED BY <1>1, <1>4 DEF Write, m

\* The words of a line that begins with a blank or with a word.
LEMMA WordsAreRead ==
  ASSUME NEW S, Backslash \in S, DoubleQuote \in S, Blank \in S,
         NEW parts \in Seq(Seq(S)), parts # <<>>, NEW bare \in BOOLEAN,
         NEW before \in {<<>>, <<Blank>>}
  PROVE  explode_args(before \o Joined(Write(parts, bare), Blank)) = parts
<1> DEFINE texts == Write(parts, bare)
           str == before \o Joined(texts, Blank)
           n == Len(str)
           m == Len(parts)
           z == Len(before)
<1>1. /\ texts \in Seq(Seq(S)) /\ Len(texts) = m /\ m \in Nat /\ m >= 1
      /\ \A k \in 1..m : texts[k] = AsWritten(parts[k], bare) /\ parts[k] \in Seq(S)
  <2>1. m \in Nat /\ m >= 1
    OBVIOUS
  <2> QED BY <2>1, WriteIsAText
<1> HIDE DEF texts, m, str, n
<1>2. before \in Seq(S) /\ ((before = <<>> /\ z = 0) \/ (before # <<>> /\ before[1] = Blank /\ z = 1))
  <2>1. CASE before = <<>>
    <3>1. <<>> \in Seq(S) /\ Len(<<>>) = 0
      OBVIOUS
    <3> QED BY <2>1, <3>1
  <2>2. CASE before = <<Blank>>
    <3> DEFINE one == <<Blank>>
    <3>1. one \in Seq(S) /\ Len(one) = 1 /\ one # <<>> /\ one[1] = Blank
      OBVIOUS
    <3> HIDE DEF one
    <3>2. before = one
      BY <2>2 DEF one
    <3> QED BY <3>1, <3>2
  <2> QED BY <2>1, <2>2
<1>3. texts # <<>>
  BY <1>1
<1>4. /\ str \in Seq(S) /\ Holds(str, 0, before)
      /\ \E b, e \in [1..m -> Nat] : Laid(str, b, e, texts, Blank, z)
  BY <1>1, <1>2, <1>3, JoinedIsLaid DEF str
<1>5. PICK b, e \in [1..m -> Nat] : Laid(str, b, e, texts, Blank, z)
  BY <1>4
<1>6. PICK g : explode_args(str) = g[0] /\ Reading(str, g)
  BY <1>4, ReadRounds
<1>7. str \in Seq(S) /\ Reading(str, g)
  BY <1>4, <1>6
<1>8. n \in Nat /\ b[1] = z /\ e[m] = n
  BY <1>1, <1>4, <1>5 DEF Laid, n
<1>9. \A k \in 1..m : b[k] \in Nat /\ e[k] \in Nat /\ e[k] = b[k] + Len(texts[k]) /\ e[k] <= n
                      /\ Holds(str, b[k], texts[k])
  BY <1>1, <1>5 DEF Laid, n
<1>10. \A k \in 2..m : k - 1 \in 1..m /\ b[k] = e[k - 1] + 1 /\ e[k - 1] < n /\ At(str, e[k - 1]) = Blank
  <2>1. \A k \in 2..m : k - 1 \in 1..m
    BY <1>1
  <2> QED BY <1>1, <1>5, <2>1 DEF Laid, n
<1>11. z = 1 => At(str, 0) = Blank
  <2>1. ASSUME z = 1 PROVE At(str, 0) = Blank
    <3>1. before # <<>> /\ before[1] = Blank
      BY <1>2, <2>1
    <3> HIDE DEF z
    <3> QED BY <1>2, <1>4, <3>1, HoldsFirst
  <2> QED BY <2>1
<1>12. ASSUME NEW k \in 1..m PROVE ~ is_escaped(str, b[k])
  <2>1. CASE k = 1
    <3>1. CASE z = 0
      BY <1>8, <2>1, <3>1, EscapedStep
    <3>2. CASE z = 1
      <4>1. ~ is_escaped(str, 0 + 1)
        BY <1>11, <3>2, EscapedStep, CharactersDiffer
      <4> QED BY <1>8, <2>1, <3>2, <4>1
    <3> QED BY <1>2, <3>1, <3>2
  <2>2. CASE k # 1
    <3>1. k \in 2..m
      BY <1>1, <2>2
    <3>2. e[k - 1] \in Nat /\ At(str, e[k - 1]) # Backslash
      BY <1>9, <1>10, <3>1, CharactersDiffer
    <3>3. ~ is_escaped(str, e[k - 1] + 1)
      BY <3>2, EscapedStep
    <3> QED BY <1>10, <3>1, <3>3
  <2> QED BY <2>1, <2>2
<1>13. \A k \in 1..m : e[k] = n \/ At(str, e[k]) = Blank
  <2>1. ASSUME NEW k \in 1..m, k # m PROVE At(str, e[k]) = Blank
    <3>1. k + 1 \in 2..m /\ (k + 1) - 1 = k
      BY <1>1, <2>1
    <3> QED BY <1>10, <3>1
  <2> QED BY <1>8, <2>1
<1>14. ASSUME NEW k \in 1..m PROVE Read(str, b[k], e[k], texts[k], parts[k])
  <2> DEFINE p == b[k]
             t == AsWritten(parts[k], bare)
  <2>1. /\ p \in Nat /\ e[k] = p + Len(t) /\ Holds(str, p, t) /\ ~ is_escaped(str, p) /\ texts[k] = t
        /\ (p + Len(t) = Len(str) \/ At(str, p + Len(t)) = Blank) /\ parts[k] \in Seq(S)
    BY <1>1, <1>9, <1>12, <1>13 DEF n
  <2> HIDE DEF p
  <2>2. Read(str, p, p + Len(t), t, parts[k])
    BY <1>7, <2>1, AsWrittenIsRead
  <2> QED BY <2>1, <2>2 DEF p
<1>15. ASSUME NEW k \in 1..m, NEW p \in 0..(n - 1), find_nonws(str, p) = b[k]
       PROVE  g[p] = <<parts[k]>> \o g[e[k]]
  <2>1. g[p] = ReadFrom(str, g, p) /\ p # Len(str)
    BY <1>7, <1>8 DEF Reading, n
  <2>2. /\ match_quote(str, b[k]) = e[k] - 1 /\ Slice(str, b[k], e[k] - 1) = texts[k]
        /\ unescape(unquote(texts[k])) = parts[k]
    BY <1>14 DEF Read
  <2>3. Word(str, p) = parts[k]
    BY <1>15, <2>2 DEF Word
  <2>4. NextPlace(str, p) = e[k]
    <3>1. (e[k] - 1) + 1 = e[k]
      BY <1>9
    <3> QED BY <1>15, <2>2, <3>1 DEF NextPlace
  <2> QED BY <2>1, <2>3, <2>4 DEF ReadFrom
<1>16. \A k \in 1..m : b[k] < n /\ At(str, b[k]) # Blank
  <2>1. \A k \in 1..m : b[k] < e[k] /\ At(str, b[k]) # Blank
    BY <1>14 DEF Read
  <2> QED BY <1>8, <1>9, <2>1
<1>17. ASSUME NEW k \in 1..m, NEW p \in Nat, p = b[k] \/ (b[k] = p + 1 /\ At(str, p) = Blank)
       PROVE  g[p] = <<parts[k]>> \o g[e[k]]
  <2>1. p \in 0..(n - 1) /\ p \in 0..Len(str)
    BY <1>8, <1>9, <1>16, <1>17 DEF n
  <2>2. b[k] < Len(str) /\ At(str, b[k]) # Blank
    BY <1>16 DEF n
  <2>3. find_nonws(str, p) = b[k]
    BY <1>7, <1>17, <2>1, <2>2, NonBlankIsFound
  <2> QED BY <1>15, <2>1, <2>3
<1>18. g[e[m]] = <<>>
  <2>1. n \in 0..Len(str) /\ n = Len(str)
    BY <1>8 DEF n
  <2> QED BY <1>7, <1>8, <2>1 DEF Reading, ReadFrom
<1>19. ASSUME NEW k \in 1..(m - 1) PROVE g[e[k]] = <<parts[k + 1]>> \o g[e[k + 1]]
  <2>1. k \in 1..m /\ k + 1 \in 2..m /\ (k + 1) - 1 = k /\ k + 1 \in 1..m
    BY <1>1
  <2>2. b[k + 1] = e[k] + 1 /\ At(str, e[k]) = Blank /\ e[k] \in Nat
    BY <1>9, <1>10, <2>1
  <2> QED BY <1>17, <2>1, <2>2
<1>20. g[0] = <<parts[1]>> \o g[e[1]]
  <2>1. 1 \in 1..m /\ (0 = b[1] \/ (b[1] = 0 + 1 /\ At(str, 0) = Blank))
    BY <1>1, <1>2, <1>8, <1>11
  <2> QED BY <1>17, <2>1
<1> DEFINE T == {j \in 0..(m - 1) : g[e[m - j]] = SubSeq(parts, (m - j) + 1, m)}
<1>21. 0 \in T
  <2>1. SubSeq(parts, m + 1, m) = <<>>
    BY <1>1, SubSeqEmpty
  <2>2. m - 0 = m /\ 0 \in 0..(m - 1)
    BY <1>1
  <2> QED BY <1>18, <2>1, <2>2
<1>22. ASSUME NEW j \in 0..((m - 1) - 1), j \in T PROVE j + 1 \in T
  <2> DEFINE k == m - (j + 1)
  <2>1. k \in 1..(m - 1) /\ k + 1 = m - j /\ j + 1 \in 0..(m - 1)
    BY <1>1
  <2>2. k + 1 \in 1..Len(parts) /\ m \in (k + 1)..Len(parts)
    BY <1>1 DEF m
  <2> HIDE DEF k
  <2>3. g[e[k]] = <<parts[k + 1]>> \o SubSeq(parts, (k + 1) + 1, m)
    BY <1>19, <1>22, <2>1
  <2>4. SubSeq(parts, k + 1, m) = <<parts[k + 1]>> \o SubSeq(parts, (k + 1) + 1, m)
    BY <2>2, SubSeqRecursiveFirst
  <2> QED BY <2>1, <2>3, <2>4 DEF k
<1>23. g[e[1]] = SubSeq(parts, 1 + 1, m)
  <2>1. m - 1 \in Nat /\ m - (m - 1) = 1 /\ m - 1 \in 0..(m - 1)
    BY <1>1
  <2>2. \A j \in 0..(m - 1) : j \in T
    <3> HIDE DEF T
    <3> QED BY <1>21, <1>22, <2>1, UpTo
  <2> QED BY <2>1, <2>2
<1>24. g[0] = SubSeq(parts, 1, m)
  <2>1. 1 \in 1..Len(parts) /\ m \in 1..Len(parts)
    BY <1>1 DEF m
  <2> QED BY <1>20, <1>23, <2>1, SubSeqRecursiveFirst
<1>25. SubSeq(parts, 1, m) = parts
  BY SubSeqFull DEF m
<1> QED BY <1>6, <1>24, <1>25 DEF str, texts

Restored(texts) == [i \in DOMAIN texts |-> unescape(texts[i])]

\* Parts that are escaped and unescaped are what they were.
LEMMA EachIsRestored ==
  ASSUME NEW S, Backslash \in S, NEW parts \in Seq(Seq(S)), NEW chars, Backslash \in chars
  PROVE  Restored(Each(parts, chars)) = parts
<1> DEFINE m == Len(parts)
<1>1. /\ m \in Nat /\ DOMAIN parts = 1..m /\ DOMAIN Each(parts, chars) = 1..m
      /\ \A i \in 1..m : Each(parts, chars)[i] = Escaped(parts[i], chars) /\ parts[i] \in Seq(S)
  BY EachIsAText DEF Each
<1> HIDE DEF m
<1>2. \A i \in 1..m : unescape(Each(parts, chars)[i]) = parts[i]
  BY <1>1, UnescapedWord
<1>3. parts = [i \in 1..m |-> parts[i]]
  BY <1>1
<1> QED BY <1>1, <1>2, <1>3 DEF Restored

LEMMA ListIsSplit ==
  ASSUME NEW input, input.kind = "list"
  PROVE  TextIsSplit(input) <=>
           Restored(explode_unescaped(Joined(Each(input.parts, {",", Backslash}), ","), ",")) = input.parts
<1> DEFINE words == \A blank \in {<<>>, <<Blank>>} :
                      explode_args(blank \o Joined(Write(input.parts, input.kind = "bare"), Blank)) = input.parts
           list == Restored(explode_unescaped(Joined(Each(input.parts, {",", Backslash}), ","), ",")) = input.parts
           nested == WellNested(input.parts[1]) =>
                       explode_nested(input.parts[1], ",") = Between(input.parts[1], ",")
<1>1. TextIsSplit(input) = CASE input.kind \in {"bare", "quoted"} -> words
                             [] input.kind = "list" -> list
                             [] input.kind = "nested" -> nested
  BY Zenon DEF TextIsSplit, Each, Restored, Write
<1> HIDE DEF words, list, nested
<1>2. (CASE input.kind \in {"bare", "quoted"} -> words
         [] input.kind = "list" -> list
         [] input.kind = "nested" -> nested) <=> list
  OBVIOUS
<1> QED BY <1>1, <1>2 DEF list
-----------------------------------------------------------------------------
(* TextLib: brackets within brackets.                                      *)

Comma == ","

LEMMA Brackets ==
  /\ Opens \subseteq Both /\ "wrong" \notin Opens /\ "none" \notin Opens /\ Comma \notin Both
<1> DEFINE a == "\""
           b == "("
           c == "["
           d == "{"
           x == ")"
           y == "]"
           z == "}"
<1>1. DEFAULT_OPEN = <<a, b, c, d>> /\ DEFAULT_CLOSE = <<a, x, y, z>>
  BY Zenon DEF DEFAULT_OPEN, DEFAULT_CLOSE
<1>2. "wrong" \notin {a, b, c, d} /\ "none" \notin {a, b, c, d} /\ Comma \notin {a, b, c, d, x, y, z}
  BY Zenon DEF Comma
<1> HIDE DEF a, b, c, d, x, y, z
<1>3. Range(<<a, b, c, d>>) = {a, b, c, d} /\ Range(<<a, x, y, z>>) = {a, x, y, z}
  BY DEF Range
<1>4. Opens = {a, b, c, d} /\ Both = {a, b, c, d} \cup {a, x, y, z}
  BY <1>1, <1>3, Zenon DEF Opens, Both
<1> QED BY <1>2, <1>4

\* What one character does to the characters that are open.
Opened(stack, char) ==
  LET top == IF stack = <<>> THEN "none" ELSE Last(stack)
  IN  IF char \notin Both THEN stack
        ELSE IF top \in Opens /\ char = Closing(top) THEN Front(stack)
        ELSE Append(stack, IF char \in Opens THEN char ELSE "wrong")

Stacks == Seq(Opens \cup {"wrong"})

LEMMA FrontAndLastOf ==
  ASSUME NEW S, NEW s \in Seq(S), s # <<>>
  PROVE  Front(s) \in Seq(S) /\ Last(s) \in S /\ s = Append(Front(s), Last(s))
<1> DEFINE n == Len(s)
           m == n - 1
<1>1. n \in Nat /\ n # 0 /\ m \in Nat /\ n \in DOMAIN s /\ m + 1 = n
  OBVIOUS
<1>2. Last(s) = s[n] /\ Front(s) = SubSeq(s, 1, m)
  BY DEF Last, Front
<1>3. \A k \in 1..m : s[k] \in S
  BY <1>1
<1> HIDE DEF m
<1>4. /\ SubSeq(s, 1, m) \in Seq(S) /\ Len(SubSeq(s, 1, m)) = IF 1 <= m THEN m - 1 + 1 ELSE 0
      /\ \A i \in 1..(m - 1 + 1) : SubSeq(s, 1, m)[i] = s[1 + i - 1]
  BY <1>1, <1>3, SubSeqProperties
<1>5. Len(SubSeq(s, 1, m)) = m /\ \A i \in 1..m : SubSeq(s, 1, m)[i] = s[i]
  BY <1>1, <1>4
<1> DEFINE t == Append(SubSeq(s, 1, m), s[n])
<1>6. t \in Seq(S) /\ Len(t) = m + 1 /\ t[n] = s[n] /\ \A i \in 1..m : t[i] = s[i]
  <2> DEFINE u == SubSeq(s, 1, m)
  <2>1. u \in Seq(S) /\ Len(u) = m /\ s[n] \in S /\ \A i \in 1..m : u[i] = s[i]
    BY <1>1, <1>4, <1>5
  <2> HIDE DEF u
  <2>2. /\ Append(u, s[n]) \in Seq(S) /\ Len(Append(u, s[n])) = m + 1 /\ Append(u, s[n])[m + 1] = s[n]
        /\ \A i \in 1..m : Append(u, s[n])[i] = u[i]
    BY <1>1, <2>1
  <2> QED BY <1>1, <2>1, <2>2 DEF u
<1> HIDE DEF t
<1>7. \A i \in 1..Len(s) : t[i] = s[i]
  BY <1>1, <1>6
<1>8. t = s
  BY <1>1, <1>6, <1>7, SeqEqual
<1> QED BY <1>1, <1>2, <1>4, <1>8 DEF t

LEMMA OpenedIsAStack ==
  ASSUME NEW stack \in Stacks, NEW char
  PROVE  Opened(stack, char) \in Stacks
<1>1. stack # <<>> => Front(stack) \in Stacks
  BY FrontAndLastOf DEF Stacks
<1>2. Append(stack, IF char \in Opens THEN char ELSE "wrong") \in Stacks
  BY DEF Stacks
<1>3. stack = <<>> => (IF stack = <<>> THEN "none" ELSE Last(stack)) \notin Opens
  BY Brackets
<1> QED BY <1>1, <1>2, <1>3 DEF Opened

\* What is open, character by character.
LEMMA OpenRounds ==
  ASSUME NEW S, NEW str \in Seq(S)
  PROVE  /\ Open(str) \in [0..Len(str) -> Stacks] /\ Open(str)[0] = <<>>
         /\ \A k \in 1..Len(str) : Open(str)[k] = Opened(Open(str)[k - 1], str[k])
<1> DEFINE n == Len(str)
           Round(f, k) == IF k = 0 THEN <<>> ELSE Opened(f[k - 1], str[k])
           Written(f, k) ==
             LET top == IF f[k - 1] = <<>> THEN "none" ELSE Last(f[k - 1])
             IN  CASE k = 0 -> <<>>
                   [] k > 0 /\ str[k] \notin Both -> f[k - 1]
                   [] k > 0 /\ str[k] \in Both ->
                        IF top \in Opens /\ str[k] = Closing(top) THEN Front(f[k - 1])
                          ELSE Append(f[k - 1], IF str[k] \in Opens THEN str[k] ELSE "wrong")
           step == [p \in Stacks \X (1..n) |-> Opened(p[1], str[p[2]])]
           g == CHOOSE f : f = [k \in 0..n |-> Written(f, k)]
<1>1. n \in Nat /\ <<>> \in Stacks
  BY DEF Stacks
<1>2. step \in [Stacks \X (1..n) -> Stacks]
  <2>1. ASSUME NEW p \in Stacks \X (1..n) PROVE Opened(p[1], str[p[2]]) \in Stacks
    BY OpenedIsAStack
  <2> QED BY <2>1
<1>0. ASSUME NEW f, NEW k \in 0..n PROVE Written(f, k) = Round(f, k)
  <2>1. k = 0 \/ k > 0
    OBVIOUS
  <2> QED BY <2>1 DEF Opened
<1>9. Open(str) = g
  BY Zenon DEF Open
<1> HIDE DEF Written
<1>3. \E f : f = [k \in 0..n |-> Written(f, k)]
  <2>1. PICK f \in [0..n -> Stacks] : Rounds(f, n, <<>>, step)
    <3> HIDE DEF n, step
    <3> QED BY <1>1, <1>2, Iteration
  <2>2. ASSUME NEW k \in 0..n PROVE f[k] = Round(f, k)
    <3>1. k # 0 => k - 1 \in 0..n /\ k \in 1..n
      BY <1>1
    <3>2. k # 0 => <<f[k - 1], k>> \in Stacks \X (1..n)
      BY <3>1
    <3> QED BY <2>1, <3>1, <3>2 DEF Rounds
  <2>3. f = [k \in 0..n |-> Written(f, k)]
    <3> HIDE DEF Round, n
    <3> QED BY <1>0, <2>2
  <2> QED BY <2>3
<1>4. g = [k \in 0..n |-> Written(g, k)]
  <2> HIDE DEF Round, n
  <2> QED BY <1>3
<1> HIDE DEF g
<1>6. \A k \in 0..n : g[k] = Round(g, k)
  <2> HIDE DEF Round, n
  <2> QED BY <1>0, <1>4
<1>7. g[0] = <<>> /\ \A k \in 1..n : g[k] = Opened(g[k - 1], str[k])
  BY <1>1, <1>6
<1>8. g \in [0..n -> Stacks]
  <2>1. DOMAIN g = 0..n /\ g = [k \in 0..n |-> g[k]]
    <3> HIDE DEF Round, n
    <3> QED BY <1>4
  <2>2. ASSUME NEW k \in 1..n, g[k - 1] \in Stacks PROVE g[k] \in Stacks
    BY <1>1, <1>7, <2>2, OpenedIsAStack
  <2> HIDE DEF n
  <2> QED BY <1>1, <1>7, <2>1, <2>2, IterationStays
<1> QED BY <1>7, <1>8, <1>9

\* At the end nothing is open, so nothing is ever closed that was not opened.
LEMMA NestedIsOpen ==
  ASSUME NEW S, NEW str \in Seq(S), WellNested(str)
  PROVE  \A i \in 0..Len(str) : Open(str)[i] \in Seq(Opens)
<1> DEFINE n == Len(str)
           A == Open(str)
           T == {k \in 0..n : A[n - k] \in Seq(Opens)}
<1>1. n \in Nat /\ A \in [0..n -> Stacks] /\ \A k \in 1..n : A[k] = Opened(A[k - 1], str[k])
  BY OpenRounds
<1>2. A[n] = <<>>
  BY DEF WellNested
<1> HIDE DEF A, n
<1>3. 0 \in T
  BY <1>1, <1>2
<1>4. ASSUME NEW k \in 0..(n - 1), k \in T PROVE k + 1 \in T
  <2> DEFINE i == n - k
             stack == A[i - 1]
             char == str[i]
             top == IF stack = <<>> THEN "none" ELSE Last(stack)
             new == IF char \in Opens THEN char ELSE "wrong"
  <2>1. i \in 1..n /\ i - 1 \in 0..n /\ i - 1 = n - (k + 1) /\ k + 1 \in 0..n
    BY <1>1
  <2>2. stack \in Stacks /\ A[i] = Opened(stack, char) /\ A[i] \in Seq(Opens)
    BY <1>1, <1>4, <2>1
  <2> HIDE DEF i, stack, char
  <2>3. CASE A[i] = stack
    BY <2>1, <2>2, <2>3 DEF i, stack
  <2>4. CASE top \in Opens /\ A[i] = Front(stack)
    <3>1. stack # <<>> /\ Last(stack) \in Opens
      BY <2>4, Brackets
    <3>2. stack = Append(Front(stack), Last(stack))
      BY <2>2, <3>1, FrontAndLastOf DEF Stacks
    <3>3. stack \in Seq(Opens)
      BY <2>2, <2>4, <3>1, <3>2
    <3> QED BY <2>1, <3>3 DEF i, stack
  <2>5. CASE A[i] = Append(stack, new)
    <3>1. new \in Opens \cup {"wrong"}
      OBVIOUS
    <3>2. Front(A[i]) = stack /\ A[i] # <<>>
      BY <2>2, <2>5, <3>1, FrontOfAppend DEF Stacks
    <3>3. stack \in Seq(Opens)
      BY <2>2, <3>2, FrontAndLastOf
    <3> QED BY <2>1, <3>3 DEF i, stack
  <2> QED BY <2>2, <2>3, <2>4, <2>5 DEF Opened
<1>5. \A k \in 0..n : k \in T
  <2> HIDE DEF T
  <2> QED BY <1>1, <1>3, <1>4, UpTo
<1>6. ASSUME NEW i \in 0..n PROVE A[i] \in Seq(Opens)
  <2>1. n - i \in 0..n /\ n - (n - i) = i
    BY <1>1
  <2> QED BY <1>5, <2>1
<1> QED BY <1>6 DEF A, n

IsClosed(str, i) == Open(str)[i] # <<>> /\ At(str, i) = Closing(Last(Open(str)[i]))

\* What the character at place i does.
LEMMA NestedStep ==
  ASSUME NEW S, NEW str \in Seq(S), WellNested(str), NEW i \in 0..(Len(str) - 1)
  PROVE  /\ At(str, i) \notin Both => Open(str)[i + 1] = Open(str)[i]
         /\ At(str, i) \in Both /\ IsClosed(str, i) => Open(str)[i + 1] = Front(Open(str)[i])
         /\ At(str, i) \in Both /\ ~ IsClosed(str, i) =>
              At(str, i) \in Opens /\ Open(str)[i + 1] = Append(Open(str)[i], At(str, i))
<1> DEFINE A == Open(str)
           c == At(str, i)
           stack == A[i]
           top == IF stack = <<>> THEN "none" ELSE Last(stack)
<1>1. i \in 0..Len(str) /\ i + 1 \in 1..Len(str) /\ i + 1 \in 0..Len(str) /\ (i + 1) - 1 = i /\ c = str[i + 1]
  BY DEF At
<1>2. A[i + 1] = Opened(stack, c)
  BY <1>1, OpenRounds
<1>3. stack \in Seq(Opens) /\ A[i + 1] \in Seq(Opens)
  BY <1>1, NestedIsOpen
<1>4. stack # <<>> => Last(stack) \in Opens
  BY <1>3, FrontAndLastOf
<1>5. top \in Opens <=> stack # <<>>
  BY <1>4, Brackets
<1>6. IsClosed(str, i) <=> top \in Opens /\ c = Closing(top)
  BY <1>5 DEF IsClosed
<1> HIDE DEF A, c, stack
<1>7. ASSUME c \in Both, ~ IsClosed(str, i) PROVE c \in Opens /\ A[i + 1] = Append(stack, c)
  <2> DEFINE new == IF c \in Opens THEN c ELSE "wrong"
  <2>1. A[i + 1] = Append(stack, new)
    BY <1>2, <1>6, <1>7 DEF Opened
  <2>2. Last(A[i + 1]) = new /\ A[i + 1] # <<>>
    <3>1. stack \in Seq(Opens \cup {"wrong"}) /\ new \in Opens \cup {"wrong"}
      BY <1>3
    <3> QED BY <2>1, <3>1, FrontOfAppend
  <2>3. new \in Opens
    BY <1>3, <2>2, FrontAndLastOf
  <2> QED BY <2>1, <2>3, Brackets
<1>8. c \in Both /\ IsClosed(str, i) => A[i + 1] = Front(stack)
  BY <1>2, <1>6 DEF Opened
<1>9. c \notin Both => A[i + 1] = stack
  BY <1>2 DEF Opened
<1> QED BY <1>7, <1>8, <1>9 DEF A, c, stack

\* The places from i on that hold one of some characters.
AnyPlaces(str, i, chars) == {j \in i..(Len(str) - 1) : At(str, j) \in chars}

LEMMA FirstOfAny ==
  ASSUME NEW S, NEW str \in Seq(S), NEW i \in 0..Len(str), NEW chars
  PROVE  LET next == First(AnyPlaces(str, i, chars)) IN
           /\ next = -1 \/ (next \in i..(Len(str) - 1) /\ At(str, next) \in chars)
           /\ next = -1 <=> AnyPlaces(str, i, chars) = {}
           /\ \A j \in AnyPlaces(str, i, chars) : next <= j
<1> DEFINE n == Len(str)
           T == AnyPlaces(str, i, chars)
<1>1. n \in Nat /\ T \in SUBSET (0..(n - 1)) /\ \A j \in T : j \in i..(n - 1) /\ At(str, j) \in chars
  BY DEF AnyPlaces
<1> HIDE DEF T
<1>2. /\ T = {} => First(T) = -1
      /\ T # {} => First(T) \in T /\ First(T) \in 0..(n - 1) /\ \A m \in T : First(T) <= m
  BY <1>1, FirstIsLeast
<1> QED BY <1>1, <1>2 DEF T

LEMMA AnyOnward ==
  ASSUME NEW S, NEW str \in Seq(S), NEW i \in 0..(Len(str) - 1), NEW chars
  PROVE  /\ At(str, i) \in chars => First(AnyPlaces(str, i, chars)) = i
         /\ At(str, i) \notin chars => AnyPlaces(str, i, chars) = AnyPlaces(str, i + 1, chars)
<1> DEFINE n == Len(str)
           T == AnyPlaces(str, i, chars)
<1>1. n \in Nat /\ i \in Nat /\ i \in i..(n - 1) /\ i \in 0..Len(str)
  OBVIOUS
<1>3. ASSUME At(str, i) \in chars PROVE First(T) = i
  <2>1. i \in T
    BY <1>1, <1>3 DEF AnyPlaces
  <2>2. First(T) \in i..(n - 1) /\ First(T) <= i
    BY <1>1, <2>1, FirstOfAny
  <2> QED BY <1>1, <2>2
<1>4. ASSUME At(str, i) \notin chars PROVE T = AnyPlaces(str, i + 1, chars)
  <2>1. \A j \in i..(n - 1) : j = i \/ j \in (i + 1)..(n - 1)
    BY <1>1
  <2>2. \A j \in (i + 1)..(n - 1) : j \in i..(n - 1)
    BY <1>1
  <2> QED BY <1>4, <2>1, <2>2 DEF AnyPlaces
<1> QED BY <1>3, <1>4

\* What _find_close_char() gives for each opened character when its cursor is at
\* place i, if g is what it gives later.
CloseHere(str, g, i, opened) ==
  LET first == First(AnyPlaces(str, i, Both))
      inner == g[first + 1][first]
  IN  IF first = -1 THEN -opened
        ELSE IF At(str, first) = Closing(At(str, opened)) THEN first
        ELSE IF At(str, first) \notin Opens THEN -opened
        ELSE IF inner < 0 THEN inner
        ELSE g[inner + 1][opened]

CloseFrom(str, g, i) == [opened \in 0..(Len(str) - 1) |-> CloseHere(str, g, i, opened)]

CloseTable(str) == CHOOSE f : f = [i \in 0..Len(str) |-> CloseFrom(str, f, i)]

\* It is no place, or one from the cursor on.
IsPlace(v, i, opened, n) == v < 0 \/ v = -opened \/ v \in i..(n - 1)

ClosePlaces(n) ==
  [i \in 0..n |-> {f \in [0..(n - 1) -> Int] : \A o \in 0..(n - 1) : IsPlace(f[o], i, o, n)}]

LEMMA CloseHereIsAPlace ==
  ASSUME NEW S, NEW str \in Seq(S), NEW i \in 0..Len(str), NEW g, NEW h,
         AgreeWithin(g, h, i, Len(str), ClosePlaces(Len(str))), NEW opened \in 0..(Len(str) - 1)
  PROVE  /\ CloseHere(str, g, i, opened) \in Int /\ IsPlace(CloseHere(str, g, i, opened), i, opened, Len(str))
         /\ CloseHere(str, h, i, opened) = CloseHere(str, g, i, opened)
<1> DEFINE n == Len(str)
           first == First(AnyPlaces(str, i, Both))
           inner == g[first + 1][first]
<1>1. n \in Nat /\ i \in Nat /\ i <= n /\ opened \in Nat /\ opened <= n - 1
  OBVIOUS
<1>2. first = -1 \/ first \in i..(n - 1)
  BY FirstOfAny
<1>3. \A j \in 0..n : i < j => /\ g[j] \in [0..(n - 1) -> Int] /\ h[j] = g[j]
                              /\ \A o \in 0..(n - 1) : IsPlace(g[j][o], j, o, n)
  BY DEF AgreeWithin, ClosePlaces
<1> HIDE DEF first, n
<1>4. CASE first = -1 \/ At(str, first) = Closing(At(str, opened)) \/ At(str, first) \notin Opens
  <2> DEFINE v == IF first = -1 THEN -opened
                    ELSE IF At(str, first) = Closing(At(str, opened)) THEN first ELSE -opened
  <2>1. CloseHere(str, g, i, opened) = v /\ CloseHere(str, h, i, opened) = v
    BY <1>4 DEF CloseHere, first
  <2>2. v \in Int /\ IsPlace(v, i, opened, n)
    <3>1. v = -opened \/ (v = first /\ first \in i..(n - 1))
      BY <1>2
    <3> HIDE DEF v
    <3> QED BY <1>1, <3>1 DEF IsPlace
  <2> QED BY <2>1, <2>2 DEF n
<1>5. CASE ~ (first = -1 \/ At(str, first) = Closing(At(str, opened)) \/ At(str, first) \notin Opens)
  <2>1. first \in i..(n - 1) /\ first + 1 \in 0..n /\ i < first + 1 /\ first \in 0..(n - 1)
    BY <1>1, <1>2, <1>5
  <2>2. inner \in Int /\ IsPlace(inner, first + 1, first, n) /\ h[first + 1] = g[first + 1]
    BY <1>3, <2>1
  <2>3. CloseHere(str, g, i, opened) = (IF inner < 0 THEN inner ELSE g[inner + 1][opened])
    BY <1>5 DEF CloseHere, first
  <2>4. CloseHere(str, h, i, opened) = (IF inner < 0 THEN inner ELSE h[inner + 1][opened])
    BY <1>5, <2>2 DEF CloseHere, first
  <2> HIDE DEF inner
  <2>5. CASE inner < 0
    BY <2>2, <2>3, <2>4, <2>5 DEF IsPlace, n
  <2>6. CASE ~ (inner < 0)
    <3>1. inner + 1 \in 0..n /\ i < inner + 1
      BY <1>1, <2>1, <2>2, <2>6 DEF IsPlace
    <3> DEFINE v == g[inner + 1][opened]
    <3>2. v \in Int /\ IsPlace(v, inner + 1, opened, n) /\ h[inner + 1] = g[inner + 1]
      BY <1>1, <1>3, <3>1
    <3>3. CloseHere(str, g, i, opened) = v /\ CloseHere(str, h, i, opened) = v
      BY <2>3, <2>4, <2>6, <3>2
    <3> HIDE DEF v
    <3>4. IsPlace(v, i, opened, n)
      BY <1>1, <2>2, <3>1, <3>2 DEF IsPlace
    <3> QED BY <3>2, <3>3, <3>4 DEF n
  <2> QED BY <2>5, <2>6
<1> QED BY <1>4, <1>5

\* _find_close_char() is done place by place.
LEMMA CloseRounds ==
  ASSUME NEW S, NEW str \in Seq(S)
  PROVE  /\ \A i \in 0..Len(str) : /\ CloseTable(str)[i] = CloseFrom(str, CloseTable(str), i)
                                  /\ CloseTable(str)[i] \in ClosePlaces(Len(str))[i]
         /\ \A start : find_close_char(str, start) =
              LET result == CloseTable(str)[start + 1][start]
              IN  IF result <= 0 THEN result - 1 ELSE result
<1> DEFINE n == Len(str)
           V == [0..(n - 1) -> Int]
           In == ClosePlaces(n)
           step == [p \in [0..n -> V] \X (0..n) |-> CloseFrom(str, p[1], p[2])]
           g == CloseTable(str)
<1>1. n \in Nat /\ In \in [0..n -> SUBSET V]
  BY DEF ClosePlaces
<1>2. ASSUME NEW i \in 0..n PROVE In[i] # {}
  <2>1. [o \in 0..(n - 1) |-> -o] \in In[i]
    BY <1>1 DEF ClosePlaces, IsPlace
  <2> QED BY <2>1
<1>3. ASSUME NEW f, NEW h, NEW i \in 0..n, AgreeWithin(f, h, i, n, In)
      PROVE  CloseFrom(str, f, i) \in In[i] /\ CloseFrom(str, h, i) = CloseFrom(str, f, i)
  <2>1. \A o \in 0..(n - 1) : /\ CloseHere(str, f, i, o) \in Int /\ IsPlace(CloseHere(str, f, i, o), i, o, n)
                              /\ CloseHere(str, h, i, o) = CloseHere(str, f, i, o)
    BY <1>3, CloseHereIsAPlace
  <2> QED BY <2>1 DEF CloseFrom, ClosePlaces
<1> HIDE DEF n
<1>4. \A f \in [0..n -> V] : \A i \in 0..n : step[<<f, i>>] = CloseFrom(str, f, i)
  <2> HIDE DEF V
  <2> QED OBVIOUS
<1> HIDE DEF step, V, In
<1>5. KeepsWithin(step, n, V, In)
  BY <1>3, <1>4 DEF KeepsWithin
<1>6. PICK f \in [0..n -> V] : FollowsWithin(f, n, step, In)
  BY <1>1, <1>2, <1>5, FromBehindWithin
<1>7. f = [i \in 0..n |-> CloseFrom(str, f, i)]
  BY <1>4, <1>6 DEF FollowsWithin
<1>8. g = [i \in 0..n |-> CloseFrom(str, g, i)]
  BY <1>7 DEF CloseTable, n
<1> HIDE DEF g
<1>9. \A i \in 0..n : g[i] = CloseFrom(str, g, i)
  BY <1>8
<1> DEFINE T == {k \in 0..n : \A i \in 0..n : n - k <= i => g[i] \in In[i]}
<1>10. ASSUME NEW i \in 0..n, \A j \in 0..n : i < j => g[j] \in In[j] PROVE g[i] \in In[i]
  <2>1. AgreeWithin(g, g, i, n, In)
    BY <1>10 DEF AgreeWithin
  <2> QED BY <1>3, <1>9, <2>1
<1>11. 0 \in T
  <2>1. n \in 0..n /\ 0 \in 0..n /\ \A i \in 0..n : n - 0 <= i => i = n
    BY <1>1
  <2>2. \A j \in 0..n : ~ (n < j)
    BY <1>1
  <2> QED BY <1>10, <2>1, <2>2
<1>12. ASSUME NEW k \in 0..(n - 1), k \in T PROVE k + 1 \in T
  <2>1. /\ k + 1 \in 0..n /\ n - (k + 1) \in 0..n
        /\ \A j \in 0..n : n - (k + 1) < j => n - k <= j
        /\ \A i \in 0..n : n - (k + 1) <= i => i = n - (k + 1) \/ n - k <= i
    BY <1>1
  <2> QED BY <1>10, <1>12, <2>1
<1>13. ASSUME NEW i \in 0..n PROVE g[i] \in In[i]
  <2>1. \A k \in 0..n : k \in T
    <3> HIDE DEF T
    <3> QED BY <1>1, <1>11, <1>12, UpTo
  <2>2. n \in 0..n /\ n - n <= i
    BY <1>1
  <2> QED BY <2>1, <2>2
<1>14. ASSUME NEW start
       PROVE  find_close_char(str, start) = LET result == g[start + 1][start]
                                            IN  IF result <= 0 THEN result - 1 ELSE result
  BY DEF find_close_char, searcha_any, Search, First, AnyPlaces, CloseHere, CloseFrom, CloseTable, g
<1> QED BY <1>9, <1>13, <1>14 DEF g, n, In

\* c is where what is open on top at place i is closed.
Closes(str, i, c) ==
  /\ c \in i..(Len(str) - 1) /\ Open(str)[c + 1] = Front(Open(str)[i])
  /\ \A k \in i..c : Open(str)[k] # <<>>

\* The table finds it, from place i on.
ClosesAll(str, i) ==
  \A o \in 0..(Len(str) - 1) :
    Open(str)[i] # <<>> /\ At(str, o) = Last(Open(str)[i]) => Closes(str, i, CloseTable(str)[i][o])

LEMMA CloseStep ==
  ASSUME NEW S, NEW str \in Seq(S), WellNested(str), NEW i \in 0..Len(str),
         \A j \in 0..Len(str) : i < j => ClosesAll(str, j)
  PROVE  ClosesAll(str, i)
<1> DEFINE n == Len(str)
           A == Open(str)
           g == CloseTable(str)
           char == At(str, i)
<1>1. n \in Nat /\ i \in Nat /\ i <= n
  OBVIOUS
<1> SUFFICES ASSUME NEW o \in 0..(n - 1), A[i] # <<>>, At(str, o) = Last(A[i])
             PROVE  Closes(str, i, g[i][o])
  BY DEF ClosesAll
<1>2. i \in 0..(n - 1) /\ i + 1 \in 0..n /\ i < i + 1
  BY <1>1 DEF WellNested
<1>3. \A j \in 0..n : g[j][o] = CloseHere(str, g, j, o)
  <2>1. \A j \in 0..n : g[j] = CloseFrom(str, g, j)
    BY CloseRounds
  <2>2. \A j : CloseFrom(str, g, j)[o] = CloseHere(str, g, j, o)
    <3> HIDE DEF g
    <3> QED BY DEF CloseFrom
  <2> QED BY <2>1, <2>2
<1>4. ClosesAll(str, i + 1)
  BY <1>2
<1>5. A[i] \in Seq(Opens)
  BY NestedIsOpen
<1>6. CASE char \notin Both
  <2>1. A[i + 1] = A[i]
    BY <1>2, <1>6, NestedStep
  <2>2. CloseHere(str, g, i, o) = CloseHere(str, g, i + 1, o)
    <3>1. AnyPlaces(str, i, Both) = AnyPlaces(str, i + 1, Both)
      BY <1>2, <1>6, AnyOnward
    <3> QED BY <3>1 DEF CloseHere
  <2>3. g[i][o] = g[i + 1][o]
    BY <1>2, <1>3, <2>2
  <2>4. Closes(str, i + 1, g[i + 1][o])
    BY <1>4, <2>1 DEF ClosesAll
  <2> HIDE DEF g
  <2>5. \A c \in (i + 1)..(n - 1) : c \in i..(n - 1) /\ \A k \in i..c : k = i \/ k \in (i + 1)..c
    BY <1>1
  <2> QED BY <2>1, <2>3, <2>4, <2>5 DEF Closes
<1>7. CASE char \in Both /\ IsClosed(str, i)
  <2>1. A[i + 1] = Front(A[i])
    BY <1>2, <1>7, NestedStep
  <2>2. First(AnyPlaces(str, i, Both)) = i
    BY <1>2, <1>7, AnyOnward
  <2>3. char = Closing(At(str, o))
    BY <1>7 DEF IsClosed
  <2>4. g[i][o] = i
    <3>1. i # -1
      BY <1>1
    <3> QED BY <1>2, <1>3, <2>2, <2>3, <3>1 DEF CloseHere
  <2>5. i \in i..(n - 1) /\ \A k \in i..i : k = i
    BY <1>2
  <2> QED BY <2>1, <2>4, <2>5 DEF Closes
<1>8. CASE char \in Both /\ ~ IsClosed(str, i)
  <2>1. char \in Opens /\ A[i + 1] = Append(A[i], char)
    BY <1>2, <1>8, NestedStep
  <2>2. First(AnyPlaces(str, i, Both)) = i
    BY <1>2, <1>8, AnyOnward
  <2>3. char # Closing(At(str, o))
    BY <1>8 DEF IsClosed
  <2> DEFINE c == g[i + 1][i]
             d == g[c + 1][o]
  <2>4. A[i + 1] # <<>> /\ Front(A[i + 1]) = A[i] /\ Last(A[i + 1]) = At(str, i)
    BY <1>5, <2>1, FrontOfAppend
  <2>5. Closes(str, i + 1, c)
    BY <1>2, <1>4, <2>4 DEF ClosesAll
  <2>6. g[i][o] = IF c < 0 THEN c ELSE d
    <3>1. i # -1
      BY <1>1
    <3>2. CloseHere(str, g, i, o) = IF c < 0 THEN c ELSE d
      BY <2>1, <2>2, <2>3, <3>1 DEF CloseHere
    <3> QED BY <1>2, <1>3, <3>2
  <2>7. c \in (i + 1)..(n - 1) /\ A[c + 1] = A[i] /\ \A k \in (i + 1)..c : A[k] # <<>>
    BY <2>4, <2>5 DEF Closes
  <2>8. Closes(str, c + 1, d)
    <3>1. c + 1 \in 0..n /\ i < c + 1
      BY <1>1, <2>7
    <3>2. ClosesAll(str, c + 1)
      BY <3>1
    <3> QED BY <2>7, <3>2 DEF ClosesAll
  <2>9. g[i][o] = d
    <3> HIDE DEF c, d
    <3>1. ~ (c < 0)
      BY <1>1, <2>7
    <3> QED BY <2>6, <3>1
  <2> HIDE DEF c, d, g
  <2>10. d \in (c + 1)..(n - 1) /\ A[d + 1] = Front(A[i]) /\ \A k \in (c + 1)..d : A[k] # <<>>
    BY <2>7, <2>8 DEF Closes
  <2>11. d \in i..(n - 1) /\ \A k \in i..d : k = i \/ k \in (i + 1)..c \/ k \in (c + 1)..d
    BY <1>1, <2>7, <2>10
  <2>12. \A k \in i..d : A[k] # <<>>
    BY <2>7, <2>10, <2>11
  <2> QED BY <2>9, <2>10, <2>11, <2>12 DEF Closes
<1> QED BY <1>6, <1>7, <1>8

LEMMA CloseIsFound ==
  ASSUME NEW S, NEW str \in Seq(S), WellNested(str)
  PROVE  \A i \in 0..Len(str) : ClosesAll(str, i)
<1> DEFINE n == Len(str)
           T == {k \in 0..n : \A i \in 0..n : n - k <= i => ClosesAll(str, i)}
<1>1. n \in Nat
  OBVIOUS
<1>2. 0 \in T
  <2>1. n \in 0..n /\ 0 \in 0..n /\ \A i \in 0..n : n - 0 <= i => i = n
    BY <1>1
  <2>2. \A j \in 0..n : ~ (n < j)
    BY <1>1
  <2>3. ClosesAll(str, n)
    BY <2>1, <2>2, CloseStep
  <2> QED BY <2>1, <2>3
<1>3. ASSUME NEW k \in 0..(n - 1), k \in T PROVE k + 1 \in T
  <2> DEFINE i == n - (k + 1)
  <2>1. /\ k + 1 \in 0..n /\ i \in 0..n
        /\ \A j \in 0..n : i < j => n - k <= j
        /\ \A j \in 0..n : i <= j => j = i \/ n - k <= j
    BY <1>1
  <2> HIDE DEF i
  <2>2. ClosesAll(str, i)
    BY <1>3, <2>1, CloseStep
  <2>3. \A j \in 0..n : i <= j => ClosesAll(str, j)
    BY <1>3, <2>1, <2>2
  <2> QED BY <2>1, <2>3 DEF i
<1>4. \A k \in 0..n : k \in T
  <2> HIDE DEF T
  <2> QED BY <1>1, <1>2, <1>3, UpTo
<1>5. n \in 0..n /\ \A i \in 0..n : n - n <= i
  BY <1>1
<1> QED BY <1>4, <1>5

\* What find_close_char() finds lies behind.
LEMMA CloseIsBehind ==
  ASSUME NEW S, NEW str \in Seq(S), NEW i \in 0..(Len(str) - 1)
  PROVE  find_close_char(str, i) <= 0 \/ find_close_char(str, i) \in (i + 1)..(Len(str) - 1)
<1> DEFINE n == Len(str)
           v == CloseTable(str)[i + 1][i]
<1>1. n \in Nat /\ i \in Nat /\ i + 1 \in 0..n
  OBVIOUS
<1>2. v \in Int /\ IsPlace(v, i + 1, i, n)
  BY <1>1, CloseRounds DEF ClosePlaces
<1>3. find_close_char(str, i) = IF v <= 0 THEN v - 1 ELSE v
  BY CloseRounds
<1> HIDE DEF v, n
<1> QED BY <1>1, <1>2, <1>3 DEF IsPlace, n

\* What is opened where nothing is open is closed where nothing is open again.
LEMMA CloseIsRight ==
  ASSUME NEW S, NEW str \in Seq(S), WellNested(str), NEW i \in 0..(Len(str) - 1),
         Open(str)[i] = <<>>, At(str, i) \in Opens
  PROVE  LET c == find_close_char(str, i) IN
           /\ c \in (i + 1)..(Len(str) - 1) /\ Open(str)[c + 1] = <<>>
           /\ \A k \in (i + 1)..c : Open(str)[k] # <<>>
<1> DEFINE n == Len(str)
           A == Open(str)
           v == CloseTable(str)[i + 1][i]
<1>1. n \in Nat /\ i \in Nat /\ i + 1 \in 0..n
  OBVIOUS
<1>2. A[i + 1] = Append(<<>>, At(str, i))
  <2>1. At(str, i) \in Both /\ ~ IsClosed(str, i)
    BY Brackets DEF IsClosed
  <2> QED BY <2>1, NestedStep
<1>3. A[i + 1] # <<>> /\ Front(A[i + 1]) = <<>> /\ Last(A[i + 1]) = At(str, i)
  <2>1. <<>> \in Seq(Opens)
    OBVIOUS
  <2> QED BY <1>2, <2>1, FrontOfAppend
<1>4. Closes(str, i + 1, v)
  BY <1>1, <1>3, CloseIsFound DEF ClosesAll
<1>5. find_close_char(str, i) = IF v <= 0 THEN v - 1 ELSE v
  BY CloseRounds
<1> HIDE DEF v, A
<1>6. v \in (i + 1)..(n - 1) /\ A[v + 1] = <<>> /\ \A k \in (i + 1)..v : A[k] # <<>>
  BY <1>3, <1>4 DEF Closes, A
<1>7. find_close_char(str, i) = v
  BY <1>1, <1>5, <1>6
<1> QED BY <1>6, <1>7 DEF A

\* What explode_nested() gives for each start when its cursor is at place i, if
\* g is what it gives later.
NestHere(str, delim, g, i, start) ==
  LET next_delim == First(Places(str, i, delim))
      next_open == First(AnyPlaces(str, i, Opens))
      close == find_close_char(str, next_open)
      rest == g[next_delim + 1][next_delim + 1]
  IN  IF next_delim = -1 THEN <<Rest(str, start)>>
        ELSE IF is_escaped(str, next_delim) THEN g[next_delim + 1][start]
        ELSE IF next_open # -1 /\ next_open < next_delim
          THEN IF close <= 0 THEN <<>> ELSE g[close + 1][start]
        ELSE IF rest = <<>> THEN <<>>
        ELSE <<Slice(str, start, next_delim - 1)>> \o rest

NestFrom(str, delim, g, i) == [start \in 0..Len(str) |-> NestHere(str, delim, g, i, start)]

LEMMA NestHereIsAList ==
  ASSUME NEW S, NEW str \in Seq(S), NEW delim, NEW i \in 0..Len(str), NEW g, NEW h,
         AgreeBehind(g, h, i, Len(str), TextLists(S, Len(str))), NEW start \in 0..Len(str)
  PROVE  /\ NestHere(str, delim, g, i, start) \in Seq(Seq(S))
         /\ NestHere(str, delim, h, i, start) = NestHere(str, delim, g, i, start)
<1> DEFINE n == Len(str)
           found == First(Places(str, i, delim))
           open == First(AnyPlaces(str, i, Opens))
           close == find_close_char(str, open)
<1>1. n \in Nat /\ i \in Nat /\ i <= n
  OBVIOUS
<1>2. found = -1 \/ found \in i..(n - 1)
  BY FirstPlace
<1>3. open = -1 \/ open \in i..(n - 1)
  BY FirstOfAny
<1>4. open # -1 => close <= 0 \/ close \in (open + 1)..(n - 1)
  <2>1. open # -1 => open \in 0..(n - 1)
    BY <1>1, <1>3
  <2> HIDE DEF open
  <2> QED BY <2>1, CloseIsBehind
<1> HIDE DEF found, open, close
<1>5. \A j \in 0..n : i < j => g[j] \in TextLists(S, n) /\ h[j] = g[j]
  BY DEF AgreeBehind
<1>6. \A j \in 0..n : i < j => \A k \in 0..n : g[j][k] \in Seq(Seq(S))
  BY <1>5 DEF TextLists
<1>7. CASE found = -1
  <2>1. Rest(str, start) \in Seq(S)
    BY RestOfText
  <2>2. NestHere(str, delim, g, i, start) = <<Rest(str, start)>> /\ NestHere(str, delim, h, i, start) = <<Rest(str, start)>>
    BY <1>7 DEF NestHere, found
  <2> QED BY <2>1, <2>2
<1>8. CASE found # -1
  <2> DEFINE rest == g[found + 1][found + 1]
             on == g[found + 1][start]
             behind == g[close + 1][start]
             now == <<Slice(str, start, found - 1)>>
             inside == open # -1 /\ open < found
  <2>1. found + 1 \in 0..n /\ i < found + 1 /\ found - 1 \in -1..(n - 1)
    BY <1>1, <1>2, <1>8
  <2>2. rest \in Seq(Seq(S)) /\ on \in Seq(Seq(S)) /\ h[found + 1] = g[found + 1]
    BY <1>5, <1>6, <2>1
  <2>3. inside /\ ~ (close <= 0) => behind \in Seq(Seq(S)) /\ h[close + 1] = g[close + 1]
    <3>1. inside /\ ~ (close <= 0) => close + 1 \in 0..n /\ i < close + 1
      BY <1>1, <1>3, <1>4
    <3> QED BY <1>5, <1>6, <3>1
  <2>4. Slice(str, start, found - 1) \in Seq(S)
    BY <2>1, SliceIsAText
  <2>5. now \o rest \in Seq(Seq(S))
    <3>1. now \in Seq(Seq(S))
      BY <2>4
    <3> HIDE DEF now, rest
    <3> QED BY <2>2, <3>1
  <2>6. NestHere(str, delim, g, i, start) =
          IF is_escaped(str, found) THEN on
            ELSE IF inside THEN IF close <= 0 THEN <<>> ELSE behind
            ELSE IF rest = <<>> THEN <<>> ELSE now \o rest
    BY <1>8 DEF NestHere, found, open, close
  <2>7. NestHere(str, delim, h, i, start) =
          IF is_escaped(str, found) THEN on
            ELSE IF inside THEN IF close <= 0 THEN <<>> ELSE behind
            ELSE IF rest = <<>> THEN <<>> ELSE now \o rest
    <3> HIDE DEF inside
    <3>1. NestHere(str, delim, h, i, start) =
            IF is_escaped(str, found) THEN h[found + 1][start]
              ELSE IF inside THEN IF close <= 0 THEN <<>> ELSE h[close + 1][start]
              ELSE IF h[found + 1][found + 1] = <<>> THEN <<>> ELSE now \o h[found + 1][found + 1]
      BY <1>8 DEF NestHere, found, open, close, inside
    <3> QED BY <2>2, <2>3, <3>1
  <2> HIDE DEF now, rest, on, behind, inside
  <2>8. <<>> \in Seq(Seq(S))
    OBVIOUS
  <2> QED BY <2>2, <2>3, <2>5, <2>6, <2>7, <2>8
<1> QED BY <1>7, <1>8

Nesting(str, delim, g) == \A i \in 0..Len(str) : g[i] = NestFrom(str, delim, g, i)

\* explode_nested() is done place by place.
LEMMA NestRounds ==
  ASSUME NEW S, NEW str \in Seq(S), NEW delim
  PROVE  \E g : explode_nested(str, delim) = g[0][0] /\ Nesting(str, delim, g)
<1> DEFINE n == Len(str)
           V == TextLists(S, n)
           step == [p \in [0..n -> V] \X (0..n) |-> NestFrom(str, delim, p[1], p[2])]
           g == CHOOSE f : f = [i \in 0..n |-> NestFrom(str, delim, f, i)]
<1>1. n \in Nat /\ V # {}
  <2>1. n \in Nat
    OBVIOUS
  <2>2. [j \in 0..n |-> <<>>] \in [0..n -> Seq(Seq(S))]
    OBVIOUS
  <2>3. V # {}
    BY <2>2 DEF TextLists
  <2> QED BY <2>1, <2>3
<1>2. explode_nested(str, delim) = g[0][0]
  BY DEF explode_nested, Search, searcha_any, First, Places, AnyPlaces, NestFrom, NestHere
<1> HIDE DEF V
<1>3. ASSUME NEW f, NEW h, NEW i \in 0..n, AgreeBehind(f, h, i, n, V)
      PROVE  NestFrom(str, delim, f, i) \in V /\ NestFrom(str, delim, h, i) = NestFrom(str, delim, f, i)
  <2>1. \A start \in 0..n :
          /\ NestHere(str, delim, f, i, start) \in Seq(Seq(S))
          /\ NestHere(str, delim, h, i, start) = NestHere(str, delim, f, i, start)
    BY <1>3, NestHereIsAList DEF V
  <2> QED BY <2>1 DEF NestFrom, TextLists, V
<1> HIDE DEF n
<1>4. \A f \in [0..n -> V] : \A i \in 0..n : step[<<f, i>>] = NestFrom(str, delim, f, i)
  OBVIOUS
<1>5. step \in [[0..n -> V] \X (0..n) -> V]
  <2>1. ASSUME NEW p \in [0..n -> V] \X (0..n) PROVE NestFrom(str, delim, p[1], p[2]) \in V
    <3>1. AgreeBehind(p[1], p[1], p[2], n, V)
      BY DEF AgreeBehind
    <3> QED BY <1>3, <3>1
  <2> QED BY <2>1
<1> HIDE DEF step, g
<1>6. LooksBehind(step, n, V)
  BY <1>3, <1>4 DEF LooksBehind
<1>7. PICK f \in [0..n -> V] : Follows(f, 0..n, step)
  BY <1>1, <1>5, <1>6, FromBehind
<1>8. f = [i \in 0..n |-> NestFrom(str, delim, f, i)]
  BY <1>4, <1>7 DEF Follows
<1>9. g = [i \in 0..n |-> NestFrom(str, delim, g, i)]
  BY <1>8 DEF g
<1>10. \A i \in 0..n : g[i] = NestFrom(str, delim, g, i)
  BY <1>9
<1> QED BY <1>2, <1>10 DEF n, Nesting

\* What one character does to the parts before it.
Parted(before, str, delim, n) ==
  IF str[n] = delim /\ Open(str)[n] = <<>> THEN Append(before, <<>>)
    ELSE Append(Front(before), Append(Last(before), str[n]))

PartLists(S) == Seq(Seq(S)) \ {<<>>}

LEMMA PartedIsAList ==
  ASSUME NEW S, NEW before \in PartLists(S), NEW str \in Seq(S), NEW delim, NEW n \in 1..Len(str)
  PROVE  /\ Parted(before, str, delim, n) \in PartLists(S)
         /\ str[n] = delim /\ Open(str)[n] = <<>> =>
              Front(Parted(before, str, delim, n)) = before /\ Last(Parted(before, str, delim, n)) = <<>>
         /\ ~ (str[n] = delim /\ Open(str)[n] = <<>>) =>
              /\ Front(Parted(before, str, delim, n)) = Front(before)
              /\ Last(Parted(before, str, delim, n)) = Append(Last(before), str[n])
<1> DEFINE V == Seq(S)
           char == str[n]
           longer == Append(Last(before), char)
<1>1. char \in S /\ before \in Seq(V) /\ before # <<>>
  BY DEF PartLists
<1> HIDE DEF char
<1>2. <<>> \in V
  OBVIOUS
<1> HIDE DEF V
<1>3. Front(before) \in Seq(V) /\ Last(before) \in V
  BY <1>1, FrontAndLastOf
<1>4. longer \in V
  BY <1>1, <1>3 DEF V
<1> HIDE DEF longer
<1>5. /\ Append(before, <<>>) \in Seq(V) /\ Append(before, <<>>) # <<>>
      /\ Front(Append(before, <<>>)) = before /\ Last(Append(before, <<>>)) = <<>>
  BY <1>1, <1>2, FrontOfAppend
<1>6. /\ Append(Front(before), longer) \in Seq(V) /\ Append(Front(before), longer) # <<>>
      /\ Front(Append(Front(before), longer)) = Front(before) /\ Last(Append(Front(before), longer)) = longer
  BY <1>3, <1>4, FrontOfAppend
<1>7. Parted(before, str, delim, n) =
        IF str[n] = delim /\ Open(str)[n] = <<>> THEN Append(before, <<>>) ELSE Append(Front(before), longer)
  BY DEF Parted, longer, char
<1> QED BY <1>5, <1>6, <1>7 DEF PartLists, V, longer, char

\* The parts behind each character.
Parting(P, str, delim) ==
  P[0] = <<<<>>>> /\ \A k \in 1..Len(str) : P[k] = Parted(P[k - 1], str, delim, k)

LEMMA BetweenRounds ==
  ASSUME NEW S, NEW str \in Seq(S), NEW delim
  PROVE  \E P \in [0..Len(str) -> PartLists(S)] : Parting(P, str, delim) /\ Between(str, delim) = P[Len(str)]
<1> DEFINE n == Len(str)
           V == PartLists(S)
           Round(f, k) == IF k = 0 THEN <<<<>>>> ELSE Parted(f[k - 1], str, delim, k)
           step == [p \in V \X (1..n) |-> Parted(p[1], str, delim, p[2])]
           g == CHOOSE f : f = [k \in 0..n |-> Round(f, k)]
<1>1. n \in Nat /\ <<<<>>>> \in V
  BY DEF PartLists
<1>2. Between(str, delim) = g[n]
  BY DEF Between, Parted
<1> HIDE DEF V
<1>3. step \in [V \X (1..n) -> V]
  <2>1. ASSUME NEW p \in V \X (1..n) PROVE Parted(p[1], str, delim, p[2]) \in V
    BY PartedIsAList DEF V
  <2> QED BY <2>1
<1>4. \E f : f = [k \in 0..n |-> Round(f, k)]
  <2>1. PICK f \in [0..n -> V] : Rounds(f, n, <<<<>>>>, step)
    <3> HIDE DEF n, step
    <3> QED BY <1>1, <1>3, Iteration
  <2>2. ASSUME NEW k \in 0..n PROVE f[k] = Round(f, k)
    <3>1. k # 0 => k - 1 \in 0..n /\ k \in 1..n
      BY <1>1
    <3>2. k # 0 => <<f[k - 1], k>> \in V \X (1..n)
      BY <3>1
    <3> QED BY <2>1, <3>1, <3>2 DEF Rounds
  <2>3. f = [k \in 0..n |-> Round(f, k)]
    <3> HIDE DEF Round, n
    <3> QED BY <2>2
  <2> QED BY <2>3
<1>5. g = [k \in 0..n |-> Round(g, k)]
  <2> HIDE DEF Round, n
  <2> QED BY <1>4
<1> HIDE DEF g
<1>6. \A k \in 0..n : g[k] = Round(g, k)
  <2> HIDE DEF Round, n
  <2> QED BY <1>5
<1>7. g[0] = <<<<>>>> /\ \A k \in 1..n : g[k] = Parted(g[k - 1], str, delim, k)
  BY <1>1, <1>6
<1>8. g \in [0..n -> V]
  <2>1. DOMAIN g = 0..n /\ g = [k \in 0..n |-> g[k]]
    <3> HIDE DEF Round, n
    <3> QED BY <1>5
  <2>2. ASSUME NEW k \in 1..n, g[k - 1] \in V PROVE g[k] \in V
    BY <1>1, <1>7, <2>2, PartedIsAList DEF V
  <2> HIDE DEF n
  <2> QED BY <1>1, <1>7, <2>1, <2>2, IterationStays
<1> QED BY <1>2, <1>7, <1>8 DEF Parting, V

\* The last part holds the characters from start on, up to place r.
HasPart(P, front, str, start, r) == Front(P[r]) = front /\ Last(P[r]) = SubSeq(str, start + 1, r)

\* As long as there is no delimiter outside of everything the last part grows.
LEMMA PartGrows ==
  ASSUME NEW S, NEW str \in Seq(S), NEW delim, NEW P \in [0..Len(str) -> PartLists(S)],
         Parting(P, str, delim), NEW i \in 0..Len(str), NEW start \in 0..i, NEW r \in i..Len(str),
         \A k \in (i + 1)..r : ~ (str[k] = delim /\ Open(str)[k] = <<>>),
         NEW front, HasPart(P, front, str, start, i)
  PROVE  HasPart(P, front, str, start, r)
<1> DEFINE n == Len(str)
           m == r - i
           T == {k \in 0..m : HasPart(P, front, str, start, i + k)}
<1>1. n \in Nat /\ i \in Nat /\ r \in Nat /\ m \in Nat /\ start \in Nat /\ start <= i /\ i + m = r /\ r <= n
  OBVIOUS
<1> HIDE DEF m, n
<1>2. 0 \in T
  <2>1. i + 0 = i /\ 0 \in 0..m
    BY <1>1
  <2> QED BY <2>1
<1>3. ASSUME NEW k \in 0..(m - 1), k \in T PROVE k + 1 \in T
  <2> DEFINE q == i + k
             p == i + (k + 1)
             a == start + 1
  <2>1. /\ k + 1 \in 0..m /\ q \in 0..n /\ p \in 1..n /\ p - 1 = q /\ p \in (i + 1)..r
        /\ a \in 1..n /\ p \in a..n
    BY <1>1
  <2> HIDE DEF q, p, a
  <2>2. Front(P[q]) = front /\ Last(P[q]) = SubSeq(str, a, q)
    BY <1>3 DEF HasPart, q, a
  <2>3. P[q] \in PartLists(S) /\ P[p] = Parted(P[q], str, delim, p)
    BY <2>1 DEF Parting, n
  <2>4. ~ (str[p] = delim /\ Open(str)[p] = <<>>)
    BY <2>1
  <2>5. Front(P[p]) = front /\ Last(P[p]) = Append(Last(P[q]), str[p])
    BY <2>1, <2>2, <2>3, <2>4, PartedIsAList DEF n
  <2>6. Last(P[q]) \in Seq(S) /\ str[p] \in S
    <3>1. P[q] \in Seq(Seq(S)) /\ P[q] # <<>>
      BY <2>3 DEF PartLists
    <3> DEFINE V == Seq(S)
    <3> HIDE DEF V
    <3>2. Last(P[q]) \in V
      BY <3>1, FrontAndLastOf DEF V
    <3> QED BY <2>1, <3>2 DEF V, n
  <2>7. SubSeq(str, a, p) = SubSeq(str, a, q) \o <<str[p]>>
    BY <2>1, SubSeqRecursiveSecond DEF n
  <2>8. Append(Last(P[q]), str[p]) = Last(P[q]) \o <<str[p]>>
    BY <2>6, AppendIsConcat
  <2>9. HasPart(P, front, str, start, p)
    BY <2>2, <2>5, <2>7, <2>8 DEF HasPart, a
  <2> QED BY <2>1, <2>9 DEF p
<1>4. \A k \in 0..m : k \in T
  <2> HIDE DEF T
  <2> QED BY <1>1, <1>2, <1>3, UpTo
<1> QED BY <1>1, <1>4

\* The list of parts that is added to those before is the rest of the text.
Completes(S, P, str, list, i) ==
  list \in Seq(Seq(S)) /\ list # <<>> /\ Front(P[i]) \o list = P[Len(str)]

\* From place i on, where nothing is open, the text is split as it should be.
SplitsFrom(S, P, g, str, i) ==
  Open(str)[i] = <<>> =>
    \A start \in 0..i : Last(P[i]) = SubSeq(str, start + 1, i) => Completes(S, P, str, g[i][start], i)

\* So it is from places before if there is no delimiter outside of everything.
LEMMA SplitsEarlier ==
  ASSUME NEW S, NEW str \in Seq(S), NEW P \in [0..Len(str) -> PartLists(S)], Parting(P, str, Comma),
         NEW g, NEW i \in 0..Len(str), NEW start \in 0..i, Last(P[i]) = SubSeq(str, start + 1, i),
         NEW q \in i..Len(str), SplitsFrom(S, P, g, str, q), Open(str)[q] = <<>>,
         \A k \in (i + 1)..q : ~ (str[k] = Comma /\ Open(str)[k] = <<>>)
  PROVE  Completes(S, P, str, g[q][start], i)
<1>1. HasPart(P, Front(P[i]), str, start, i)
  BY DEF HasPart
<1>2. HasPart(P, Front(P[i]), str, start, q)
  BY <1>1, PartGrows
<1>3. start \in 0..q
  OBVIOUS
<1>4. Completes(S, P, str, g[q][start], q)
  BY <1>2, <1>3 DEF SplitsFrom, HasPart
<1> QED BY <1>2, <1>4 DEF Completes, HasPart

LEMMA PartsOf ==
  ASSUME NEW S, NEW s \in PartLists(S)
  PROVE  /\ Front(s) \in Seq(Seq(S)) /\ Last(s) \in Seq(S)
         /\ s = Front(s) \o <<Last(s)>>
<1> DEFINE V == Seq(S)
<1>1. s \in Seq(V) /\ s # <<>>
  BY DEF PartLists
<1> HIDE DEF V
<1>2. Front(s) \in Seq(V) /\ Last(s) \in V /\ s = Append(Front(s), Last(s))
  BY <1>1, FrontAndLastOf
<1>3. Append(Front(s), Last(s)) = Front(s) \o <<Last(s)>>
  BY <1>2, AppendIsConcat
<1> QED BY <1>2, <1>3 DEF V

LEMMA SplitStep ==
  ASSUME NEW S, Backslash \notin S, NEW str \in Seq(S), WellNested(str),
         NEW P \in [0..Len(str) -> PartLists(S)], Parting(P, str, Comma),
         NEW g, Nesting(str, Comma, g), NEW i \in 0..Len(str),
         \A j \in 0..Len(str) : i < j => SplitsFrom(S, P, g, str, j)
  PROVE  SplitsFrom(S, P, g, str, i)
<1> DEFINE n == Len(str)
           A == Open(str)
           char == At(str, i)
           found == First(Places(str, i, Comma))
           open == First(AnyPlaces(str, i, Opens))
           close == find_close_char(str, open)
<1> SUFFICES ASSUME A[i] = <<>>, NEW start \in 0..i, Last(P[i]) = SubSeq(str, start + 1, i)
             PROVE  Completes(S, P, str, g[i][start], i)
  BY DEF SplitsFrom
<1>1. n \in Nat /\ i \in Nat /\ i <= n /\ start \in 0..n /\ start \in Nat /\ start <= i
  OBVIOUS
<1>2. \A j \in 0..n : \A k \in 0..n : g[j][k] = NestHere(str, Comma, g, j, k)
  <2>1. \A j \in 0..n : g[j] = NestFrom(str, Comma, g, j)
    BY DEF Nesting
  <2>2. \A j : \A k \in 0..n : NestFrom(str, Comma, g, j)[k] = NestHere(str, Comma, g, j, k)
    BY DEF NestFrom
  <2> QED BY <2>1, <2>2
<1>3. found = -1 \/ (found \in i..(n - 1) /\ At(str, found) = Comma)
  BY FirstPlace
<1>4. open = -1 \/ open \in i..(n - 1)
  BY FirstOfAny
<1>5. found # -1 => ~ is_escaped(str, found)
  <2>1. \A j \in 0..(n - 1) : At(str, j) # Backslash
    BY <1>1 DEF At
  <2>2. ASSUME NEW j \in 0..(n - 1) PROVE ~ is_escaped(str, j)
    <3>1. CASE j = 0
      BY <3>1, <1>1, EscapedStep
    <3>2. CASE j # 0
      <4>1. j - 1 \in Nat /\ j - 1 \in 0..(n - 1) /\ (j - 1) + 1 = j
        BY <1>1, <3>2
      <4> QED BY <2>1, <4>1, EscapedStep
    <3> QED BY <3>1, <3>2
  <2>3. found # -1 => found \in 0..(n - 1)
    BY <1>1, <1>3
  <2> QED BY <2>2, <2>3
<1>6. \A k \in 1..n : str[k] = At(str, k - 1)
  BY <1>1 DEF At
<1>7. P[i] \in PartLists(S) /\ P[n] \in PartLists(S)
  BY <1>1
<1>8. Front(P[i]) \in Seq(Seq(S)) /\ P[i] = Front(P[i]) \o <<Last(P[i])>>
  BY <1>7, PartsOf
<1> HIDE DEF A, char, found, open, close
<1>9. CASE found = -1
  <2>1. g[i][start] = <<Rest(str, start)>>
    BY <1>1, <1>2, <1>9 DEF NestHere, found
  <2>2. Rest(str, start) = SubSeq(str, start + 1, n) /\ Rest(str, start) \in Seq(S)
    <3>1. (n - 1) + 1 = n
      BY <1>1
    <3> QED BY <1>1, <3>1, RestOfText DEF Rest, Slice
  <2>3. \A k \in (i + 1)..n : str[k] # Comma
    <3>1. Places(str, i, Comma) \in SUBSET (0..(n - 1))
      BY <1>1 DEF Places
    <3>2. Places(str, i, Comma) = {}
      <4>1. Places(str, i, Comma) # {} => First(Places(str, i, Comma)) \in 0..(n - 1)
        BY <1>1, <3>1, FirstIsLeast
      <4> QED BY <1>1, <1>9, <4>1 DEF found
    <3>3. \A k \in (i + 1)..n : k - 1 \in i..(n - 1) /\ k \in 1..n
      BY <1>1
    <3> QED BY <1>6, <3>2, <3>3 DEF Places
  <2>4. HasPart(P, Front(P[i]), str, start, n)
    <3>1. HasPart(P, Front(P[i]), str, start, i) /\ n \in i..n
      BY <1>1 DEF HasPart
    <3> QED BY <2>3, <3>1, PartGrows DEF n
  <2>5. P[n] = Front(P[i]) \o <<Rest(str, start)>>
    BY <1>7, <2>2, <2>4, PartsOf DEF HasPart
  <2> QED BY <2>1, <2>2, <2>5 DEF Completes, n
<1>10. CASE found # -1 /\ char = Comma
  <2> DEFINE rest == g[i + 1][i + 1]
             part == SubSeq(str, start + 1, i)
  <2>1. i \in 0..(n - 1) /\ i + 1 \in 0..n /\ i + 1 \in 1..n /\ i < i + 1 /\ (i + 1) - 1 = i /\ (i - 1) + 1 = i
    BY <1>1, <1>3, <1>10
  <2>2. found = i
    BY <1>10, <2>1, FirstOnward DEF found, char, n
  <2>3. ~ (open # -1 /\ open < i)
    BY <1>1, <1>4
  <2>4. ~ is_escaped(str, i) /\ i # -1
    BY <1>1, <1>5, <1>10, <2>2
  <2>5. g[i][start] = IF rest = <<>> THEN <<>> ELSE <<Slice(str, start, i - 1)>> \o rest
    <3>1. NestHere(str, Comma, g, i, start) =
            IF rest = <<>> THEN <<>> ELSE <<Slice(str, start, i - 1)>> \o rest
      BY <2>2, <2>3, <2>4 DEF NestHere, found, open
    <3> QED BY <1>1, <1>2, <3>1
  <2>6. Slice(str, start, i - 1) = part
    BY <2>1 DEF Slice
  <2>7. A[i + 1] = <<>> /\ str[i + 1] = Comma
    <3>1. char \notin Both
      BY <1>10, Brackets
    <3>2. A[i + 1] = A[i]
      BY <2>1, <3>1, NestedStep DEF A, char, n
    <3> QED BY <1>6, <1>10, <2>1, <3>2 DEF char
  <2>8. Front(P[i + 1]) = P[i] /\ Last(P[i + 1]) = <<>>
    <3>1. P[i + 1] = Parted(P[i], str, Comma, i + 1)
      BY <2>1 DEF Parting, n
    <3> QED BY <1>7, <2>1, <2>7, <3>1, PartedIsAList DEF A, n
  <2>9. SubSeq(str, (i + 1) + 1, i + 1) = <<>>
    <3>1. (i + 1) + 1 \in Int /\ i + 1 \in Int /\ (i + 1) + 1 > i + 1
      BY <1>1
    <3> QED BY <3>1, SubSeqProperties
  <2>10. Completes(S, P, str, rest, i + 1)
    <3>1. SplitsFrom(S, P, g, str, i + 1) /\ i + 1 \in 0..(i + 1)
      BY <2>1 DEF n
    <3> QED BY <2>7, <2>8, <2>9, <3>1 DEF SplitsFrom, A
  <2> HIDE DEF rest, part
  <2>11. rest \in Seq(Seq(S)) /\ rest # <<>> /\ P[i] \o rest = P[n]
    BY <2>8, <2>10 DEF Completes, n
  <2>12. g[i][start] = <<part>> \o rest
    BY <2>5, <2>6, <2>11
  <2>13. part \in Seq(S) /\ P[i] = Front(P[i]) \o <<part>>
    BY <1>7, <1>8, PartsOf DEF part
  <2>14. (Front(P[i]) \o <<part>>) \o rest = Front(P[i]) \o (<<part>> \o rest)
    <3> DEFINE V == Seq(S)
               one == <<part>>
               front == Front(P[i])
    <3>1. one \in Seq(V) /\ front \in Seq(V) /\ rest \in Seq(V)
      BY <1>8, <2>11, <2>13
    <3> HIDE DEF V, one, front
    <3>2. (front \o one) \o rest = front \o (one \o rest)
      BY <3>1, ConcatAssociative
    <3> QED BY <3>2 DEF one, front
  <2>15. <<part>> \o rest \in Seq(Seq(S)) /\ <<part>> \o rest # <<>>
    <3> DEFINE V == Seq(S)
    <3>1. <<part>> \in Seq(V) /\ rest \in Seq(V) /\ <<part>> # <<>>
      BY <2>11, <2>13
    <3> HIDE DEF V
    <3> DEFINE one == <<part>>
    <3> HIDE DEF one
    <3>2. one \o rest \in Seq(V) /\ one \o rest # <<>>
      BY <2>11, <3>1 DEF one
    <3> QED BY <3>2 DEF one, V
  <2> QED BY <2>11, <2>12, <2>13, <2>14, <2>15 DEF Completes, n
<1>11. CASE found # -1 /\ char \in Opens
  <2>1. i \in 0..(n - 1) /\ found \in i..(n - 1)
    BY <1>1, <1>3, <1>11
  <2>2. open = i /\ i # -1
    BY <1>1, <1>11, <2>1, AnyOnward DEF open, char, n
  <2>3. found # i
    BY <1>3, <1>11, Brackets DEF char
  <2>4. open < found
    BY <1>1, <2>1, <2>2, <2>3
  <2>5. close \in (i + 1)..(n - 1) /\ A[close + 1] = <<>> /\ \A k \in (i + 1)..close : A[k] # <<>>
    BY <1>11, <2>1, <2>2, CloseIsRight DEF A, char, n, close
  <2>6. ~ (close <= 0) /\ close + 1 \in 0..n /\ i < close + 1 /\ close + 1 \in i..n /\ close \in 0..(n - 1)
    BY <1>1, <2>5
  <2>7. g[i][start] = g[close + 1][start]
    <3>1. NestHere(str, Comma, g, i, start) = g[close + 1][start]
      BY <1>5, <1>11, <2>2, <2>4, <2>6 DEF NestHere, found, open, close
    <3> QED BY <1>1, <1>2, <3>1
  <2>8. ASSUME NEW k \in (i + 1)..(close + 1) PROVE ~ (str[k] = Comma /\ A[k] = <<>>)
    <3>1. k \in (i + 1)..close \/ k = close + 1
      BY <1>1, <2>5
    <3>2. str[close + 1] = Comma => A[close + 1] = A[close]
      <4>1. At(str, close) = str[close + 1]
        BY <2>6 DEF At, n
      <4> QED BY <2>6, <4>1, NestedStep, Brackets DEF A, n
    <3>3. close \in (i + 1)..close
      BY <1>1, <2>5
    <3> QED BY <2>5, <3>1, <3>2, <3>3
  <2>9. SplitsFrom(S, P, g, str, close + 1)
    BY <2>6 DEF n
  <2>10. Completes(S, P, str, g[close + 1][start], i)
    BY <2>5, <2>6, <2>8, <2>9, SplitsEarlier DEF A, n
  <2> QED BY <2>7, <2>10
<1>12. CASE found # -1 /\ char # Comma /\ char \notin Opens
  <2>1. i \in 0..(n - 1) /\ i + 1 \in 0..n /\ i < i + 1 /\ i + 1 \in i..n /\ (i + 1) - 1 = i /\ i + 1 \in 1..n
    BY <1>1, <1>3, <1>12
  <2>2. char \notin Both /\ A[i + 1] = <<>>
    <3>1. ~ IsClosed(str, i)
      BY DEF IsClosed, A
    <3>2. char \notin Both
      BY <1>12, <2>1, <3>1, NestedStep DEF A, char, n
    <3> QED BY <2>1, <3>2, NestedStep DEF A, char, n
  <2>3. found = First(Places(str, i + 1, Comma)) /\ open = First(AnyPlaces(str, i + 1, Opens))
    BY <1>12, <2>1, FirstOnward, AnyOnward DEF found, open, char, n
  <2>4. g[i][start] = g[i + 1][start]
    <3>1. NestHere(str, Comma, g, i, start) = NestHere(str, Comma, g, i + 1, start)
      BY <2>3 DEF NestHere, found, open
    <3> QED BY <1>1, <1>2, <2>1, <3>1
  <2>5. \A k \in (i + 1)..(i + 1) : ~ (str[k] = Comma /\ A[k] = <<>>)
    <3>1. \A k \in (i + 1)..(i + 1) : k = i + 1
      BY <1>1
    <3> QED BY <1>6, <1>12, <2>1, <3>1 DEF char
  <2>6. SplitsFrom(S, P, g, str, i + 1)
    BY <2>1 DEF n
  <2>7. Completes(S, P, str, g[i + 1][start], i)
    BY <2>1, <2>2, <2>5, <2>6, SplitsEarlier DEF A, n
  <2> QED BY <2>4, <2>7
<1> QED BY <1>9, <1>10, <1>11, <1>12

\* A text in which all brackets are closed in order is split at the delimiters
\* outside of them.
LEMMA NestedIsSplit ==
  ASSUME NEW S, Backslash \notin S, NEW str \in Seq(S), WellNested(str)
  PROVE  explode_nested(str, Comma) = Between(str, Comma)
<1> DEFINE n == Len(str)
<1>1. n \in Nat
  OBVIOUS
<1>2. PICK P \in [0..n -> PartLists(S)] : Parting(P, str, Comma) /\ Between(str, Comma) = P[n]
  BY BetweenRounds
<1>3. PICK g : explode_nested(str, Comma) = g[0][0] /\ Nesting(str, Comma, g)
  BY NestRounds
<1> DEFINE T == {k \in 0..n : \A i \in 0..n : n - k <= i => SplitsFrom(S, P, g, str, i)}
<1>4. 0 \in T
  <2>1. n \in 0..n /\ 0 \in 0..n /\ \A i \in 0..n : n - 0 <= i => i = n
    BY <1>1
  <2>2. \A j \in 0..n : ~ (n < j)
    BY <1>1
  <2>3. SplitsFrom(S, P, g, str, n)
    BY <1>2, <1>3, <2>1, <2>2, SplitStep
  <2> QED BY <2>1, <2>3
<1>5. ASSUME NEW k \in 0..(n - 1), k \in T PROVE k + 1 \in T
  <2> DEFINE i == n - (k + 1)
  <2>1. /\ k + 1 \in 0..n /\ i \in 0..n
        /\ \A j \in 0..n : i < j => n - k <= j
        /\ \A j \in 0..n : i <= j => j = i \/ n - k <= j
    BY <1>1
  <2> HIDE DEF i
  <2>2. SplitsFrom(S, P, g, str, i)
    BY <1>2, <1>3, <1>5, <2>1, SplitStep
  <2>3. \A j \in 0..n : i <= j => SplitsFrom(S, P, g, str, j)
    BY <1>5, <2>1, <2>2
  <2> QED BY <2>1, <2>3 DEF i
<1>6. SplitsFrom(S, P, g, str, 0)
  <2>1. \A k \in 0..n : k \in T
    <3> HIDE DEF T
    <3> QED BY <1>1, <1>4, <1>5, UpTo
  <2>2. n \in 0..n /\ 0 \in 0..n /\ n - n <= 0
    BY <1>1
  <2> QED BY <2>1, <2>2
<1>7. Last(P[0]) = <<>> /\ Front(P[0]) = <<>>
  <2>1. P[0] = Append(<<>>, <<>>) /\ <<>> \in Seq(Seq(S)) /\ <<>> \in Seq(S)
    BY <1>2 DEF Parting
  <2> DEFINE V == Seq(S)
  <2> HIDE DEF V
  <2>2. <<>> \in V /\ <<>> \in Seq(V)
    BY <2>1 DEF V
  <2> QED BY <2>1, <2>2, FrontOfAppend
<1>8. SubSeq(str, 0 + 1, 0) = <<>>
  BY SubSeqProperties
<1>9. Completes(S, P, str, g[0][0], 0)
  <2>1. Open(str)[0] = <<>> /\ 0 \in 0..0
    BY OpenRounds
  <2> QED BY <1>6, <1>7, <1>8, <2>1 DEF SplitsFrom
<1>10. <<>> \o g[0][0] = P[n] /\ g[0][0] \in Seq(Seq(S))
  BY <1>7, <1>9 DEF Completes
<1>11. <<>> \o g[0][0] = g[0][0]
  <2> DEFINE V == Seq(S)
  <2>1. g[0][0] \in Seq(V)
    BY <1>10
  <2> HIDE DEF V
  <2> QED BY <2>1
<1> QED BY <1>2, <1>3, <1>10, <1>11

LEMMA TextIsNested ==
  ASSUME NEW input, input.kind = "nested"
  PROVE  TextIsSplit(input) <=>
           (WellNested(input.parts[1]) => explode_nested(input.parts[1], Comma) = Between(input.parts[1], Comma))
<1> DEFINE words == \A blank \in {<<>>, <<Blank>>} :
                      explode_args(blank \o Joined(Write(input.parts, input.kind = "bare"), Blank)) = input.parts
           list == Restored(explode_unescaped(Joined(Each(input.parts, {",", Backslash}), ","), ",")) = input.parts
           nested == WellNested(input.parts[1]) =>
                       explode_nested(input.parts[1], Comma) = Between(input.parts[1], Comma)
<1>1. TextIsSplit(input) = CASE input.kind \in {"bare", "quoted"} -> words
                             [] input.kind = "list" -> list
                             [] input.kind = "nested" -> nested
  BY Zenon DEF TextIsSplit, Each, Restored, Write, Comma
<1> HIDE DEF words, list, nested
<1>2. (CASE input.kind \in {"bare", "quoted"} -> words
         [] input.kind = "list" -> list
         [] input.kind = "nested" -> nested) <=> nested
  OBVIOUS
<1> QED BY <1>1, <1>2 DEF nested

\* What a player writes as words, or what is joined to a list, is read again
\* as it was meant, whatever the words are made of: every word that is quoted
\* or escaped, empty ones too, and every part of a list whose delimiters are
\* escaped; and a text without escapes in which all brackets and quotes are
\* closed in order is split at the delimiters outside of them and nowhere else
\* (.lib/argument.c: explode_args, explode_unescaped, explode_nested,
\* find_close_char; .lib/string.c: match_quote, unquote, unescape, is_escaped).
THEOREM TextIsReadAgain ==
  ASSUME NEW S, QUOTE_CHARS \cup {Blank, Backslash, ","} \subseteq S,
         NEW parts \in Seq(Seq(S)), parts # <<>>, NEW kind \in {"bare", "quoted", "list", "nested"},
         kind = "nested" => parts[1] \in Seq(S \ {Backslash})
  PROVE  TextIsSplit([kind |-> kind, parts |-> parts])
<1> DEFINE input == [kind |-> kind, parts |-> parts]
<1>1. Backslash \in S /\ DoubleQuote \in S /\ Blank \in S /\ "," \in S
  BY CharactersDiffer
<1>2. CASE kind \in {"bare", "quoted"}
  <2> DEFINE bare == kind = "bare"
  <2>1. \A before \in {<<>>, <<Blank>>} : explode_args(before \o Joined(Write(parts, bare), Blank)) = parts
    BY <1>1, WordsAreRead
  <2> QED BY <1>2, <2>1 DEF TextIsSplit, Write
<1>3. CASE kind = "list"
  <2> DEFINE chars == {",", Backslash}
  <2>1. "," # Backslash
    BY Zenon DEF Backslash
  <2>2. explode_unescaped(Joined(Each(parts, chars), ","), ",") = Each(parts, chars)
    BY <1>1, <2>1, ListIsCut
  <2>3. Restored(Each(parts, chars)) = parts
    BY <1>1, EachIsRestored
  <2>4. TextIsSplit(input) <=> Restored(explode_unescaped(Joined(Each(parts, chars), ","), ",")) = parts
    <3>1. input.kind = "list" /\ input.parts = parts
      BY <1>3
    <3> HIDE DEF input
    <3> QED BY <3>1, ListIsSplit
  <2> HIDE DEF chars, input
  <2>5. TextIsSplit(input)
    BY <2>2, <2>3, <2>4
  <2> QED BY <2>5 DEF input
<1>4. CASE kind = "nested"
  <2> DEFINE text == parts[1]
  <2>1. WellNested(text) => explode_nested(text, Comma) = Between(text, Comma)
    <3> DEFINE R == S \ {Backslash}
    <3>1. text \in Seq(R) /\ Backslash \notin R
      BY <1>4
    <3> HIDE DEF R, text
    <3> QED BY <3>1, NestedIsSplit
  <2>2. TextIsSplit(input) <=> (WellNested(text) => explode_nested(text, Comma) = Between(text, Comma))
    <3>1. input.kind = "nested" /\ input.parts = parts
      BY <1>4
    <3> HIDE DEF input
    <3> QED BY <3>1, TextIsNested
  <2> HIDE DEF text, input
  <2>3. TextIsSplit(input)
    BY <2>1, <2>2
  <2> QED BY <2>3 DEF input
<1> QED BY <1>2, <1>3, <1>4
=============================================================================
