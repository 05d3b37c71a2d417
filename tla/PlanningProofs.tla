--------------------------- MODULE PlanningProofs ---------------------------
(***************************************************************************)
(* What is proved of the plans (Sizing, Estimates, Quotations): first      *)
(* lemmas about sums over finite sets, for the weights and the bills are   *)
(* such sums, then the capacity of the installation, the budget gate, the  *)
(* bills, and the price lookups in the catalogues of the vendors.          *)
(***************************************************************************)
EXTENDS Planning, FiniteSetTheorems, TLAPS

------------------------------------------------------------------------------
(* Sums.  The library adds in the order of a CHOOSE, through a recursive   *)
(* function; that it exists, and that the order does not matter, is proved *)
(* by taking a smallest set for which it is not so.                        *)

\* A set of subsets of a finite set has a smallest one, when it has any.
LEMMA Smallest ==
  ASSUME NEW S, IsFiniteSet(S), NEW B \in SUBSET SUBSET S, B # {}
  PROVE  \E T \in B : \A U \in B : U \subseteq T => U = T
<1>1. IsWellFoundedOn(StrictSubsetOrdering(S), SUBSET S)
  BY FS_StrictSubsetOrderingWellFounded, FS_FiniteSubsetsOfFinite
<1>2. PICK T \in B : \A U \in B : ~ (<<U, T>> \in StrictSubsetOrdering(S))
  BY <1>1, WFMin
<1>3. ASSUME NEW U \in B, U \subseteq T PROVE U = T
  BY <1>2, <1>3 DEF StrictSubsetOrdering
<1> QED BY <1>3

\* The element that the library takes next.
Chosen(s) == CHOOSE x \in s : TRUE

\* A set that is not empty yields an element.
LEMMA ChosenIsIn == ASSUME NEW s, s # {} PROVE Chosen(s) \in s
BY DEF Chosen

\* g adds up f over every subset of S, in the order of the library.
Adds(g, f, S) ==
  g = [s \in SUBSET S |-> IF s = {} THEN 0 ELSE f[Chosen(s)] + g[s \ {Chosen(s)}]]

\* What the library computes is the last value of such a function.
LEMMA Unfolds ==
  ASSUME NEW f, NEW S
  PROVE  SumFunctionOnSet(f, S) = (CHOOSE g : Adds(g, f, S))[S]
BY DEF SumFunctionOnSet, FoldFunctionOnSet, MapThenFoldSet, Adds, Chosen

\* Two such functions agree wherever both are defined.
LEMMA AddsAlike ==
  ASSUME NEW f, NEW S, NEW T, IsFiniteSet(S), NEW g, Adds(g, f, S), NEW h, Adds(h, f, T),
         NEW U, U \subseteq S, U \subseteq T
  PROVE  g[U] = h[U]
<1> DEFINE B == {W \in SUBSET S : W \subseteq T /\ g[W] # h[W]}
<1> SUFFICES ASSUME B # {} PROVE FALSE
  OBVIOUS
<1>1. PICK W \in B : \A V \in B : V \subseteq W => V = W
  <2>1. B \in SUBSET SUBSET S
    OBVIOUS
  <2> HIDE DEF B
  <2> QED BY <2>1, Smallest
<1>2. W # {}
  BY DEF Adds
<1>3. Chosen(W) \in W
  BY <1>2, ChosenIsIn
<1>4. g[W \ {Chosen(W)}] = h[W \ {Chosen(W)}]
  BY <1>1, <1>3
<1> QED BY <1>1, <1>2, <1>3, <1>4 DEF Adds

\* For a finite set there is such a function.
LEMMA SomeAdds ==
  ASSUME NEW f, NEW S, IsFiniteSet(S)
  PROVE  Adds(CHOOSE g : Adds(g, f, S), f, S)
<1> DEFINE B == {T \in SUBSET S : ~ \E g : Adds(g, f, T)}
<1> SUFFICES ASSUME B # {} PROVE FALSE
  <2>1. S \notin B => \E g : Adds(g, f, S)
    OBVIOUS
  <2> QED BY <2>1
<1>1. PICK T \in B : \A V \in B : V \subseteq T => V = T
  <2>1. B \in SUBSET SUBSET S
    OBVIOUS
  <2> HIDE DEF B
  <2> QED BY <2>1, Smallest
<1> DEFINE G(u) == CHOOSE g : Adds(g, f, u)
<1>2. \A u \in SUBSET T : u # T => Adds(G(u), f, u)
  <2> SUFFICES ASSUME NEW u \in SUBSET T, u # T PROVE Adds(G(u), f, u)
    OBVIOUS
  <2>1. \E g : Adds(g, f, u)
    BY <1>1
  <2> QED BY <2>1
<1>3. \A u \in SUBSET T : IsFiniteSet(u)
  BY FS_Subset
<1> HIDE DEF G
<1> DEFINE h == [s \in SUBSET T |-> IF s = {} THEN 0 ELSE f[Chosen(s)] + G(s \ {Chosen(s)})[s \ {Chosen(s)}]]
<1>4. ASSUME NEW u \in SUBSET T, u # T PROVE h[u] = G(u)[u]
  <2>1. CASE u = {}
    BY <1>2, <2>1, <1>4 DEF Adds
  <2>2. CASE u # {}
    <3> DEFINE v == u \ {Chosen(u)}
    <3>1. Chosen(u) \in u
      BY <2>2, ChosenIsIn
    <3>2. v \in SUBSET T /\ v # T /\ v \subseteq u
      BY <3>1
    <3>3. G(u)[v] = G(v)[v]
      <4>1. Adds(G(u), f, u) /\ Adds(G(v), f, v)
        BY <1>2, <1>4, <3>2
      <4> QED BY <4>1, <3>2, <1>3, AddsAlike
    <3>4. G(u)[u] = f[Chosen(u)] + G(u)[v]
      BY <1>2, <1>4, <2>2, <3>2 DEF Adds
    <3> QED BY <3>3, <3>4, <2>2
  <2> QED BY <2>1, <2>2
<1>5. ASSUME NEW s \in SUBSET T, s # {} PROVE h[s \ {Chosen(s)}] = G(s \ {Chosen(s)})[s \ {Chosen(s)}]
  <2>1. Chosen(s) \in s
    BY <1>5, ChosenIsIn
  <2> QED BY <1>4, <2>1
<1>6. Adds(h, f, T)
  <2>1. h = [s \in SUBSET T |-> IF s = {} THEN 0 ELSE f[Chosen(s)] + h[s \ {Chosen(s)}]]
    BY <1>5
  <2> QED BY <2>1 DEF Adds
<1> QED BY <1>1, <1>6

\* The empty sum is zero.
LEMMA SumOfNone == ASSUME NEW f PROVE SumFunctionOnSet(f, {}) = 0
<1>1. Adds(CHOOSE g : Adds(g, f, {}), f, {})
  BY SomeAdds, FS_EmptySet
<1> QED BY <1>1, Unfolds DEF Adds

\* A sum is the chosen summand and the sum of the rest.
LEMMA SumStep ==
  ASSUME NEW f, NEW S, IsFiniteSet(S), S # {}
  PROVE  SumFunctionOnSet(f, S) = f[Chosen(S)] + SumFunctionOnSet(f, S \ {Chosen(S)})
<1> DEFINE T == S \ {Chosen(S)}
           g == CHOOSE g : Adds(g, f, S)
           h == CHOOSE h : Adds(h, f, T)
<1>1. IsFiniteSet(T) /\ T \subseteq S
  BY FS_RemoveElement
<1>2. Adds(g, f, S) /\ Adds(h, f, T)
  BY SomeAdds, <1>1
<1>3. SumFunctionOnSet(f, S) = g[S] /\ SumFunctionOnSet(f, T) = h[T]
  BY Unfolds
<1> HIDE DEF g, h
<1>4. g[T] = h[T]
  <2> HIDE DEF T
  <2> QED BY <1>1, <1>2, AddsAlike
<1>5. g[S] = f[Chosen(S)] + g[T]
  BY <1>2 DEF Adds
<1> QED BY <1>3, <1>4, <1>5

\* A sum of integers is an integer.
LEMMA SumIsInt ==
  ASSUME NEW S, IsFiniteSet(S), NEW f, \A x \in S : f[x] \in Int
  PROVE  SumFunctionOnSet(f, S) \in Int
<1> DEFINE B == {T \in SUBSET S : SumFunctionOnSet(f, T) \notin Int}
<1> SUFFICES ASSUME B # {} PROVE FALSE
  OBVIOUS
<1>1. PICK T \in B : \A V \in B : V \subseteq T => V = T
  <2>1. B \in SUBSET SUBSET S
    OBVIOUS
  <2> HIDE DEF B
  <2> QED BY <2>1, Smallest
<1>2. IsFiniteSet(T)
  BY FS_Subset
<1>3. T # {}
  BY SumOfNone
<1>4. Chosen(T) \in T
  BY <1>3, ChosenIsIn
<1>5. SumFunctionOnSet(f, T) = f[Chosen(T)] + SumFunctionOnSet(f, T \ {Chosen(T)})
  BY <1>2, <1>3, SumStep
<1>6. SumFunctionOnSet(f, T \ {Chosen(T)}) \in Int
  BY <1>1, <1>4
<1> QED BY <1>1, <1>4, <1>5, <1>6

\* Any element may be taken out first.
LEMMA SumTakes ==
  ASSUME NEW S, IsFiniteSet(S), NEW f, \A x \in S : f[x] \in Int, NEW a \in S
  PROVE  SumFunctionOnSet(f, S) = f[a] + SumFunctionOnSet(f, S \ {a})
<1> DEFINE Sum(T) == SumFunctionOnSet(f, T)
           B == {T \in SUBSET S : \E b \in T : Sum(T) # f[b] + Sum(T \ {b})}
<1> SUFFICES ASSUME B # {} PROVE FALSE
  OBVIOUS
<1>1. PICK T \in B : \A V \in B : V \subseteq T => V = T
  <2>1. B \in SUBSET SUBSET S
    OBVIOUS
  <2> HIDE DEF B
  <2> QED BY <2>1, Smallest
<1>2. \A U \in SUBSET S : IsFiniteSet(U) /\ Sum(U) \in Int
  BY FS_Subset, SumIsInt
<1>3. PICK b \in T : Sum(T) # f[b] + Sum(T \ {b})
  OBVIOUS
<1> DEFINE c == Chosen(T)
<1>4. c \in T
  BY <1>3, ChosenIsIn
<1>5. Sum(T) = f[c] + Sum(T \ {c})
  BY <1>2, <1>3, SumStep
<1> HIDE DEF c
<1>6. b # c
  BY <1>3, <1>5
<1>7. Sum(T \ {c}) = f[b] + Sum((T \ {c}) \ {b})
  <2>1. T \ {c} \notin B /\ T \ {c} \in SUBSET S /\ b \in T \ {c}
    BY <1>1, <1>4, <1>6
  <2> QED BY <2>1
<1>8. Sum(T \ {b}) = f[c] + Sum((T \ {b}) \ {c})
  <2>1. T \ {b} \notin B /\ T \ {b} \in SUBSET S /\ c \in T \ {b}
    BY <1>1, <1>4, <1>6
  <2> QED BY <2>1
<1>9. (T \ {b}) \ {c} = (T \ {c}) \ {b} /\ (T \ {b}) \ {c} \in SUBSET S
  OBVIOUS
<1>10. Sum((T \ {c}) \ {b}) \in Int /\ f[b] \in Int /\ f[c] \in Int
  BY <1>2, <1>4, <1>9
<1>11. Sum((T \ {b}) \ {c}) = Sum((T \ {c}) \ {b})
  BY <1>9
<1> HIDE DEF Sum, B
<1>12. f[c] + (f[b] + Sum((T \ {c}) \ {b})) = f[b] + (f[c] + Sum((T \ {c}) \ {b}))
  BY <1>10
<1> QED BY <1>3, <1>5, <1>7, <1>8, <1>11, <1>12

\* Larger summands have a larger sum.
LEMMA SumMonotone ==
  ASSUME NEW S, IsFiniteSet(S), NEW f, NEW g,
         \A x \in S : f[x] \in Int /\ g[x] \in Int /\ f[x] <= g[x]
  PROVE  SumFunctionOnSet(f, S) <= SumFunctionOnSet(g, S)
<1> DEFINE F(T) == SumFunctionOnSet(f, T)
           G(T) == SumFunctionOnSet(g, T)
           B == {T \in SUBSET S : ~ (F(T) <= G(T))}
<1> SUFFICES ASSUME B # {} PROVE FALSE
  OBVIOUS
<1>1. PICK T \in B : \A V \in B : V \subseteq T => V = T
  <2>1. B \in SUBSET SUBSET S
    OBVIOUS
  <2> HIDE DEF B
  <2> QED BY <2>1, Smallest
<1>2. \A U \in SUBSET S : IsFiniteSet(U) /\ F(U) \in Int /\ G(U) \in Int
  BY FS_Subset, SumIsInt
<1>3. T # {}
  BY SumOfNone
<1> DEFINE c == Chosen(T)
<1>4. c \in T
  BY <1>3, ChosenIsIn
<1>5. F(T) = f[c] + F(T \ {c}) /\ G(T) = g[c] + G(T \ {c})
  BY <1>2, <1>3, SumStep
<1> HIDE DEF c
<1>6. T \ {c} \notin B /\ T \ {c} \in SUBSET S
  BY <1>1, <1>4
<1>7. F(T \ {c}) <= G(T \ {c}) /\ F(T \ {c}) \in Int /\ G(T \ {c}) \in Int
  BY <1>2, <1>6
<1>8. f[c] \in Int /\ g[c] \in Int /\ f[c] <= g[c]
  BY <1>4
<1>9. ~ (F(T) <= G(T))
  OBVIOUS
<1> HIDE DEF F, G, B
<1> QED BY <1>5, <1>7, <1>8, <1>9

\* Summands that agree have the same sum.
LEMMA SumsAgree ==
  ASSUME NEW S, IsFiniteSet(S), NEW f, NEW g, \A x \in S : f[x] \in Int /\ g[x] = f[x]
  PROVE  SumFunctionOnSet(f, S) = SumFunctionOnSet(g, S)
<1>1. SumFunctionOnSet(f, S) <= SumFunctionOnSet(g, S)
  BY SumMonotone
<1>2. SumFunctionOnSet(g, S) <= SumFunctionOnSet(f, S)
  BY SumMonotone
<1>3. SumFunctionOnSet(f, S) \in Int /\ SumFunctionOnSet(g, S) \in Int
  BY SumIsInt
<1> QED BY <1>1, <1>2, <1>3

\* The sum over two sets that share nothing is the sum of their sums.
LEMMA SumsSplit ==
  ASSUME NEW S, NEW T, IsFiniteSet(S), IsFiniteSet(T), S \cap T = {},
         NEW f, \A x \in S \union T : f[x] \in Int
  PROVE  SumFunctionOnSet(f, S \union T) = SumFunctionOnSet(f, S) + SumFunctionOnSet(f, T)
<1> DEFINE Sum(U) == SumFunctionOnSet(f, U)
           B == {U \in SUBSET T : Sum(S \union U) # Sum(S) + Sum(U)}
<1> SUFFICES ASSUME B # {} PROVE FALSE
  OBVIOUS
<1>1. PICK U \in B : \A V \in B : V \subseteq U => V = U
  <2>1. B \in SUBSET SUBSET T
    OBVIOUS
  <2> HIDE DEF B
  <2> QED BY <2>1, Smallest
<1>2. /\ \A V \in SUBSET S : IsFiniteSet(V) /\ Sum(V) \in Int
      /\ \A V \in SUBSET T : IsFiniteSet(V) /\ Sum(V) \in Int
      /\ \A V \in SUBSET (S \union T) : IsFiniteSet(V) /\ Sum(V) \in Int
  BY FS_Subset, FS_Union, SumIsInt
<1>3. U # {}
  <2>1. Sum({}) = 0 /\ S \union {} = S
    BY SumOfNone
  <2> QED BY <1>2, <2>1
<1>4. PICK a \in U : TRUE
  BY <1>3
<1> DEFINE V == U \ {a}
<1>5. Sum(U) = f[a] + Sum(V)
  BY <1>2, <1>4, SumTakes
<1>6. Sum(S \union U) = f[a] + Sum(S \union V)
  <2>1. (S \union U) \ {a} = S \union V /\ a \in S \union U
    BY <1>4
  <2>2. IsFiniteSet(S \union U) /\ \A x \in S \union U : f[x] \in Int
    BY <1>2
  <2> QED BY <2>1, <2>2, SumTakes
<1>7. V \in SUBSET T /\ V \notin B
  BY <1>1, <1>4
<1>8. Sum(S \union V) = Sum(S) + Sum(V)
  BY <1>7
<1>9. Sum(S) \in Int /\ Sum(V) \in Int /\ f[a] \in Int
  BY <1>2, <1>4, <1>7
<1>10. Sum(S \union U) # Sum(S) + Sum(U)
  OBVIOUS
<1> HIDE DEF Sum, V, B
<1> QED BY <1>5, <1>6, <1>8, <1>9, <1>10

\* Equal summands add up to a multiple.
LEMMA SumOfEqual ==
  ASSUME NEW S, IsFiniteSet(S), NEW c \in Int, NEW f, \A x \in S : f[x] = c
  PROVE  SumFunctionOnSet(f, S) = Cardinality(S) * c
<1> DEFINE Sum(U) == SumFunctionOnSet(f, U)
           B == {U \in SUBSET S : Sum(U) # Cardinality(U) * c}
<1> SUFFICES ASSUME B # {} PROVE FALSE
  OBVIOUS
<1>1. PICK U \in B : \A V \in B : V \subseteq U => V = U
  <2>1. B \in SUBSET SUBSET S
    OBVIOUS
  <2> HIDE DEF B
  <2> QED BY <2>1, Smallest
<1>2. \A V \in SUBSET S : IsFiniteSet(V) /\ Cardinality(V) \in Nat
  BY FS_Subset, FS_CardinalityType
<1>3. U # {}
  <2>1. Sum({}) = 0 /\ Cardinality({}) = 0
    BY SumOfNone, FS_EmptySet
  <2> QED BY <2>1
<1>4. PICK a \in U : TRUE
  BY <1>3
<1> DEFINE V == U \ {a}
<1>5. Sum(U) = c + Sum(V)
  <2>1. f[a] = c /\ IsFiniteSet(U) /\ \A x \in U : f[x] \in Int
    BY <1>2, <1>4
  <2> QED BY <2>1, <1>4, SumTakes
<1>6. V \in SUBSET S /\ V \notin B
  BY <1>1, <1>4
<1>7. Sum(V) = Cardinality(V) * c
  BY <1>6
<1>8. Cardinality(V) = Cardinality(U) - 1 /\ Cardinality(U) \in Nat
  BY <1>2, <1>4, FS_RemoveElement
<1>9. c + (Cardinality(U) - 1) * c = Cardinality(U) * c
  BY <1>8
<1>10. Sum(U) # Cardinality(U) * c
  OBVIOUS
<1> HIDE DEF Sum, B, V
<1> QED BY <1>5, <1>7, <1>8, <1>9, <1>10

\* What a function adds up to is a number, and not below zero when no
\* summand is.
LEMMA TotalIsNumber ==
  ASSUME NEW f, IsFiniteSet(DOMAIN f)
  PROVE  /\ (\A x \in DOMAIN f : f[x] \in Int) => SumFunction(f) \in Int
         /\ (\A x \in DOMAIN f : f[x] \in Nat) => SumFunction(f) \in Nat
<1> DEFINE S == DOMAIN f
<1>1. SumFunction(f) = SumFunctionOnSet(f, S)
  BY DEF SumFunction
<1> HIDE DEF S
<1>2. (\A x \in S : f[x] \in Int) => SumFunctionOnSet(f, S) \in Int
  BY SumIsInt DEF S
<1>3. ASSUME \A x \in S : f[x] \in Nat
      PROVE  SumFunctionOnSet(f, S) \in Nat
  <2> DEFINE zero == [x \in S |-> 0]
  <2>1. SumFunctionOnSet(zero, S) = Cardinality(S) * 0 /\ Cardinality(S) \in Nat
    <3>1. \A x \in S : zero[x] = 0
      OBVIOUS
    <3> HIDE DEF zero
    <3> QED BY <3>1, SumOfEqual, FS_CardinalityType DEF S
  <2>2. SumFunctionOnSet(zero, S) <= SumFunctionOnSet(f, S)
    <3>1. \A x \in S : zero[x] \in Int /\ f[x] \in Int /\ zero[x] <= f[x]
      BY <1>3
    <3> HIDE DEF zero
    <3> QED BY <3>1, SumMonotone DEF S
  <2>3. SumFunctionOnSet(f, S) \in Int
    BY <1>2, <1>3
  <2> HIDE DEF zero
  <2> QED BY <2>1, <2>2, <2>3
<1> QED BY <1>1, <1>2, <1>3 DEF S

\* Functions that agree add up to the same.
LEMMA TotalsAgree ==
  ASSUME NEW f, NEW g, IsFiniteSet(DOMAIN f), DOMAIN g = DOMAIN f,
         \A x \in DOMAIN f : f[x] \in Int /\ g[x] = f[x]
  PROVE  SumFunction(f) = SumFunction(g)
BY SumsAgree DEF SumFunction

\* What two functions with nothing in common add up to together.
LEMMA TotalsSplit ==
  ASSUME NEW f, NEW g, NEW h, IsFiniteSet(DOMAIN f), IsFiniteSet(DOMAIN g),
         DOMAIN f \cap DOMAIN g = {}, DOMAIN h = DOMAIN f \union DOMAIN g,
         \A x \in DOMAIN f : f[x] \in Int /\ h[x] = f[x],
         \A x \in DOMAIN g : g[x] \in Int /\ h[x] = g[x]
  PROVE  SumFunction(h) = SumFunction(f) + SumFunction(g)
<1>1. SumFunctionOnSet(h, DOMAIN f \union DOMAIN g)
        = SumFunctionOnSet(h, DOMAIN f) + SumFunctionOnSet(h, DOMAIN g)
  BY SumsSplit
<1>2. SumFunctionOnSet(h, DOMAIN f) = SumFunctionOnSet(f, DOMAIN f)
  BY SumsAgree
<1>3. SumFunctionOnSet(h, DOMAIN g) = SumFunctionOnSet(g, DOMAIN g)
  BY SumsAgree
<1> QED BY <1>1, <1>2, <1>3 DEF SumFunction

------------------------------------------------------------------------------
(* Capacity.                                                                *)

\* The machines that count for a dimension, and what they take of it.
Weighed(c, p, d) ==
  {v \in p.vms : /\ v.qemu /\ v.node \in AllowedSet(c, DOMAIN p.nodes)
                 /\ d = "disk" \/ v.running}
TakenIn(c, p, d) == SumFunction([v \in Weighed(c, p, d) |-> v[d]])

\* What a plan and a host weigh against each other, and the bound of it.
Within(asked, host, used, pct) ==
  \A d \in Judged(host) \ {"cpu"} :
    (used[d] + asked[d]) * 100 <= (100 + Tolerance(pct)) * host[d]

\* The machines of the installation that count are finitely many, and weigh
\* natural numbers.
LEMMA WeighedAreMachines ==
  ASSUME NEW c, NEW p, IsInstallation(p), NEW d \in Dims
  PROVE  /\ IsFiniteSet(Weighed(c, p, d))
         /\ \A v \in Weighed(c, p, d) : v[d] \in Nat
         /\ TakenIn(c, p, d) \in Nat
<1>1. IsFiniteSet(p.vms) /\ Weighed(c, p, d) \in SUBSET p.vms
  BY DEF IsInstallation, Weighed
<1>2. IsFiniteSet(Weighed(c, p, d))
  BY <1>1, FS_Subset
<1>3. \A v \in Weighed(c, p, d) : v[d] \in Nat
  BY <1>1 DEF IsInstallation, Dims
<1> DEFINE f == [v \in Weighed(c, p, d) |-> v[d]]
<1>4. SumFunction(f) \in Nat
  <2>1. IsFiniteSet(DOMAIN f) /\ \A v \in DOMAIN f : f[v] \in Nat
    BY <1>2, <1>3
  <2> HIDE DEF f
  <2> QED BY <2>1, TotalIsNumber
<1> QED BY <1>2, <1>3, <1>4 DEF TakenIn

\* The census of the inventory counts what the machines take.
LEMMA UsageIsTaken ==
  ASSUME NEW c, NEW p
  PROVE  \A d \in Dims : ExistingUsage(c, p)[d] = TakenIn(c, p, d)
<1> DEFINE vms == {v \in p.vms : v.qemu /\ v.node \in AllowedSet(c, DOMAIN p.nodes)}
           running == {v \in vms : v.running}
<1>1. /\ Weighed(c, p, "cpu") = running /\ Weighed(c, p, "mem") = running
      /\ Weighed(c, p, "disk") = vms
  BY DEF Weighed
<1>2. ExistingUsage(c, p) = [cpu |-> SumFunction([v \in running |-> v.cpu]),
                             mem |-> SumFunction([v \in running |-> v.mem]),
                             disk |-> SumFunction([v \in vms |-> v.disk])]
  BY DEF ExistingUsage
<1>3. /\ [v \in running |-> v["cpu"]] = [v \in running |-> v.cpu]
      /\ [v \in running |-> v["mem"]] = [v \in running |-> v.mem]
      /\ [v \in vms |-> v["disk"]] = [v \in vms |-> v.disk]
  OBVIOUS
<1> HIDE DEF vms, running
<1>4. /\ TakenIn(c, p, "cpu") = SumFunction([v \in running |-> v.cpu])
      /\ TakenIn(c, p, "mem") = SumFunction([v \in running |-> v.mem])
      /\ TakenIn(c, p, "disk") = SumFunction([v \in vms |-> v.disk])
  BY <1>1, <1>3 DEF TakenIn
<1> QED BY <1>2, <1>4 DEF Dims

\* A host has no capacity below zero.
LEMMA HostIsNumber ==
  ASSUME NEW c, NEW p, IsInstallation(p)
  PROVE  \A d \in Dims : HostCapacity(c, p)[d] \in Nat
<1> DEFINE E == Eligible(c, p)
           sum(d) == SumFunction([n \in E |-> p.nodes[n][d]])
<1>1. IsFiniteSet(E) /\ E \subseteq DOMAIN p.nodes
  <2>1. E \in SUBSET DOMAIN p.nodes
    BY DEF Eligible
  <2> QED BY <2>1, FS_Subset DEF IsInstallation
<1>2. ASSUME NEW d \in {"cpu", "mem"} PROVE sum(d) \in Nat
  <2> DEFINE f == [n \in E |-> p.nodes[n][d]]
  <2>1. IsFiniteSet(DOMAIN f) /\ \A n \in DOMAIN f : f[n] \in Nat
    <3>1. \A n \in E : p.nodes[n] \in [online : BOOLEAN, cpu : Nat, mem : Nat]
      BY <1>1 DEF IsInstallation
    <3>2. \A n \in E : p.nodes[n][d] \in Nat
      BY <3>1
    <3> HIDE DEF E
    <3> QED BY <1>1, <3>2
  <2>2. SumFunction(f) \in Nat
    <3> HIDE DEF f
    <3> QED BY <2>1, TotalIsNumber
  <2> QED BY <2>2
<1>3. StorageGB(c, p) \in Nat
  <2> DEFINE wanted == {s \in p.stores : /\ s.up
                                         /\ c.store \in {Unset, s.store}
                                         /\ s.node \in AllowedSet(c, DOMAIN p.nodes)}
             Key(s) == IF s.shared THEN <<s.store>> ELSE <<s.store, s.node>>
             keys == {Key(s) : s \in wanted}
             g == [k \in keys |-> (CHOOSE s \in wanted : Key(s) = k).gb]
  <2>1. StorageGB(c, p) = SumFunction(g)
    BY DEF StorageGB
  <2>2. IsFiniteSet(keys)
    <3>1. IsFiniteSet(wanted)
      <4>1. wanted \in SUBSET p.stores
        OBVIOUS
      <4> QED BY <4>1, FS_Subset DEF IsInstallation
    <3> DEFINE h == [s \in wanted |-> Key(s)]
    <3>2. h \in Surjection(wanted, keys)
      BY DEF Surjection
    <3> HIDE DEF h, wanted, keys
    <3> QED BY <3>1, <3>2, FS_Surjection
  <2>3. \A k \in keys : g[k] \in Nat
    <3> SUFFICES ASSUME NEW k \in keys PROVE (CHOOSE s \in wanted : Key(s) = k).gb \in Nat
      OBVIOUS
    <3>1. \E s \in wanted : Key(s) = k
      OBVIOUS
    <3>2. (CHOOSE s \in wanted : Key(s) = k) \in wanted
      BY <3>1
    <3>3. \A s \in wanted : s.gb \in Nat
      BY DEF IsInstallation
    <3> QED BY <3>2, <3>3
  <2>4. DOMAIN g = keys
    OBVIOUS
  <2> HIDE DEF keys, g
  <2> QED BY <2>1, <2>2, <2>3, <2>4, TotalIsNumber
<1>4. HostCapacity(c, p) = [cpu |-> sum("cpu"), mem |-> sum("mem"),
                            disk |-> IF p.storesAnswer THEN StorageGB(c, p) ELSE 0]
  BY DEF HostCapacity
<1> HIDE DEF sum
<1> QED BY <1>2, <1>3, <1>4 DEF Dims

\* A machine of a run weighs a natural number, and a plan is the sum of what
\* its roles weigh.
LEMMA PlanIsNumber ==
  ASSUME NEW c, IsConfiguration(c)
  PROVE  /\ \A r \in Roles : Replicas(c)[r] \in Int
         /\ \A r \in Roles, d \in Dims :
              /\ Machine(c, r)[d] \in Nat
              /\ Weight(Replicas(c)[r], Machine(c, r), d) \in Nat
         /\ \A d \in Dims :
              PlanFor(c)[d] = Weight(Replicas(c)["cp"], Machine(c, "cp"), d)
                              + Weight(Replicas(c)["wk"], Machine(c, "wk"), d)
                              + Weight(Replicas(c)["mcp"], Machine(c, "mcp"), d)
                              + Weight(Replicas(c)["mwk"], Machine(c, "mwk"), d)
<1>1. \A r \in Roles : Replicas(c)[r] \in Int
  BY UnsetIsNoNumber DEF IsConfiguration, Replicas, AtoiOr, Roles
<1>2. \A r \in Roles, d \in Dims : Machine(c, r)[d] \in Nat
  <2> SUFFICES ASSUME NEW r \in Roles PROVE \A d \in Dims : Machine(c, r)[d] \in Nat
    OBVIOUS
  <2> DEFINE s == c.size[IF r = "mwk" THEN "wk" ELSE r]
  <2>1. {s.sockets, s.cores, s.mem, s.disk} \subseteq Nat \union {Unset}
    BY DEF IsConfiguration, Roles
  <2>2. Machine(c, r) = [cpu |-> AtoiOr(s.sockets, 1) * AtoiOr(s.cores, 1),
                         mem |-> AtoiOr(s.mem, 0), disk |-> AtoiOr(s.disk, 0)]
    BY DEF Machine
  <2> HIDE DEF s
  <2>3. /\ AtoiOr(s.sockets, 1) \in Nat /\ AtoiOr(s.cores, 1) \in Nat
        /\ AtoiOr(s.mem, 0) \in Nat /\ AtoiOr(s.disk, 0) \in Nat
    BY <2>1 DEF AtoiOr
  <2>4. AtoiOr(s.sockets, 1) * AtoiOr(s.cores, 1) \in Nat
    BY <2>3
  <2> QED BY <2>2, <2>3, <2>4 DEF Dims
<1>3. \A n \in Int : \A m, d : m[d] \in Nat => Weight(n, m, d) \in Nat
  <2>1. \A n \in Int, k \in Nat : ~ (n <= 0) => n * k \in Nat
    OBVIOUS
  <2> QED BY <2>1 DEF Weight
<1>4. \A r \in Roles, d \in Dims : Weight(Replicas(c)[r], Machine(c, r), d) \in Nat
  BY <1>1, <1>2, <1>3
<1>5. \A d \in Dims :
        PlanFor(c)[d] = Weight(Replicas(c)["cp"], Machine(c, "cp"), d)
                        + Weight(Replicas(c)["wk"], Machine(c, "wk"), d)
                        + Weight(Replicas(c)["mcp"], Machine(c, "mcp"), d)
                        + Weight(Replicas(c)["mwk"], Machine(c, "mwk"), d)
  BY DEF PlanFor, PlanOf, Roles
<1> QED BY <1>1, <1>2, <1>4, <1>5

\* What fits is within the tolerance too, so that a verdict other than
\* "abort" says that memory and storage are within it, and the other way
\* round.
LEMMA VerdictSaysWithin ==
  ASSUME NEW asked, NEW host, NEW used, NEW budget, NEW pct \in Int,
         budget[1] \in Int, budget[2] \in Nat \ {0},
         \A d \in Dims : asked[d] \in Nat /\ host[d] \in Nat /\ used[d] \in Nat
  PROVE  /\ CheckCombined(asked, host, used, budget, pct) \in {"fits", "tight", "abort"}
         /\ CheckCombined(asked, host, used, budget, pct) # "abort"
              <=> Within(asked, host, used, pct)
<1> DEFINE f == Threshold(budget)
<1>1. f[1] \in Nat /\ f[2] \in Nat \ {0} /\ f[1] <= f[2]
  BY DEF Threshold
<1>2. Judged(host) \subseteq Dims
  BY DEF Judged
<1>3. Tolerance(pct) \in Nat
  BY DEF Tolerance
<1>4. ASSUME NEW d \in Dims, (used[d] + asked[d]) * f[2] <= f[1] * host[d]
      PROVE  (used[d] + asked[d]) * 100 <= (100 + Tolerance(pct)) * host[d]
  <2> DEFINE t == used[d] + asked[d]
             h == host[d]
             a == f[1]
             b == f[2]
             tol == Tolerance(pct)
  <2>1. t \in Nat /\ h \in Nat /\ a \in Nat /\ b \in Nat \ {0} /\ a <= b /\ tol \in Nat
        /\ t * b <= a * h
    BY <1>1, <1>3, <1>4
  <2> HIDE DEF t, h, a, b, tol
  <2>2. a * h <= b * h
    BY <2>1
  <2>3. t <= h
    <3> SUFFICES ASSUME t >= h + 1 PROVE FALSE
      BY <2>1
    <3>1. t * b >= (h + 1) * b
      BY <2>1
    <3>2. (h + 1) * b = b * h + b
      BY <2>1
    <3> QED BY <2>1, <2>2, <3>1, <3>2
  <2>4. t * 100 <= h * 100 /\ (100 + tol) * h = h * 100 + tol * h /\ tol * h \in Nat
    BY <2>1, <2>3
  <2>5. t * 100 <= (100 + tol) * h
    BY <2>1, <2>4
  <2> QED BY <2>5 DEF t, h, tol
<1> HIDE DEF f
<1> QED BY <1>2, <1>4 DEF CheckCombined, Within, f

\* The machines of a role of a run, on a node.
MachineOf(c, n, r, i) ==
  [id |-> <<r, i>>, node |-> n, qemu |-> TRUE, running |-> TRUE,
   cpu |-> Machine(c, r).cpu, mem |-> Machine(c, r).mem, disk |-> Machine(c, r).disk]
MachinesOf(c, n, r) == {MachineOf(c, n, r, i) : i \in 1 .. Replicas(c)[r]}

\* The machines that the manifests ask for are those the plan counts: the
\* replicas of the four roles.
LEMMA MachinesAreReplicas ==
  ASSUME NEW c, IsConfiguration(c), NEW n
  PROVE  Machines(c, n) = MachinesOf(c, n, "cp") \union MachinesOf(c, n, "wk")
                          \union MachinesOf(c, n, "mcp") \union MachinesOf(c, n, "mwk")
<1> DEFINE count(r) == IF r \in {"mcp", "mwk"} /\ ~c.pivot THEN 0
                       ELSE AtoiOr(c[r], IF r \in {"cp", "mcp"} THEN 1 ELSE 0)
<1>1. \A r \in Roles : count(r) = Replicas(c)[r]
  BY DEF Replicas, Roles
<1>2. Machines(c, n) = UNION {{MachineOf(c, n, r, i) : i \in 1 .. count(r)} : r \in Roles}
  BY DEF Machines, MachineOf
<1> HIDE DEF count
<1>3. \A r \in Roles : {MachineOf(c, n, r, i) : i \in 1 .. count(r)} = MachinesOf(c, n, r)
  BY <1>1 DEF MachinesOf
<1>4. Machines(c, n) = UNION {MachinesOf(c, n, r) : r \in Roles}
  BY <1>2, <1>3
<1> QED BY <1>4 DEF Roles

\* The machines of a role weigh what the plan says of the role.
LEMMA RoleWeighsItsReplicas ==
  ASSUME NEW c, IsConfiguration(c), NEW n, NEW r \in Roles, NEW d \in Dims,
         NEW f, \A v \in MachinesOf(c, n, r) : f[v] = v[d]
  PROVE  /\ IsFiniteSet(MachinesOf(c, n, r))
         /\ SumFunctionOnSet(f, MachinesOf(c, n, r)) = Weight(Replicas(c)[r], Machine(c, r), d)
<1> DEFINE k == Replicas(c)[r]
           M == MachinesOf(c, n, r)
           w == Machine(c, r)[d]
<1>1. k \in Int /\ w \in Nat
  BY PlanIsNumber
<1>2. \A v \in M : f[v] = w
  BY DEF MachinesOf, MachineOf, Dims
<1>3. CASE k <= 0
  <2>1. M = {}
    BY <1>1, <1>3 DEF MachinesOf
  <2>2. Weight(k, Machine(c, r), d) = 0
    BY <1>3 DEF Weight
  <2> QED BY <2>1, <2>2, SumOfNone, FS_EmptySet
<1>4. CASE ~ (k <= 0)
  <2>1. k \in Nat
    BY <1>1, <1>4
  <2> DEFINE g == [i \in 1 .. k |-> MachineOf(c, n, r, i)]
  <2>2. g \in Bijection(1 .. k, M)
    <3>1. g \in [1 .. k -> M]
      BY DEF MachinesOf
    <3>2. \A m \in M : \E i \in 1 .. k : g[i] = m
      BY DEF MachinesOf
    <3>3. \A i, j \in 1 .. k : g[i] = g[j] => i = j
      <4>1. \A i \in 1 .. k : g[i].id = <<r, i>>
        BY DEF MachineOf
      <4>2. \A i, j \in 1 .. k : <<r, i>> = <<r, j>> => i = j
        OBVIOUS
      <4> HIDE DEF g
      <4> QED BY <4>1, <4>2
    <3> HIDE DEF g, M, k
    <3> QED BY <3>1, <3>2, <3>3 DEF Bijection, Injection, Surjection, IsInjective
  <2>3. ExistsBijection(1 .. k, M)
    <3> HIDE DEF g, M, k
    <3> QED BY <2>2 DEF ExistsBijection
  <2>4. IsFiniteSet(M) /\ Cardinality(M) = k
    <3> HIDE DEF g, M, k
    <3> QED BY <2>1, <2>3, FS_CountingElements, FS_NatBijection
  <2>5. SumFunctionOnSet(f, M) = k * w
    <3> HIDE DEF g, M, k, w
    <3> QED BY <1>1, <1>2, <2>4, SumOfEqual
  <2>6. Weight(k, Machine(c, r), d) = k * w
    BY <1>4 DEF Weight
  <2> QED BY <2>4, <2>5, <2>6
<1> QED BY <1>3, <1>4

\* Together the machines of a run weigh what its plan says.
LEMMA RunWeighsItsPlan ==
  ASSUME NEW c, IsConfiguration(c), NEW n, NEW d \in Dims,
         NEW f, \A v \in Machines(c, n) : f[v] = v[d]
  PROVE  /\ IsFiniteSet(Machines(c, n))
         /\ \A v \in Machines(c, n) : f[v] \in Int
         /\ SumFunctionOnSet(f, Machines(c, n)) = PlanFor(c)[d]
<1> DEFINE M(r) == MachinesOf(c, n, r)
           w(r) == Weight(Replicas(c)[r], Machine(c, r), d)
           Sum(S) == SumFunctionOnSet(f, S)
<1>1. Machines(c, n) = ((M("cp") \union M("wk")) \union M("mcp")) \union M("mwk")
  BY MachinesAreReplicas
<1>2. \A r \in Roles : IsFiniteSet(M(r)) /\ Sum(M(r)) = w(r)
  <2> SUFFICES ASSUME NEW r \in Roles PROVE IsFiniteSet(M(r)) /\ Sum(M(r)) = w(r)
    OBVIOUS
  <2>1. \A v \in M(r) : f[v] = v[d]
    BY <1>1 DEF Roles
  <2> QED BY <2>1, RoleWeighsItsReplicas
<1>3. \A r, s \in Roles : r # s => M(r) \cap M(s) = {}
  <2>1. \A r \in Roles : \A v \in M(r) : v.id[1] = r
    BY DEF MachinesOf, MachineOf
  <2> HIDE DEF M
  <2> QED BY <2>1
<1>4. \A v \in Machines(c, n) : f[v] \in Int
  <2>1. \A r \in Roles : \A v \in M(r) : v[d] \in Int
    BY PlanIsNumber DEF MachinesOf, MachineOf, Dims
  <2> HIDE DEF M
  <2> QED BY <1>1, <2>1 DEF Roles
<1> HIDE DEF M
<1>5. ASSUME NEW A \in SUBSET Machines(c, n), NEW B \in SUBSET Machines(c, n),
             IsFiniteSet(A), IsFiniteSet(B), A \cap B = {}
      PROVE  IsFiniteSet(A \union B) /\ Sum(A \union B) = Sum(A) + Sum(B)
  <2>1. \A x \in A \union B : f[x] \in Int
    BY <1>4
  <2> QED BY <2>1, <1>5, SumsSplit, FS_Union
<1>6. \A r \in Roles : M(r) \in SUBSET Machines(c, n)
  BY <1>1 DEF Roles
<1> HIDE DEF Sum
<1> DEFINE A == M("cp") \union M("wk")
           B == A \union M("mcp")
<1>7. IsFiniteSet(A) /\ Sum(A) = w("cp") + w("wk") /\ A \in SUBSET Machines(c, n)
  <2>1. M("cp") \cap M("wk") = {}
    BY <1>3 DEF Roles
  <2> QED BY <1>2, <1>5, <1>6, <2>1 DEF Roles
<1>8. A \cap M("mcp") = {} /\ B \cap M("mwk") = {}
  BY <1>3 DEF Roles
<1> HIDE DEF A
<1>9. IsFiniteSet(B) /\ Sum(B) = w("cp") + w("wk") + w("mcp") /\ B \in SUBSET Machines(c, n)
  BY <1>2, <1>5, <1>6, <1>7, <1>8 DEF Roles
<1>10. Machines(c, n) = B \union M("mwk")
  BY <1>1 DEF A
<1> HIDE DEF B
<1>11. /\ IsFiniteSet(Machines(c, n))
       /\ Sum(Machines(c, n)) = w("cp") + w("wk") + w("mcp") + w("mwk")
  BY <1>2, <1>5, <1>6, <1>8, <1>9, <1>10 DEF Roles
<1>12. PlanFor(c)[d] = w("cp") + w("wk") + w("mcp") + w("mwk")
  BY PlanIsNumber
<1> QED BY <1>4, <1>11, <1>12 DEF Sum

------------------------------------------------------------------------------
(* The installation and the machines of a run (Sizing).                     *)

\* A configuration of the run, an installation that can be added up, no
\* machine of the run before it is made, and a preflight that passed and saw
\* everything found the plan within the tolerance of what is there.
SizingInv ==
  /\ cfg \in Cfgs /\ IsInstallation(pve) /\ created \in BOOLEAN
  /\ created => answer = "pass"
  /\ ~created => \A v \in pve.vms : v.id[1] \notin Roles
  /\ ~created /\ answer = "pass" /\ sound =>
       Within(PlanFor(cfg), HostCapacity(cfg, pve), ExistingUsage(cfg, pve), cfg.tolerance)
  /\ CreatedFits

\* The configurations and the installations of the constants are as assumed.
LEMMA InitIsSized == SizingInit => SizingInv
<1> SUFFICES ASSUME SizingInit PROVE SizingInv
  OBVIOUS
<1>1. IsInstallation(pve) /\ \A v \in pve.vms : v.id[1] \notin Roles
  BY SitesAssumption DEF SizingInit
<1>2. CreatedFits
  BY DEF SizingInit, CreatedFits
<1> QED BY <1>1, <1>2 DEF SizingInit, SizingInv

\* With the machines in sight, the preflight passes what is within the
\* tolerance or overcommitted on purpose, and the dry run refuses the rest.
LEMMA JudgeFindsWithin ==
  ASSUME NEW c, IsConfiguration(c), NEW p, IsInstallation(p),
         Inventory(c, p) # NoAnswer, p.vmsAnswer
  PROVE  /\ Preflight(c, p) = "pass"
              <=> \/ Within(PlanFor(c), HostCapacity(c, p), ExistingUsage(c, p), c.tolerance)
                  \/ c.overcommit
         /\ PlanCapacity(c, p).says = "abort"
              <=> ~ Within(PlanFor(c), HostCapacity(c, p), ExistingUsage(c, p), c.tolerance)
<1> DEFINE verdict == CheckCombined(PlanFor(c), HostCapacity(c, p), ExistingUsage(c, p),
                                    c.budget, c.tolerance)
           within == Within(PlanFor(c), HostCapacity(c, p), ExistingUsage(c, p), c.tolerance)
<1>1. /\ Inventory(c, p).total = HostCapacity(c, p)
      /\ Inventory(c, p).used = ExistingUsage(c, p)
  BY DEF Inventory
<1>2. \A d \in Dims : /\ PlanFor(c)[d] \in Nat /\ HostCapacity(c, p)[d] \in Nat
                      /\ ExistingUsage(c, p)[d] \in Nat
  <2>1. \A d \in Dims : ExistingUsage(c, p)[d] \in Nat
    BY UsageIsTaken, WeighedAreMachines
  <2>2. \A d \in Dims : PlanFor(c)[d] \in Nat
    <3>1. \A a, b, x, y \in Nat : a + b + x + y \in Nat
      OBVIOUS
    <3> QED BY <3>1, PlanIsNumber DEF Roles
  <2> QED BY <2>1, <2>2, HostIsNumber
<1>3. verdict # "abort" <=> within
  BY <1>2, VerdictSaysWithin DEF IsConfiguration
<1> HIDE DEF within
<1>4. Preflight(c, p) = "pass" <=> verdict # "abort" \/ c.overcommit
  BY <1>1 DEF Preflight
<1>5. PlanCapacity(c, p).says = "abort" <=> verdict = "abort"
  BY <1>1 DEF PlanCapacity
<1> QED BY <1>3, <1>4, <1>5 DEF within

\* Neither a census nor a capacity depends on more than is said here.
LEMMA HostStays ==
  ASSUME NEW c, NEW p, NEW q, q.nodes = p.nodes, q.stores = p.stores,
         q.storesAnswer = p.storesAnswer
  PROVE  HostCapacity(c, q) = HostCapacity(c, p)
BY DEF HostCapacity, Eligible, StorageGB

\* What the machines of a run take comes on top of what was taken.
LEMMA TakenWithTheRun ==
  ASSUME NEW c, IsConfiguration(c), NEW p, IsInstallation(p),
         \A v \in p.vms : v.id[1] \notin Roles,
         NEW n \in Eligible(c, p), NEW q, q.nodes = p.nodes,
         q.vms = p.vms \union Machines(c, n), NEW d \in Dims
  PROVE  TakenIn(c, q, d) = TakenIn(c, p, d) + PlanFor(c)[d]
<1> DEFINE W == Weighed(c, p, d)
           M == Machines(c, n)
           f == [v \in W \union M |-> v[d]]
           g == [v \in W |-> v[d]]
<1>1. \A v \in M : /\ v.id[1] \in Roles /\ v.node = n /\ v.qemu = TRUE /\ v.running = TRUE
  BY DEF Machines, Roles
<1>2. n \in AllowedSet(c, DOMAIN p.nodes)
  BY DEF Eligible
<1>3. Weighed(c, q, d) = W \union M
  BY <1>1, <1>2 DEF Weighed
<1>4. W \cap M = {}
  BY <1>1 DEF Weighed
<1>5. IsFiniteSet(W) /\ \A v \in W : v[d] \in Nat
  BY WeighedAreMachines
<1>6. \A v \in M : f[v] = v[d]
  OBVIOUS
<1>7. \A v \in W : f[v] = v[d] /\ g[v] = v[d]
  OBVIOUS
<1>8. TakenIn(c, q, d) = SumFunctionOnSet(f, W \union M)
  BY <1>3 DEF TakenIn, SumFunction
<1>9. TakenIn(c, p, d) = SumFunctionOnSet(g, W)
  BY DEF TakenIn, SumFunction
<1> HIDE DEF W, f, g
<1>10. /\ IsFiniteSet(M) /\ \A v \in M : f[v] \in Int
       /\ SumFunctionOnSet(f, M) = PlanFor(c)[d]
  BY <1>6, RunWeighsItsPlan
<1>11. SumFunctionOnSet(f, W) = SumFunctionOnSet(g, W)
  BY <1>5, <1>7, SumsAgree
<1>12. SumFunctionOnSet(f, W \union M) = SumFunctionOnSet(f, W) + SumFunctionOnSet(f, M)
  <2>1. \A v \in W \union M : f[v] \in Int
    BY <1>5, <1>7, <1>10
  <2> HIDE DEF M
  <2> QED BY <1>4, <1>5, <1>10, <2>1, SumsSplit
<1> QED BY <1>8, <1>9, <1>10, <1>11, <1>12

\* What the system and three tenants get is there in the workers.
LEMMA SharesAreCarried ==
  ASSUME NEW c, IsConfiguration(c), PlanAllocations(c) # {}, NEW d \in {"cpu", "mem"}
  PROVE  AllocationsFor(c).system[d] + 3 * AllocationsFor(c).bucket[d]
           <= (IF d = "cpu" THEN 1000 ELSE 1) * Weight(Replicas(c)["wk"], Machine(c, "wk"), d)
<1> DEFINE m == Machine(c, "wk")
           k == AtoiOr(c.wk, 0)
           unit == IF d = "cpu" THEN 1000 ELSE 1
           total == unit * m[d] * k
           system == AllocationsFor(c).system[d]
           remain == AllocationsFor(c).remain[d]
           bucket == AllocationsFor(c).bucket[d]
<1>1. k = Replicas(c)["wk"] /\ k \in Int /\ m[d] \in Nat
  BY PlanIsNumber DEF Replicas, Roles, Dims
<1>2. system \in Int
  BY DEF IsConfiguration, AllocationsFor
<1> DEFINE a == AllocationsFor(c)
           R == [e \in {"cpu", "mem"} |->
                   [cpu |-> 1000 * m.cpu * k, mem |-> m.mem * k][e]
                   - [cpu |-> IF c.system.cpu = 0 THEN 2000 ELSE c.system.cpu,
                      mem |-> IF c.system.mem = 0 THEN 4 ELSE c.system.mem][e]]
<1>3. /\ a.remain = R
      /\ a.bucket = [e \in {"cpu", "mem"} |-> IF R[e] > 0 THEN R[e] \div 3 ELSE 0]
      /\ a.overReserved = (R.cpu < 0 \/ R.mem < 0)
  BY Zenon DEF AllocationsFor
<1>4. remain = total - system
  <2>1. a.system = [cpu |-> IF c.system.cpu = 0 THEN 2000 ELSE c.system.cpu,
                    mem |-> IF c.system.mem = 0 THEN 4 ELSE c.system.mem]
    BY DEF AllocationsFor
  <2>2. R.cpu = 1000 * m.cpu * k - a.system.cpu /\ R.mem = m.mem * k - a.system.mem
    BY <2>1
  <2>3. m.mem * k = 1 * m.mem * k
    BY <1>1, PlanIsNumber DEF Roles, Dims
  <2> HIDE DEF R
  <2>4. a.remain[d] = unit * m[d] * k - a.system[d]
    BY <1>3, <2>2, <2>3
  <2> QED BY <2>4
<1>5. ~ a.overReserved
  BY DEF PlanAllocations
<1> HIDE DEF a, R
<1>6. bucket = (IF remain > 0 THEN remain \div 3 ELSE 0) /\ ~ (remain < 0)
  BY <1>3, <1>5 DEF a
<1> HIDE DEF system, remain, bucket
<1>7. Weight(k, m, d) = IF k <= 0 THEN 0 ELSE k * m[d]
  BY DEF Weight
<1> DEFINE w == m[d]
<1>8. unit \in {1, 1000} /\ w \in Nat /\ k \in Int
  BY <1>1
<1> HIDE DEF m, k, unit
<1> HIDE DEF w
<1>9. unit * w * k \in Int /\ (k <= 0 => unit * w * k <= 0) /\ unit * w * k = unit * (k * w)
  <2>1. unit * w \in Nat
    BY <1>8
  <2>2. \A x \in Nat, y \in Int : x * y \in Int /\ (y <= 0 => x * y <= 0)
    OBVIOUS
  <2>3. unit * w * k = unit * (k * w)
    BY <1>8
  <2> QED BY <1>8, <2>1, <2>2, <2>3
<1>10. system + 3 * bucket <= unit * w * k
  BY <1>2, <1>4, <1>6, <1>9 DEF w
<1>11. unit * w * k <= unit * (IF k <= 0 THEN 0 ELSE k * w)
  BY <1>8, <1>9
<1>12. unit * (IF k <= 0 THEN 0 ELSE k * w) \in Int /\ system + 3 * bucket \in Int
  <2>1. k * w \in Int
    BY <1>8
  <2>2. bucket \in Int
    BY <1>2, <1>4, <1>6, <1>9 DEF w
  <2> QED BY <1>2, <1>8, <2>1, <2>2
<1>13. system + 3 * bucket <= unit * Weight(k, m, d)
  BY <1>7, <1>9, <1>10, <1>11, <1>12 DEF w
<1> QED BY <1>1, <1>13 DEF system, bucket, unit, k, m

\* The workers that a run leaves weigh what the plan says of them.
LEMMA WorkersWeighTheirPlan ==
  ASSUME NEW c, IsConfiguration(c), NEW p, \A v \in p.vms : v.id[1] \notin Roles, NEW n,
         NEW q, q.vms = p.vms \union Machines(c, n), NEW d \in Dims
  PROVE  SumFunction([v \in {v \in q.vms : v.id[1] = "wk"} |-> v[d]])
           = Weight(Replicas(c)["wk"], Machine(c, "wk"), d)
<1> DEFINE W == {v \in q.vms : v.id[1] = "wk"}
           M == MachinesOf(c, n, "wk")
           f == [v \in M |-> v[d]]
<1>1. W = M
  <2>1. \A r \in Roles : \A v \in MachinesOf(c, n, r) : v.id[1] = r
    BY DEF MachinesOf, MachineOf
  <2>2. Machines(c, n) = MachinesOf(c, n, "cp") \union MachinesOf(c, n, "wk")
                         \union MachinesOf(c, n, "mcp") \union MachinesOf(c, n, "mwk")
    BY MachinesAreReplicas
  <2> QED BY <2>1, <2>2 DEF Roles
<1>2. \A v \in M : f[v] = v[d]
  OBVIOUS
<1>3. SumFunction(f) = SumFunctionOnSet(f, M)
  BY DEF SumFunction
<1> HIDE DEF f
<1>4. SumFunctionOnSet(f, M) = Weight(Replicas(c)["wk"], Machine(c, "wk"), d)
  BY <1>2, RoleWeighsItsReplicas DEF Roles
<1>5. SumFunction([v \in W |-> v[d]]) = SumFunction(f)
  BY <1>1 DEF f
<1> QED BY <1>3, <1>4, <1>5

\* The machines of a run fit when they are made.
LEMMA CreateFits == SizingInv /\ Create => SizingInv'
<1> SUFFICES ASSUME SizingInv, Create PROVE SizingInv'
  OBVIOUS
<1>1. PICK n \in Eligible(cfg, pve) : pve' = [pve EXCEPT !.vms = @ \union Machines(cfg, n)]
  BY DEF Create
<1>2. /\ cfg' = cfg /\ answer' = answer /\ answer = "pass" /\ sound' = sound
      /\ created' = TRUE /\ ~created
  BY DEF Create
<1>3. IsConfiguration(cfg) /\ IsInstallation(pve) /\ \A v \in pve.vms : v.id[1] \notin Roles
  BY <1>2, CfgsAssumption DEF SizingInv
<1>4. /\ DOMAIN pve' = DOMAIN pve
      /\ pve'.nodes = pve.nodes /\ pve'.stores = pve.stores
      /\ pve'.nodesAnswer = pve.nodesAnswer /\ pve'.vmsAnswer = pve.vmsAnswer
      /\ pve'.storesAnswer = pve.storesAnswer
      /\ pve'.vms = pve.vms \union Machines(cfg, n)
  BY <1>1, <1>3 DEF IsInstallation
<1> HIDE DEF Create
<1>5. HostCapacity(cfg, pve') = HostCapacity(cfg, pve)
  BY <1>4, HostStays
<1>6. \A d \in Dims : TakenIn(cfg, pve', d) = TakenIn(cfg, pve, d) + PlanFor(cfg)[d]
  BY <1>3, <1>4, TakenWithTheRun
<1>7. IsInstallation(pve')
  <2>1. IsFiniteSet(Machines(cfg, n))
    <3> DEFINE f == [v \in Machines(cfg, n) |-> v["cpu"]]
    <3>1. \A v \in Machines(cfg, n) : f[v] = v["cpu"]
      OBVIOUS
    <3> HIDE DEF f
    <3> QED BY <1>3, <3>1, RunWeighsItsPlan DEF Dims
  <2>2. \A v \in Machines(cfg, n) :
          /\ DOMAIN v = {"id", "node", "qemu", "running", "cpu", "mem", "disk"}
          /\ {v.cpu, v.mem, v.disk} \subseteq Nat
          /\ {v.qemu, v.running} \subseteq BOOLEAN
    <3>1. \A r \in Roles : \A v \in MachinesOf(cfg, n, r) :
            /\ DOMAIN v = {"id", "node", "qemu", "running", "cpu", "mem", "disk"}
            /\ v.cpu \in Nat /\ v.mem \in Nat /\ v.disk \in Nat
            /\ v.qemu \in BOOLEAN /\ v.running \in BOOLEAN
      <4>1. \A r \in Roles : /\ Machine(cfg, r).cpu \in Nat /\ Machine(cfg, r).mem \in Nat
                            /\ Machine(cfg, r).disk \in Nat
        BY <1>3, PlanIsNumber DEF Dims
      <4>2. \A r, i : DOMAIN MachineOf(cfg, n, r, i)
                        = {"id", "node", "qemu", "running", "cpu", "mem", "disk"}
        BY DEF MachineOf
      <4>3. \A r \in Roles : \A i :
              /\ MachineOf(cfg, n, r, i).cpu \in Nat /\ MachineOf(cfg, n, r, i).mem \in Nat
              /\ MachineOf(cfg, n, r, i).disk \in Nat
              /\ MachineOf(cfg, n, r, i).qemu \in BOOLEAN
              /\ MachineOf(cfg, n, r, i).running \in BOOLEAN
        BY <4>1 DEF MachineOf
      <4> QED BY <4>2, <4>3 DEF MachinesOf
    <3> QED BY <1>3, <3>1, MachinesAreReplicas DEF Roles
  <2>3. IsFiniteSet(pve'.vms)
    <3>1. IsFiniteSet(pve.vms)
      BY <1>3 DEF IsInstallation
    <3> QED BY <1>4, <2>1, <3>1, FS_Union
  <2> QED BY <1>3, <1>4, <2>2, <2>3 DEF IsInstallation
<1>8. CreatedFits'
  <2> DEFINE host == HostCapacity(cfg, pve')
             Carried(d) == (IF d = "cpu" THEN 1000 ELSE 1)
                           * SumFunction([v \in {v \in pve'.vms : v.id[1] = "wk"} |-> v[d]])
             shares == AllocationsFor(cfg)
  <2>1. ASSUME sound, NEW d \in Judged(host) \ {"cpu"}
        PROVE  100 * TakenIn(cfg, pve', d) <= (100 + Tolerance(cfg.tolerance)) * host[d]
    <3>1. d \in Dims
      BY DEF Judged
    <3>2. (ExistingUsage(cfg, pve)[d] + PlanFor(cfg)[d]) * 100
            <= (100 + Tolerance(cfg.tolerance)) * HostCapacity(cfg, pve)[d]
      BY <1>2, <1>5, <2>1 DEF SizingInv, Within
    <3>3. TakenIn(cfg, pve', d) = ExistingUsage(cfg, pve)[d] + PlanFor(cfg)[d]
      BY <1>6, <3>1, UsageIsTaken
    <3>4. TakenIn(cfg, pve', d) \in Nat
      BY <1>7, <3>1, WeighedAreMachines
    <3> QED BY <1>5, <3>2, <3>3, <3>4
  <2>2. ASSUME PlanAllocations(cfg) # {}, NEW d \in {"cpu", "mem"}
        PROVE  shares.system[d] + 3 * shares.bucket[d] <= Carried(d)
    <3>1. SumFunction([v \in {v \in pve'.vms : v.id[1] = "wk"} |-> v[d]])
            = Weight(Replicas(cfg)["wk"], Machine(cfg, "wk"), d)
      <4> DEFINE q == pve'
      <4>1. d \in Dims /\ q.vms = pve.vms \union Machines(cfg, n)
        BY <1>4 DEF Dims
      <4> HIDE DEF q
      <4>2. SumFunction([v \in {v \in q.vms : v.id[1] = "wk"} |-> v[d]])
              = Weight(Replicas(cfg)["wk"], Machine(cfg, "wk"), d)
        BY <1>3, <4>1, WorkersWeighTheirPlan
      <4> QED BY <4>2 DEF q
    <3> QED BY <1>3, <2>2, <3>1, SharesAreCarried
  <2>3. \A d : Taken(d)' = TakenIn(cfg, pve', d)
    BY <1>2 DEF Taken, TakenIn, Weighed
  <2> HIDE DEF host, Carried, shares
  <2>4. sound => \A d \in Judged(host) \ {"cpu"} :
                   100 * Taken(d)' <= (100 + Tolerance(cfg.tolerance)) * host[d]
    BY <2>1, <2>3
  <2>5. PlanAllocations(cfg) # {} =>
          \A d \in {"cpu", "mem"} : shares.system[d] + 3 * shares.bucket[d] <= Carried(d)
    BY <2>2
  <2> QED BY <1>2, <2>4, <2>5 DEF CreatedFits, host, Carried, shares
<1> QED BY <1>2, <1>7, <1>8 DEF SizingInv

\* What others change leaves an installation that can be added up, without
\* machines of the run, and nothing that a preflight could still vouch for.
LEMMA OthersChange ==
  ASSUME SizingInv, NEW site, Changes(site),
         IsInstallation(site), \A v \in site.vms : v.id[1] \notin Roles
  PROVE  SizingInv'
<1>1. ~created /\ created' = FALSE /\ sound' = FALSE /\ pve' = site /\ cfg' = cfg
  BY DEF Changes, SizingInv
<1>2. CreatedFits'
  BY <1>1 DEF CreatedFits
<1> QED BY <1>1, <1>2 DEF SizingInv

\* Every step keeps the invariant.
LEMMA StepIsSized == SizingInv /\ [SizingNext]_sizingVars => SizingInv'
<1> SUFFICES ASSUME SizingInv, [SizingNext]_sizingVars PROVE SizingInv'
  OBVIOUS
<1> USE DEF SizingInv
<1>1. CASE Judge
  <2>1. /\ cfg' = cfg /\ pve' = pve /\ created' = created /\ answer' = Preflight(cfg, pve)
        /\ created = FALSE
    BY <1>1 DEF Judge
  <2>2. ASSUME answer' = "pass", sound'
        PROVE  Within(PlanFor(cfg), HostCapacity(cfg, pve), ExistingUsage(cfg, pve), cfg.tolerance)
    <3>1. Inventory(cfg, pve) # NoAnswer /\ pve.vmsAnswer /\ ~cfg.overcommit
      BY <1>1, <2>2 DEF Judge
    <3> QED BY <2>1, <2>2, <3>1, CfgsAssumption, JudgeFindsWithin
  <2>3. CreatedFits'
    BY <2>1 DEF CreatedFits
  <2> QED BY <2>1, <2>2, <2>3
<1>2. CASE Create
  BY <1>2, CreateFits
<1>3. CASE Restart
  <2>1. /\ cfg' \in Cfgs /\ pve' = pve /\ created' = created /\ answer' = "none"
        /\ created = FALSE
    BY <1>3 DEF Restart
  <2>2. CreatedFits'
    BY <2>1 DEF CreatedFits
  <2> QED BY <2>1, <2>2
<1>4. CASE PowerChanges
  <2>1. PICK v \in pve.vms :
          Changes([pve EXCEPT !.vms = (@ \ {v}) \union {[v EXCEPT !.running = ~@]}])
    BY <1>4 DEF PowerChanges
  <2> DEFINE w == [v EXCEPT !.running = ~@]
             site == [pve EXCEPT !.vms = (@ \ {v}) \union {w}]
  <2>2. \A u \in pve.vms : u.id[1] \notin Roles
    BY <2>1 DEF Changes
  <2>3. /\ DOMAIN w = {"id", "node", "qemu", "running", "cpu", "mem", "disk"}
        /\ w.cpu = v.cpu /\ w.mem = v.mem /\ w.disk = v.disk /\ w.id = v.id /\ w.qemu = v.qemu
        /\ w.running \in BOOLEAN
    BY DEF IsInstallation
  <2> HIDE DEF w
  <2>4. /\ DOMAIN site = DOMAIN pve /\ site.nodes = pve.nodes /\ site.stores = pve.stores
        /\ site.nodesAnswer = pve.nodesAnswer /\ site.vmsAnswer = pve.vmsAnswer
        /\ site.storesAnswer = pve.storesAnswer
        /\ site.vms = (pve.vms \ {v}) \union {w}
    BY DEF IsInstallation
  <2> HIDE DEF site
  <2>5. IsFiniteSet(site.vms)
    <3>1. IsFiniteSet(pve.vms \ {v})
      BY FS_RemoveElement DEF IsInstallation
    <3> QED BY <2>4, <3>1, FS_AddElement
  <2>6. IsInstallation(site)
    BY <2>3, <2>4, <2>5 DEF IsInstallation
  <2>7. \A u \in site.vms : u.id[1] \notin Roles
    BY <2>2, <2>3, <2>4
  <2>8. Changes(site)
    BY <2>1 DEF site, w
  <2> QED BY <2>6, <2>7, <2>8, OthersChange
<1>5. CASE NodeChanges
  <2>1. PICK n \in DOMAIN pve.nodes : Changes([pve EXCEPT !.nodes[n].online = ~@])
    BY <1>5 DEF NodeChanges
  <2> DEFINE site == [pve EXCEPT !.nodes[n].online = ~@]
  <2>2. \A u \in pve.vms : u.id[1] \notin Roles
    BY <2>1 DEF Changes
  <2>3. pve.nodes[n] \in [online : BOOLEAN, cpu : Nat, mem : Nat]
    BY DEF IsInstallation
  <2>4. /\ DOMAIN site = DOMAIN pve /\ site.vms = pve.vms /\ site.stores = pve.stores
        /\ site.nodesAnswer = pve.nodesAnswer /\ site.vmsAnswer = pve.vmsAnswer
        /\ site.storesAnswer = pve.storesAnswer
        /\ site.nodes = [pve.nodes EXCEPT ![n].online = ~@]
    BY DEF IsInstallation
  <2>5. [pve.nodes[n] EXCEPT !.online = ~@] \in [online : BOOLEAN, cpu : Nat, mem : Nat]
    BY <2>3
  <2> HIDE DEF site
  <2>6. /\ DOMAIN site.nodes = DOMAIN pve.nodes
        /\ \A k \in DOMAIN pve.nodes : site.nodes[k] \in [online : BOOLEAN, cpu : Nat, mem : Nat]
    BY <2>4, <2>5 DEF IsInstallation
  <2>7. IsInstallation(site)
    BY <2>4, <2>6 DEF IsInstallation
  <2>8. Changes(site)
    BY <2>1 DEF site
  <2> QED BY <2>2, <2>4, <2>7, <2>8, OthersChange
<1>6. CASE AnswersChange
  <2>1. PICK field \in {"nodesAnswer", "vmsAnswer", "storesAnswer"} :
          Changes([pve EXCEPT ![field] = ~@])
    BY <1>6 DEF AnswersChange
  <2> DEFINE site == [pve EXCEPT ![field] = ~@]
  <2>2. \A u \in pve.vms : u.id[1] \notin Roles
    BY <2>1 DEF Changes
  <2>3. IsInstallation(site) /\ site.vms = pve.vms
    BY DEF IsInstallation
  <2> HIDE DEF site
  <2>4. Changes(site)
    BY <2>1 DEF site
  <2> QED BY <2>2, <2>3, <2>4, OthersChange
<1>7. CASE UNCHANGED sizingVars
  BY <1>7 DEF sizingVars, CreatedFits, Taken
<1> QED
  BY <1>1, <1>2, <1>3, <1>4, <1>5, <1>6, <1>7 DEF SizingNext

\* The invariant, always.
LEMMA AlwaysSized == SizingSpec => []SizingInv
BY InitIsSized, StepIsSized, PTL DEF SizingSpec

\* Machines that a run makes after a preflight that saw everything fit the
\* installation, whatever it is and whoever changes it, and its workers carry
\* what the plan gave to the system and to three tenants (Create, after
\* preflightCapacity).
THEOREM MachinesFit == SizingSpec => []CreatedFits
BY AlwaysSized, PTL DEF SizingInv

\* A plan that is within the tolerance of a busier installation is within
\* that of a quieter one.
LEMMA QuieterIsWithin ==
  ASSUME NEW c, IsConfiguration(c), NEW p, IsInstallation(p), NEW q, IsInstallation(q),
         Busier(p, q), NEW pct \in Int,
         Within(PlanFor(c), HostCapacity(cfg, q), ExistingUsage(cfg, q), pct)
  PROVE  Within(PlanFor(c), HostCapacity(cfg, p), ExistingUsage(cfg, p), pct)
<1> SUFFICES ASSUME NEW d \in Judged(HostCapacity(cfg, p)) \ {"cpu"}
             PROVE  (ExistingUsage(cfg, p)[d] + PlanFor(c)[d]) * 100
                      <= (100 + Tolerance(pct)) * HostCapacity(cfg, p)[d]
  BY DEF Within
<1>1. d \in Dims /\ d \in Judged(HostCapacity(cfg, q)) \ {"cpu"}
  BY DEF Busier, Judged
<1> DEFINE u == ExistingUsage(cfg, p)[d]
           v == ExistingUsage(cfg, q)[d]
           g == HostCapacity(cfg, p)[d]
           h == HostCapacity(cfg, q)[d]
           w == PlanFor(c)[d]
           t == 100 + Tolerance(pct)
<1>2. v >= u /\ h <= g
  BY <1>1 DEF Busier
<1>3. u \in Nat /\ v \in Nat /\ g \in Nat /\ h \in Nat /\ t \in Nat
  BY <1>1, UsageIsTaken, WeighedAreMachines, HostIsNumber DEF Tolerance
<1>4. w \in Nat
  <2>1. \A a, b, x, y \in Nat : a + b + x + y \in Nat
    OBVIOUS
  <2> QED BY <1>1, <2>1, PlanIsNumber DEF Roles
<1>5. (v + w) * 100 <= t * h
  BY <1>1 DEF Within
<1> HIDE DEF u, v, g, h, w, t
<1>6. t * h <= t * g /\ t * h \in Nat /\ t * g \in Nat
  BY <1>2, <1>3
<1>7. (u + w) * 100 <= (v + w) * 100
  BY <1>2, <1>3, <1>4
<1>8. (u + w) * 100 <= t * g
  BY <1>3, <1>4, <1>5, <1>6, <1>7
<1> QED BY <1>8 DEF u, g, w, t

\* What the dry run says of the capacity holds for a run that follows: when
\* the installation got busier a refusal stays one, when it got quieter what
\* fits still passes, and a run never advises what the dry run did not
\* (planCapacity, preflightCapacity).
THEOREM DryRunHolds == SizingSpec => LoadNeverHelps
<1> DEFINE Holds ==
      cfg' = cfg =>
        /\ Busier(pve, pve') /\ PlanCapacity(cfg, pve).says = "abort" /\ ~cfg.overcommit
             => Preflight(cfg, pve') # "pass"
        /\ Busier(pve', pve) /\ PlanCapacity(cfg, pve).says \in {"fits", "tight"}
             => Preflight(cfg, pve') = "pass"
        /\ Preflight(cfg, pve') = "refuse, try k3s" /\ pve' = pve
             => PlanCapacity(cfg, pve).k3s
<1>1. SizingInv /\ SizingInv' => Holds
  <2> SUFFICES ASSUME SizingInv, SizingInv', cfg' = cfg PROVE Holds
    OBVIOUS
  <2> DEFINE q == pve'
             within(p) == Within(PlanFor(cfg), HostCapacity(cfg, p), ExistingUsage(cfg, p),
                                 cfg.tolerance)
  <2>1. /\ IsConfiguration(cfg) /\ cfg.tolerance \in Int
        /\ IsInstallation(pve) /\ IsInstallation(q)
    BY CfgsAssumption DEF SizingInv, IsConfiguration
  <2> HIDE DEF q
  <2>2. ASSUME Busier(pve, q), PlanCapacity(cfg, pve).says = "abort", ~cfg.overcommit
        PROVE  Preflight(cfg, q) # "pass"
    <3>1. /\ Inventory(cfg, pve) # NoAnswer /\ pve.vmsAnswer
          /\ Inventory(cfg, q) # NoAnswer /\ q.vmsAnswer
      BY <2>2 DEF Busier
    <3>2. ~ within(pve)
      BY <2>1, <2>2, <3>1, JudgeFindsWithin
    <3>3. ~ within(q)
      BY <2>1, <2>2, <3>2, QuieterIsWithin
    <3> QED BY <2>1, <2>2, <3>1, <3>3, JudgeFindsWithin
  <2>3. ASSUME Busier(q, pve), PlanCapacity(cfg, pve).says \in {"fits", "tight"}
        PROVE  Preflight(cfg, q) = "pass"
    <3>1. /\ Inventory(cfg, pve) # NoAnswer /\ pve.vmsAnswer
          /\ Inventory(cfg, q) # NoAnswer /\ q.vmsAnswer
      BY <2>3 DEF Busier
    <3>2. within(pve)
      BY <2>1, <2>3, <3>1, JudgeFindsWithin
    <3>3. within(q)
      BY <2>1, <2>3, <3>2, QuieterIsWithin
    <3> QED BY <2>1, <3>1, <3>3, JudgeFindsWithin
  <2>4. Preflight(cfg, pve) = "refuse, try k3s" => PlanCapacity(cfg, pve).k3s
    BY DEF Preflight, PlanCapacity
  <2>5. Preflight(cfg, q) = "refuse, try k3s" /\ q = pve => PlanCapacity(cfg, pve).k3s
    BY <2>4
  <2>6. /\ Busier(pve, q) /\ PlanCapacity(cfg, pve).says = "abort" /\ ~cfg.overcommit
             => Preflight(cfg, q) # "pass"
        /\ Busier(q, pve) /\ PlanCapacity(cfg, pve).says \in {"fits", "tight"}
             => Preflight(cfg, q) = "pass"
    BY <2>2, <2>3
  <2> QED BY <2>5, <2>6, Zenon DEF q
<1>2. SizingInv /\ SizingInv' => [Holds]_sizingVars
  BY <1>1
<1> QED BY <1>2, AlwaysSized, PTL DEF LoadNeverHelps

------------------------------------------------------------------------------
(* The budget gate (Estimates, Feasibility).                                *)

\* A set of naturals that is not empty has a least element.
LEMMA MinIsLeast ==
  ASSUME NEW S \in SUBSET Nat, S # {}
  PROVE  Min(S) \in S /\ \A x \in S : Min(S) <= x
<1>1. PICK m \in S : \A x \in S : ~ (<<x, m>> \in OpToRel(<, Nat))
  BY NatLessThanWellFounded, WFMin
<1>2. \A x \in S : m <= x
  <2>1. OpToRel(<, Nat) = {ss \in Nat \X Nat : ss[1] < ss[2]}
    BY DEF OpToRel
  <2>2. \A x \in S : ~ (x < m)
    BY <1>1, <2>1
  <2> QED BY <2>2
<1> QED BY <1>2 DEF Min

\* What the applications and the database of a workload need is a natural
\* number of processors and of memory.
LEMMA ResourcesAreNumbers ==
  ASSUME NEW n, IsNeed(n), NEW d \in {"cpu", "mem"}
  PROVE  AppResources(n.apps, d) \in Nat /\ DBResources(n.db)[d] \in Nat
<1> DEFINE A == {g \in n.apps : g.count > 0}
           f == [g \in A |-> g.count * Template(g)[d]]
<1>1. IsFiniteSet(A)
  <2>1. A \in SUBSET n.apps
    OBVIOUS
  <2> QED BY <2>1, FS_Subset DEF IsNeed
<1>2. \A g \in A : g.count * Template(g)[d] \in Nat
  <2> SUFFICES ASSUME NEW g \in A PROVE g.count * Template(g)[d] \in Nat
    OBVIOUS
  <2>1. g.count \in Nat /\ g.cpu \in Int /\ g.mem \in Int
    BY DEF IsNeed
  <2>2. Template(g)[d] \in Nat
    BY <2>1 DEF Template
  <2> QED BY <2>1, <2>2
<1>3. \A g \in DOMAIN f : f[g] \in Nat
  BY <1>2
<1>4. DOMAIN f = A /\ AppResources(n.apps, d) = SumFunction(f)
  BY DEF AppResources
<1> HIDE DEF A, f
<1>5. AppResources(n.apps, d) \in Nat
  BY <1>1, <1>3, <1>4, TotalIsNumber
<1>6. DBResources(n.db)[d] \in Nat
  <2>1. n.db \in Int
    BY DEF IsNeed
  <2> QED BY <2>1 DEF DBResources, AtLeast
<1> QED BY <1>5, <1>6

\* The machines a workload needs on a vendor.
Nodes(v, n) == ProjectShape(n).cpNodes + WorkersFor(ProjectShape(n), CheapInstance[v])

\* It needs some, and of a budget it needs the same.
LEMMA NodesAreNumbers ==
  ASSUME NEW n, IsNeed(n), NEW v \in Priced
  PROVE  Nodes(v, n) \in Nat
<1>1. AppResources(n.apps, "cpu") \in Nat /\ AppResources(n.apps, "mem") \in Nat
      /\ DBResources(n.db).cpu \in Nat /\ DBResources(n.db).mem \in Nat
  BY ResourcesAreNumbers
<1>2. \A a \in Nat, b \in Nat \ {0} : CeilDiv(a, b) \in Nat
  BY DEF CeilDiv
<1>3. ProjectShape(n).cpu \in Nat /\ ProjectShape(n).mem \in Nat /\ ProjectShape(n).cpNodes \in Nat
  <2> DEFINE cpu == AppResources(n.apps, "cpu") + DBResources(n.db)["cpu"] + 2000
             mem == AppResources(n.apps, "mem") + DBResources(n.db)["mem"] + 4096
  <2>1. ProjectShape(n) = [cpu |-> CeilDiv(133 * cpu, 100), mem |-> CeilDiv(133 * mem, 100),
                           cpNodes |-> CPNodes(n.resilience)]
    BY DEF ProjectShape
  <2>2. 133 * cpu \in Nat /\ 133 * mem \in Nat
    BY <1>1
  <2>3. CPNodes(n.resilience) \in Nat
    BY DEF CPNodes
  <2> HIDE DEF cpu, mem
  <2>4. CeilDiv(133 * cpu, 100) \in Nat /\ CeilDiv(133 * mem, 100) \in Nat
    BY <1>2, <2>2
  <2> QED BY <2>1, <2>3, <2>4
<1>4. CheapInstance[v].cpu \in Nat \ {0} /\ CheapInstance[v].mem \in Nat \ {0}
  BY DEF Priced, CheapInstance
<1>5. WorkersFor(ProjectShape(n), CheapInstance[v]) \in Nat
  BY <1>2, <1>3, <1>4 DEF WorkersFor, AtLeast
<1> QED BY <1>3, <1>5 DEF Nodes

\* What is priced costs a natural number: the machines, the storage and the
\* traffic.
LEMMA CostIsNumber ==
  ASSUME NEW n, IsNeed(n), NEW q, IsQuote(q), NEW v \in Priced, q[<<v, "server">>] # NoAnswer
  PROVE  /\ PriceProvider(v, n, q)
              = Nodes(v, n) * q[<<v, "server">>] + StorageCost(v, n, q) + EgressCost(v, n, q)
         /\ Nodes(v, n) * q[<<v, "server">>] \in Nat
         /\ StorageCost(v, n, q) \in Nat /\ EgressCost(v, n, q) \in Nat
         /\ PriceProvider(v, n, q) \in Nat
<1>1. q[<<v, "server">>] \in Nat /\ q[<<v, "gb">>] \in Nat \union {NoAnswer}
      /\ q[<<v, "egress">>] \in Nat \union {NoAnswer}
  BY DEF IsQuote
<1>2. n.db \in Int /\ n.egress \in Int
  BY DEF IsNeed
<1>3. Nodes(v, n) * q[<<v, "server">>] \in Nat
  BY <1>1, NodesAreNumbers
<1>4. \A a \in Int, b \in Nat : ~ (a <= 0) => a * b \in Nat
  OBVIOUS
<1>5. StorageCost(v, n, q) \in Nat /\ EgressCost(v, n, q) \in Nat
  BY <1>1, <1>2, <1>4 DEF StorageCost, EgressCost
<1>6. PriceProvider(v, n, q)
        = Nodes(v, n) * q[<<v, "server">>] + StorageCost(v, n, q) + EgressCost(v, n, q)
  BY DEF PriceProvider, Nodes
<1>7. \A a, b, c \in Nat : a + b + c \in Nat
  OBVIOUS
<1> QED BY <1>3, <1>5, <1>6, <1>7

\* The row of a vendor that is priced.
LEMMA RowSaysCost ==
  ASSUME NEW n, IsNeed(n), NEW q, IsQuote(q), NEW v \in Priced
  PROVE  /\ Check(n, q).row[v] = Row(v, n, q)
         /\ q[<<v, "server">>] = NoAnswer => Row(v, n, q) = [cost |-> 0, verdict |-> "infeasible"]
         /\ q[<<v, "server">>] # NoAnswer =>
              Row(v, n, q) = [cost |-> PriceProvider(v, n, q),
                              verdict |-> VerdictFor(PriceProvider(v, n, q), n.budgetUSD)]
<1>1. Check(n, q).row[v] = Row(v, n, q)
  BY DEF Check
<1>2. q[<<v, "server">>] = NoAnswer => PriceProvider(v, n, q) = NoAnswer
  BY DEF PriceProvider
<1>3. q[<<v, "server">>] # NoAnswer => PriceProvider(v, n, q) # NoAnswer
  BY CostIsNumber, NoAnswerIsNoNumber
<1> QED BY <1>1, <1>2, <1>3 DEF Row


\* The vendors that cost something, and those that leave room in the budget.
Cost(v, n, q) == Row(v, n, q).cost
Paid(n, q) == {v \in Priced : Cost(v, n, q) > 0}
Good(n, q) == {v \in Paid(n, q) : Row(v, n, q).verdict = "comfortable"}

\* Whoever is recommended leaves room in the budget and is the cheapest that
\* does; the floor is the least of the costs.
LEMMA RecommendedIsCheapest ==
  ASSUME NEW n, NEW q
  PROVE  /\ Check(n, q).recommended # "" =>
              /\ Check(n, q).recommended \in Good(n, q)
              /\ \A w \in Good(n, q) : Cost(Check(n, q).recommended, n, q) <= Cost(w, n, q)
         /\ Check(n, q).floor = IF Paid(n, q) = {} THEN 0
                                ELSE Min({Cost(v, n, q) : v \in Paid(n, q)})
         /\ n.budgetUSD > 0 /\ Check(n, q).floor > n.budgetUSD => "floor" \in Check(n, q).blocking
<1> DEFINE row == [v \in Priced \union DOMAIN FreeTier |-> Row(v, n, q)]
           paid == {v \in Priced : row[v].cost > 0}
           good == {v \in paid : row[v].verdict = "comfortable"}
           best == {v \in good : \A w \in good : row[v].cost <= row[w].cost}
           order == <<"aws", "azure", "gcp", "hetzner">>
           places == {i \in DOMAIN order : order[i] \in best}
           c == Check(n, q)
<1>1. /\ c.floor = IF paid = {} THEN 0 ELSE Min({row[v].cost : v \in paid})
      /\ c.recommended = IF best = {} THEN "" ELSE order[Min(places)]
      /\ n.budgetUSD > 0 /\ c.floor > n.budgetUSD => "floor" \in c.blocking
  BY DEF Check
<1>2. best # {} => order[Min(places)] \in best
  <2> SUFFICES ASSUME best # {} PROVE order[Min(places)] \in best
    OBVIOUS
  <2>1. PICK v \in best : TRUE
    OBVIOUS
  <2>2. v \in {"aws", "azure", "gcp", "hetzner"}
    BY DEF Priced, CheapInstance
  <2> HIDE DEF best
  <2>3. \E i \in 1 .. 4 : order[i] = v
    BY <2>2
  <2>4. DOMAIN order = 1 .. 4
    OBVIOUS
  <2>5. places # {} /\ places \in SUBSET Nat
    BY <2>1, <2>3, <2>4
  <2>6. Min(places) \in places
    <3> HIDE DEF places
    <3> QED BY <2>5, MinIsLeast
  <2> QED BY <2>6
<1>3. \A v \in Priced : row[v] = Row(v, n, q)
  OBVIOUS
<1> HIDE DEF order, places, c, row
<1>4. paid = Paid(n, q) /\ good = Good(n, q)
  BY <1>3 DEF Paid, Good, Cost
<1>5. {row[v].cost : v \in paid} = {Cost(v, n, q) : v \in Paid(n, q)}
  BY <1>3, <1>4 DEF Paid, Cost
<1>6. best = {v \in Good(n, q) : \A w \in Good(n, q) : Cost(v, n, q) <= Cost(w, n, q)}
  BY <1>3, <1>4 DEF Good, Paid, Cost
<1> HIDE DEF best, paid, good
<1>7. c.recommended # "" => c.recommended \in best
  BY <1>1, <1>2
<1>8. c.floor = IF Paid(n, q) = {} THEN 0 ELSE Min({Cost(v, n, q) : v \in Paid(n, q)})
  BY <1>1, <1>4, <1>5
<1> QED BY <1>1, <1>6, <1>7, <1>8 DEF c

\* What a vendor costs is a natural number.
LEMMA CostIsNatural ==
  ASSUME NEW n, IsNeed(n), NEW q, IsQuote(q), NEW v \in Priced
  PROVE  Cost(v, n, q) \in Nat
<1>1. CASE q[<<v, "server">>] = NoAnswer
  BY <1>1, RowSaysCost DEF Cost
<1>2. CASE q[<<v, "server">>] # NoAnswer
  BY <1>2, RowSaysCost, CostIsNumber DEF Cost
<1> QED BY <1>1, <1>2

\* What the rows say of the vendors that are priced.
LEMMA CostsAndVerdicts ==
  ASSUME NEW n, IsNeed(n), NEW q, IsQuote(q), NEW v \in Priced
  PROVE  /\ Cost(v, n, q) \in Nat
         /\ v \in Paid(n, q) => q[<<v, "server">>] # NoAnswer
         /\ v \in Paid(n, q) =>
              (v \in Good(n, q) <=> n.budgetUSD <= 0 \/ 1000 * Cost(v, n, q) <= 480 * n.budgetUSD)
<1>1. n.budgetUSD \in Int
  BY DEF IsNeed
<1>2. CASE q[<<v, "server">>] = NoAnswer
  BY <1>2, RowSaysCost DEF Cost, Paid
<1>3. CASE q[<<v, "server">>] # NoAnswer
  <2>1. Cost(v, n, q) \in Nat /\ Row(v, n, q).verdict = VerdictFor(Cost(v, n, q), n.budgetUSD)
    BY <1>3, RowSaysCost, CostIsNumber DEF Cost
  <2>2. Row(v, n, q).verdict = "comfortable"
          <=> n.budgetUSD <= 0 \/ 1000 * Cost(v, n, q) <= 480 * n.budgetUSD
    BY <1>1, <2>1 DEF VerdictFor
  <2> QED BY <1>3, <2>1, <2>2 DEF Good
<1> QED BY <1>2, <1>3

\* The gate's recommendation, for any workload and any prices.
LEMMA GateRecommends ==
  ASSUME NEW n, IsNeed(n), NEW q, IsQuote(q)
  PROVE  /\ Check(n, q).recommended # "" =>
              /\ Check(n, q).recommended \in Priced
              /\ q[<<Check(n, q).recommended, "server">>] # NoAnswer
              /\ n.budgetUSD > 0 => 100 * Cost(Check(n, q).recommended, n, q) <= 48 * n.budgetUSD
              /\ \A p \in Priced : \/ Cost(p, n, q) >= Cost(Check(n, q).recommended, n, q)
                                   \/ Cost(p, n, q) = 0
         /\ n.budgetUSD > 0 /\ Check(n, q).floor > n.budgetUSD =>
              Check(n, q).recommended = "" /\ "floor" \in Check(n, q).blocking
<1> DEFINE r == Check(n, q).recommended
           floor == Check(n, q).floor
           b == n.budgetUSD
           good == Good(n, q)
           paid == Paid(n, q)
           cost == [p \in Priced |-> Cost(p, n, q)]
           room(p) == b <= 0 \/ 1000 * cost[p] <= 480 * b
<1>0. \A p \in Priced : cost[p] = Cost(p, n, q)
  OBVIOUS
<1>1. /\ r # "" => r \in good /\ \A w \in good : cost[r] <= cost[w]
      /\ floor = IF paid = {} THEN 0 ELSE Min({cost[p] : p \in paid})
      /\ b > 0 /\ floor > b => "floor" \in Check(n, q).blocking
  <2>1. /\ r # "" => r \in good /\ \A w \in good : Cost(r, n, q) <= Cost(w, n, q)
        /\ floor = IF paid = {} THEN 0 ELSE Min({Cost(p, n, q) : p \in paid})
        /\ b > 0 /\ floor > b => "floor" \in Check(n, q).blocking
    BY RecommendedIsCheapest
  <2>2. good \subseteq Priced /\ paid \subseteq Priced
    BY DEF Good, Paid
  <2>3. {cost[p] : p \in paid} = {Cost(p, n, q) : p \in paid}
    BY <1>0, <2>2
  <2> HIDE DEF r, floor, b, good, paid, cost
  <2> QED BY <1>0, <2>1, <2>2, <2>3
<1>2. b \in Int
  BY DEF IsNeed
<1>3. good \subseteq paid /\ paid \subseteq Priced
  BY DEF Good, Paid
<1>4. \A p \in Priced : cost[p] \in Nat /\ (p \in paid <=> cost[p] # 0)
  <2> SUFFICES ASSUME NEW p \in Priced PROVE cost[p] \in Nat /\ (p \in paid <=> cost[p] # 0)
    OBVIOUS
  <2>1. Cost(p, n, q) \in Nat /\ cost[p] = Cost(p, n, q)
    BY CostIsNatural
  <2>2. p \in paid <=> cost[p] > 0
    BY <2>1 DEF Paid
  <2> QED BY <2>1, <2>2
<1>5. \A p \in paid : (p \in good <=> room(p)) /\ q[<<p, "server">>] # NoAnswer
  <2> SUFFICES ASSUME NEW p \in paid
               PROVE  /\ p \in good <=> room(p)
                      /\ q[<<p, "server">>] # NoAnswer
    OBVIOUS
  <2>1. p \in Priced
    BY <1>3
  <2> QED BY <2>1, CostsAndVerdicts
<1> HIDE DEF r, floor, b, good, paid, cost, room
<1>6. ASSUME r # ""
      PROVE  /\ r \in paid
             /\ b > 0 => 100 * cost[r] <= 48 * b
             /\ \A p \in Priced : cost[p] >= cost[r] \/ cost[p] = 0
  <2>1. r \in good /\ r \in paid /\ r \in Priced /\ cost[r] \in Nat
    BY <1>1, <1>3, <1>4, <1>6
  <2>2. b <= 0 \/ 1000 * cost[r] <= 480 * b
    <3>1. room(r)
      BY <1>5, <2>1
    <3> QED BY <3>1 DEF room
  <2>3. ASSUME NEW p \in Priced, cost[p] # 0
        PROVE  cost[p] >= cost[r]
    <3>1. cost[p] \in Nat /\ p \in paid
      BY <1>4, <2>3
    <3>2. CASE p \in good
      BY <1>1, <1>6, <2>1, <3>1, <3>2
    <3>3. CASE p \notin good
      <4>1. ~ (b <= 0) /\ ~ (1000 * cost[p] <= 480 * b)
        <5>1. ~ room(p)
          BY <1>5, <3>1, <3>3
        <5> QED BY <5>1 DEF room
      <4> QED BY <1>2, <2>1, <2>2, <3>1, <4>1
    <3> QED BY <3>2, <3>3
  <2>4. b > 0 => 100 * cost[r] <= 48 * b
    BY <1>2, <2>1, <2>2
  <2> QED BY <2>1, <2>3, <2>4
<1>7. ASSUME NEW p \in paid, b > 0, 100 * cost[p] <= 48 * b
      PROVE  ~ (floor > b)
  <2> DEFINE C == {cost[w] : w \in paid}
  <2>1. C \in SUBSET Nat /\ cost[p] \in C /\ cost[p] \in Nat
    BY <1>3, <1>4
  <2>2. floor = Min(C)
    BY <1>1
  <2> HIDE DEF C
  <2>3. Min(C) <= cost[p] /\ Min(C) \in Nat
    BY <2>1, MinIsLeast
  <2>4. floor <= cost[p] /\ floor \in Nat
    BY <2>2, <2>3
  <2>5. b \in Int /\ b > 0 /\ 100 * cost[p] <= 48 * b
    BY <1>2, <1>7
  <2> QED BY <2>1, <2>4, <2>5
<1>8. r # "" => cost[r] = Cost(r, n, q) /\ r \in Priced /\ q[<<r, "server">>] # NoAnswer
  BY <1>0, <1>3, <1>5, <1>6
<1>9. b > 0 /\ floor > b => r = "" /\ "floor" \in Check(n, q).blocking
  BY <1>1, <1>6, <1>7
<1> QED BY <1>6, <1>8, <1>9, <1>0 DEF b, r, floor

\* A session of the gate has a workload and prices.
GateInv == Asks(need) => IsNeed(need) /\ IsQuote(quote)

\* A workload is not the sign that there is none.
LEMMA NeedsAsk == ASSUME NEW n, IsNeed(n) PROVE Asks(n)
BY DEF IsNeed, Asks, NoSession

\* Every edit leaves a workload and prices.
LEMMA AlwaysGate == EstimatesSpec => []GateInv
<1>1. EstimatesInit => GateInv
  BY NeedsAssumption, QuotesAssumption DEF EstimatesInit, GateInv, Asks
<1>2. GateInv /\ [EstimatesNext]_estimatesVars => GateInv'
  <2> SUFFICES ASSUME GateInv, [EstimatesNext]_estimatesVars PROVE GateInv'
    OBVIOUS
  <2>1. CASE SetBudget
    <3>1. Asks(need) /\ quote' = quote
      BY <2>1 DEF SetBudget
    <3>2. PICK b \in Budgets : need' = [need EXCEPT !.budgetUSD = b]
      BY <2>1 DEF SetBudget
    <3>3. IsNeed(need) /\ b \in Int
      BY <3>1, EditsAssumption DEF GateInv
    <3>4. IsNeed(need')
      BY <3>2, <3>3 DEF IsNeed
    <3> QED BY <3>1, <3>4 DEF GateInv
  <2>2. CASE SetNeed
    <3>1. Asks(need) /\ quote' = quote
      BY <2>2 DEF SetNeed
    <3>2. PICK n \in Needs : need' = [n EXCEPT !.budgetUSD = need.budgetUSD]
      BY <2>2 DEF SetNeed
    <3>3. IsNeed(n) /\ need.budgetUSD \in Int
      BY <3>1, NeedsAssumption DEF GateInv, IsNeed
    <3>4. IsNeed(need')
      BY <3>2, <3>3 DEF IsNeed
    <3> QED BY <3>1, <3>4 DEF GateInv
  <2>3. CASE QuoteMoves
    <3>1. Asks(need) /\ need' = need /\ IsQuote(quote)
      BY <2>3 DEF QuoteMoves, GateInv
    <3>2. PICK k \in DOMAIN quote, a \in Amounts \union {NoAnswer} :
            quote' = [quote EXCEPT ![k] = a]
      BY <2>3 DEF QuoteMoves
    <3>3. IsQuote(quote')
      BY <3>1, <3>2, EditsAssumption DEF IsQuote
    <3> QED BY <3>1, <3>3 DEF GateInv
  <2>4. CASE AddMachine \/ SetPlan \/ PriceMoves \/ UNCHANGED estimatesVars
    BY <2>4 DEF GateInv, AddMachine, SetPlan, PriceMoves, estimatesVars
  <2> QED BY <2>1, <2>2, <2>3, <2>4 DEF EstimatesNext
<1> QED BY <1>1, <1>2, PTL DEF EstimatesSpec

\* Whatever is wanted and whatever the vendors ask for it: what the gate
\* recommends was priced, takes at most 48 percent of the budget, nothing
\* that was priced is cheaper, and over the floor of the costs there is no
\* recommendation but a reason (Check, verdictFor, collectBlockingReasons).
THEOREM RecommendationFitsTheBudget == EstimatesSpec => []RecommendationIsAffordable
<1>1. GateInv => RecommendationIsAffordable
  <2> SUFFICES ASSUME GateInv, Asks(need)
               PROVE  \A v \in {Check(need, quote)} :
                        LET paid == {p \in Priced : quote[<<p, "server">>] # NoAnswer}
                            cost(p) == v.row[p].cost
                        IN /\ v.recommended # "" =>
                                /\ v.recommended \in paid
                                /\ need.budgetUSD > 0 =>
                                     100 * cost(v.recommended) <= 48 * need.budgetUSD
                                /\ \A p \in paid : cost(p) >= cost(v.recommended) \/ cost(p) = 0
                           /\ need.budgetUSD > 0 /\ v.floor > need.budgetUSD =>
                                v.recommended = "" /\ "floor" \in v.blocking
    BY DEF RecommendationIsAffordable
  <2>1. IsNeed(need) /\ IsQuote(quote)
    BY DEF GateInv
  <2>2. \A p \in Priced : Check(need, quote).row[p].cost = Cost(p, need, quote)
    BY <2>1, RowSaysCost DEF Cost
  <2> QED BY <2>1, <2>2, GateRecommends
<1> QED BY <1>1, AlwaysGate, PTL

\* Of more the same number costs more.
LEMMA MoreCostsMore == \A a, b, c \in Nat : b <= c => a * b <= a * c
<1> SUFFICES ASSUME NEW a \in Nat, NEW b \in Nat, NEW c \in Nat, b <= c PROVE a * b <= a * c
  OBVIOUS
<1>1. PICK d \in Nat : c = b + d
  <2>1. c - b \in Nat /\ c = b + (c - b)
    OBVIOUS
  <2> QED BY <2>1
<1>2. a * c = a * b + a * d /\ a * d \in Nat /\ a * b \in Nat
  BY <1>1
<1> QED BY <1>2

\* The verdict on a cost gets no worse with the budget and no better with the
\* cost.
LEMMA RankFollows ==
  ASSUME NEW a \in Nat, NEW b \in Nat, NEW x \in Int, NEW y \in Int
  PROVE  /\ 0 < x /\ x <= y => ~ (Rank(VerdictFor(a, y)) > Rank(VerdictFor(a, x)))
         /\ a <= b => ~ (Rank(VerdictFor(b, x)) < Rank(VerdictFor(a, x)))
<1>1. Rank("comfortable") = 0 /\ Rank("tight") = 1 /\ Rank("infeasible") = 2
  BY DEF Rank
<1>2. ASSUME NEW c \in Nat, NEW z \in Int
      PROVE  /\ z <= 0 \/ 1000 * c <= 480 * z => Rank(VerdictFor(c, z)) = 0
             /\ ~ (z <= 0 \/ 1000 * c <= 480 * z) /\ 1000 * c <= 720 * z
                  => Rank(VerdictFor(c, z)) = 1
             /\ ~ (z <= 0 \/ 1000 * c <= 480 * z) /\ ~ (1000 * c <= 720 * z)
                  => Rank(VerdictFor(c, z)) = 2
  BY <1>1 DEF VerdictFor
<1>3. 0 < x /\ x <= y => ~ (Rank(VerdictFor(a, y)) > Rank(VerdictFor(a, x)))
  BY <1>2
<1>4. a <= b => ~ (Rank(VerdictFor(b, x)) < Rank(VerdictFor(a, x)))
  BY <1>2
<1> QED BY <1>3, <1>4

\* The budget is no part of the cost.
LEMMA BudgetIsNoCost ==
  ASSUME NEW n, IsNeed(n), NEW x, NEW q, NEW v \in Priced
  PROVE  PriceProvider(v, [n EXCEPT !.budgetUSD = x], q) = PriceProvider(v, n, q)
<1> DEFINE m == [n EXCEPT !.budgetUSD = x]
<1>1. m.apps = n.apps /\ m.db = n.db /\ m.egress = n.egress /\ m.resilience = n.resilience
  BY DEF IsNeed
<1> HIDE DEF m
<1>2. ProjectShape(m) = ProjectShape(n)
  BY <1>1 DEF ProjectShape
<1>3. StorageCost(v, m, q) = StorageCost(v, n, q) /\ EgressCost(v, m, q) = EgressCost(v, n, q)
  BY <1>1 DEF StorageCost, EgressCost
<1>4. PriceProvider(v, m, q) = PriceProvider(v, n, q)
  BY <1>2, <1>3 DEF PriceProvider
<1> QED BY <1>4 DEF m

\* With prices that are not lower the cost is not.
LEMMA DearerCostsMore ==
  ASSUME NEW n, IsNeed(n), NEW q, IsQuote(q), NEW k, IsQuote(k), Dearer(q, k), NEW v \in Priced
  PROVE  /\ q[<<v, "server">>] = NoAnswer <=> k[<<v, "server">>] = NoAnswer
         /\ q[<<v, "server">>] # NoAnswer => PriceProvider(v, n, q) <= PriceProvider(v, n, k)
<1>1. \A p \in {"server", "gb", "egress"} :
         /\ q[<<v, p>>] \in Nat \union {NoAnswer} /\ k[<<v, p>>] \in Nat \union {NoAnswer}
         /\ \/ k[<<v, p>>] = q[<<v, p>>]
            \/ /\ q[<<v, p>>] # NoAnswer /\ k[<<v, p>>] # NoAnswer
               /\ k[<<v, p>>] >= q[<<v, p>>]
  <2> SUFFICES ASSUME NEW p \in {"server", "gb", "egress"}
               PROVE  /\ q[<<v, p>>] \in Nat \union {NoAnswer} /\ k[<<v, p>>] \in Nat \union {NoAnswer}
                      /\ \/ k[<<v, p>>] = q[<<v, p>>]
                         \/ /\ q[<<v, p>>] # NoAnswer /\ k[<<v, p>>] # NoAnswer
                            /\ k[<<v, p>>] >= q[<<v, p>>]
    OBVIOUS
  <2>1. <<v, p>> \in Priced \X {"server", "gb", "egress"}
    OBVIOUS
  <2>2. DOMAIN q = Priced \X {"server", "gb", "egress"}
    BY DEF IsQuote
  <2> DEFINE i == <<v, p>>
  <2>3. i \in DOMAIN q /\ i \in Priced \X {"server", "gb", "egress"}
    BY <2>1, <2>2
  <2> HIDE DEF i
  <2>4. q[i] \in Nat \union {NoAnswer} /\ k[i] \in Nat \union {NoAnswer}
    BY <2>3 DEF IsQuote
  <2>5. k[i] = q[i] \/ (NoAnswer \notin {q[i], k[i]} /\ k[i] >= q[i])
    BY <2>3 DEF Dearer
  <2> QED BY <2>4, <2>5 DEF i
<1>2. n.db \in Int /\ n.egress \in Int
  BY DEF IsNeed
<1>3. \A a \in Int, b, c \in Nat : ~ (a <= 0) /\ b <= c => a * b <= a * c
  <2> SUFFICES ASSUME NEW a \in Int, NEW b \in Nat, NEW c \in Nat, ~ (a <= 0), b <= c
               PROVE  a * b <= a * c
    OBVIOUS
  <2>1. a \in Nat
    OBVIOUS
  <2> QED BY <2>1, MoreCostsMore
<1>4. StorageCost(v, n, q) <= StorageCost(v, n, k)
  BY <1>1, <1>2, <1>3, NoAnswerIsNoNumber DEF StorageCost
<1>5. EgressCost(v, n, q) <= EgressCost(v, n, k)
  BY <1>1, <1>2, <1>3, NoAnswerIsNoNumber DEF EgressCost
<1>6. q[<<v, "server">>] = NoAnswer <=> k[<<v, "server">>] = NoAnswer
  BY <1>1
<1>7. ASSUME q[<<v, "server">>] # NoAnswer
      PROVE  PriceProvider(v, n, q) <= PriceProvider(v, n, k)
  <2>1. k[<<v, "server">>] # NoAnswer
    BY <1>6, <1>7
  <2>2. Nodes(v, n) * q[<<v, "server">>] <= Nodes(v, n) * k[<<v, "server">>]
    <3>1. /\ q[<<v, "server">>] \in Nat /\ k[<<v, "server">>] \in Nat
          /\ q[<<v, "server">>] <= k[<<v, "server">>]
      BY <1>1, <1>7, <2>1
    <3> QED BY <3>1, NodesAreNumbers, MoreCostsMore
  <2> DEFINE a == Nodes(v, n) * q[<<v, "server">>]
             b == Nodes(v, n) * k[<<v, "server">>]
             c == StorageCost(v, n, q)
             d == StorageCost(v, n, k)
             g == EgressCost(v, n, q)
             h == EgressCost(v, n, k)
  <2>3. PriceProvider(v, n, q) = a + c + g /\ a \in Nat /\ c \in Nat /\ g \in Nat
    BY <1>7, CostIsNumber
  <2>4. PriceProvider(v, n, k) = b + d + h /\ b \in Nat /\ d \in Nat /\ h \in Nat
    BY <2>1, CostIsNumber
  <2>5. a <= b /\ c <= d /\ g <= h
    BY <1>4, <1>5, <2>2
  <2> HIDE DEF a, b, c, d, g, h
  <2> QED BY <2>3, <2>4, <2>5
<1> QED BY <1>6, <1>7

\* The verdict on a vendor.
LEMMA VerdictsFollow ==
  ASSUME NEW n, IsNeed(n), NEW q, IsQuote(q), NEW v \in Priced
  PROVE  /\ \A x \in Int : 0 < n.budgetUSD /\ n.budgetUSD <= x =>
              ~ (Rank(Row(v, [n EXCEPT !.budgetUSD = x], q).verdict) > Rank(Row(v, n, q).verdict))
         /\ \A k : IsQuote(k) /\ Dearer(q, k) =>
              ~ (Rank(Row(v, n, k).verdict) < Rank(Row(v, n, q).verdict))
<1>1. n.budgetUSD \in Int
  BY DEF IsNeed
<1>2. ASSUME NEW x \in Int, 0 < n.budgetUSD, n.budgetUSD <= x
      PROVE  ~ (Rank(Row(v, [n EXCEPT !.budgetUSD = x], q).verdict) > Rank(Row(v, n, q).verdict))
  <2> DEFINE m == [n EXCEPT !.budgetUSD = x]
  <2>1. IsNeed(m) /\ m.budgetUSD = x
    BY DEF IsNeed
  <2>2. PriceProvider(v, m, q) = PriceProvider(v, n, q)
    BY BudgetIsNoCost
  <2> HIDE DEF m
  <2>3. CASE q[<<v, "server">>] = NoAnswer
    <3>1. Row(v, m, q) = Row(v, n, q)
      BY <2>1, <2>3, RowSaysCost
    <3>2. Row(v, n, q).verdict = "infeasible"
      BY <2>3, RowSaysCost
    <3>3. Rank("infeasible") = 2
      BY DEF Rank
    <3>4. ~ (Rank(Row(v, m, q).verdict) > Rank(Row(v, n, q).verdict))
      BY <3>1, <3>2, <3>3
    <3> QED BY <3>4 DEF m
  <2>4. CASE q[<<v, "server">>] # NoAnswer
    <3> DEFINE c == PriceProvider(v, n, q)
    <3>1. c \in Nat
      BY <2>4, CostIsNumber
    <3>2. /\ Row(v, n, q).verdict = VerdictFor(c, n.budgetUSD)
          /\ Row(v, m, q).verdict = VerdictFor(c, x)
      BY <2>1, <2>2, <2>4, RowSaysCost
    <3> HIDE DEF c
    <3>3. ~ (Rank(VerdictFor(c, x)) > Rank(VerdictFor(c, n.budgetUSD)))
      BY <1>1, <1>2, <3>1, RankFollows
    <3> QED BY <3>2, <3>3 DEF m
  <2> QED BY <2>3, <2>4
<1>3. ASSUME NEW k, IsQuote(k), Dearer(q, k)
      PROVE  ~ (Rank(Row(v, n, k).verdict) < Rank(Row(v, n, q).verdict))
  <2>1. CASE q[<<v, "server">>] = NoAnswer
    <3>1. k[<<v, "server">>] = NoAnswer
      BY <1>3, <2>1, DearerCostsMore
    <3>2. Row(v, n, q).verdict = "infeasible" /\ Row(v, n, k).verdict = "infeasible"
      BY <1>3, <2>1, <3>1, RowSaysCost
    <3>3. Rank("infeasible") = 2
      BY DEF Rank
    <3> QED BY <3>2, <3>3
  <2>2. CASE q[<<v, "server">>] # NoAnswer
    <3> DEFINE c == PriceProvider(v, n, q)
               d == PriceProvider(v, n, k)
    <3>1. k[<<v, "server">>] # NoAnswer /\ c <= d
      BY <1>3, <2>2, DearerCostsMore
    <3>2. c \in Nat /\ d \in Nat
      BY <1>3, <2>2, <3>1, CostIsNumber
    <3>3. /\ Row(v, n, q).verdict = VerdictFor(c, n.budgetUSD)
          /\ Row(v, n, k).verdict = VerdictFor(d, n.budgetUSD)
      BY <1>3, <2>2, <3>1, RowSaysCost
    <3> HIDE DEF c, d
    <3>4. ~ (Rank(VerdictFor(d, n.budgetUSD)) < Rank(VerdictFor(c, n.budgetUSD)))
      BY <1>1, <3>1, <3>2, RankFollows
    <3> QED BY <3>3, <3>4
  <2> QED BY <2>1, <2>2
<1> QED BY <1>2, <1>3

\* With the same workload a higher budget makes no verdict worse, and a dearer
\* price makes none better (priceProvider, verdictFor).
THEOREM VerdictsFollowTheMoney == EstimatesSpec => VerdictsAreMonotone
<1> DEFINE Holds ==
      Asks(need) /\ Stated(need) =>
        LET old == Check(need, quote)
            new == Check(need', quote')
            BetterNow(v) == Rank(new.row[v].verdict) < Rank(old.row[v].verdict)
            WorseNow(v) == Rank(new.row[v].verdict) > Rank(old.row[v].verdict)
        IN /\ need' = [need EXCEPT !.budgetUSD = need'.budgetUSD] /\ quote' = quote
              /\ 0 < need.budgetUSD /\ need.budgetUSD <= need'.budgetUSD
              => \A v \in Priced : ~WorseNow(v)
           /\ need' = need /\ Dearer(quote, quote') => \A v \in Priced : ~BetterNow(v)
<1>1. ASSUME GateInv, GateInv', [EstimatesNext]_estimatesVars PROVE Holds
  <2> DEFINE m == need'
             k == quote'
  <2> SUFFICES ASSUME Asks(need), NEW v \in Priced
               PROVE  /\ m = [need EXCEPT !.budgetUSD = m.budgetUSD] /\ k = quote
                         /\ 0 < need.budgetUSD /\ need.budgetUSD <= m.budgetUSD
                         => ~ (Rank(Check(m, k).row[v].verdict)
                                 > Rank(Check(need, quote).row[v].verdict))
                      /\ m = need /\ Dearer(quote, k)
                         => ~ (Rank(Check(m, k).row[v].verdict)
                                 < Rank(Check(need, quote).row[v].verdict))
    OBVIOUS
  <2>1. IsNeed(need) /\ IsQuote(quote)
    BY <1>1 DEF GateInv
  <2>2. Asks(m) => IsNeed(m) /\ IsQuote(k)
    BY <1>1 DEF GateInv, Asks
  <2> HIDE DEF m, k
  <2>3. Check(need, quote).row[v] = Row(v, need, quote)
    BY <2>1, RowSaysCost
  <2>4. ASSUME m = [need EXCEPT !.budgetUSD = m.budgetUSD], k = quote,
               0 < need.budgetUSD, need.budgetUSD <= m.budgetUSD
        PROVE  ~ (Rank(Check(m, k).row[v].verdict) > Rank(Check(need, quote).row[v].verdict))
    <3>1. Asks(m)
      <4>1. DOMAIN m = DOMAIN need
        BY <2>4
      <4>2. DOMAIN need # DOMAIN NoSession
        BY <2>1 DEF IsNeed, NoSession
      <4> QED BY <4>1, <4>2 DEF Asks
    <3>2. IsNeed(m) /\ m.budgetUSD \in Int
      BY <2>2, <3>1 DEF IsNeed
    <3> DEFINE x == m.budgetUSD
    <3>3. x \in Int /\ m = [need EXCEPT !.budgetUSD = x] /\ need.budgetUSD <= x
      BY <2>4, <3>2
    <3>4. Check(m, k).row[v] = Row(v, m, quote)
      BY <2>1, <2>4, <3>2, RowSaysCost
    <3> HIDE DEF x
    <3>5. ~ (Rank(Row(v, [need EXCEPT !.budgetUSD = x], quote).verdict)
               > Rank(Row(v, need, quote).verdict))
      BY <2>1, <2>4, <3>3, VerdictsFollow
    <3> QED BY <2>3, <3>3, <3>4, <3>5
  <2>5. ASSUME m = need, Dearer(quote, k)
        PROVE  ~ (Rank(Check(m, k).row[v].verdict) < Rank(Check(need, quote).row[v].verdict))
    <3>1. IsQuote(k)
      BY <2>1, <2>2, <2>5, NeedsAsk
    <3>2. Check(m, k).row[v] = Row(v, need, k)
      BY <2>1, <2>5, <3>1, RowSaysCost
    <3>3. ~ (Rank(Row(v, need, k).verdict) < Rank(Row(v, need, quote).verdict))
      BY <2>1, <2>5, <3>1, VerdictsFollow
    <3> QED BY <2>3, <3>2, <3>3
  <2> QED BY <2>4, <2>5
<1>2. GateInv /\ GateInv' /\ [EstimatesNext]_estimatesVars => [Holds]_estimatesVars
  BY <1>1
<1>3. EstimatesSpec => [][EstimatesNext]_estimatesVars
  BY DEF EstimatesSpec
<1> QED BY <1>2, <1>3, AlwaysGate, PTL DEF VerdictsAreMonotone

------------------------------------------------------------------------------
(* The bills (Bills, Estimates).                                            *)

\* h is f up to m and goes on with g.
Appends(h, f, m, g, n) ==
  /\ \A i \in 1 .. m : f[i] \in Int /\ h[i] = f[i]
  /\ \A j \in 1 .. n : g[j] \in Int /\ h[m + j] = g[j]

\* A sum over two sequences laid end to end.
LEMMA SumsAppend ==
  ASSUME NEW m \in Nat, NEW n \in Nat, NEW f, NEW g, NEW h, Appends(h, f, m, g, n)
  PROVE  SumFunctionOnSet(h, 1 .. m + n)
           = SumFunctionOnSet(f, 1 .. m) + SumFunctionOnSet(g, 1 .. n)
<1> DEFINE F == SumFunctionOnSet(f, 1 .. m)
           G(k) == SumFunctionOnSet(g, 1 .. k)
           H(k) == SumFunctionOnSet(h, 1 .. m + k)
           B == {k \in 0 .. n : H(k) # F + G(k)}
<1> SUFFICES ASSUME B # {} PROVE FALSE
  OBVIOUS
<1>0. /\ \A i \in 1 .. m : f[i] \in Int /\ h[i] = f[i]
      /\ \A j \in 1 .. n : g[j] \in Int /\ h[m + j] = g[j]
  BY DEF Appends
<1>1. PICK k \in B : \A x \in B : k <= x
  <2>1. B \in SUBSET Nat
    OBVIOUS
  <2> HIDE DEF B
  <2> QED BY <2>1, MinIsLeast
<1>2. k \in 0 .. n /\ H(k) # F + G(k) /\ k \in Nat
  OBVIOUS
<1>3. \A i \in 1 .. m + n : h[i] \in Int
  <2> SUFFICES ASSUME NEW i \in 1 .. m + n PROVE h[i] \in Int
    OBVIOUS
  <2>1. CASE i <= m
    <3>1. i \in 1 .. m
      BY <2>1
    <3>2. f[i] \in Int /\ h[i] = f[i]
      BY <1>0, <3>1
    <3> QED BY <3>2
  <2>2. CASE ~ (i <= m)
    <3>1. i - m \in 1 .. n /\ m + (i - m) = i
      BY <2>2
    <3> QED BY <1>0, <3>1
  <2> QED BY <2>1, <2>2
<1>4. \A x \in Nat : IsFiniteSet(1 .. x)
  BY FS_Interval
<1>5. k # 0
  <2> SUFFICES ASSUME k = 0 PROVE FALSE
    OBVIOUS
  <2>1. m + k = m /\ 1 .. k = {}
    BY <1>2
  <2>2. SumFunctionOnSet(h, 1 .. m) = F /\ F \in Int
    BY <1>0, <1>4, SumsAgree, SumIsInt
  <2>3. G(k) = 0
    BY <2>1, SumOfNone
  <2>4. H(k) = F
    BY <2>1, <2>2
  <2> HIDE DEF F, G, H, B
  <2> QED BY <1>2, <2>2, <2>3, <2>4
<1>6. k - 1 \in 0 .. n /\ H(k - 1) = F + G(k - 1)
  <2>1. k - 1 \in 0 .. n /\ ~ (k <= k - 1)
    BY <1>2, <1>5
  <2>2. k - 1 \notin B
    BY <1>1, <2>1
  <2> QED BY <2>1, <2>2
<1>7. H(k) = h[m + k] + H(k - 1)
  <2> DEFINE S == 1 .. m + k
  <2>1. m + k \in S /\ S \ {m + k} = 1 .. m + (k - 1) /\ S \subseteq 1 .. m + n
    BY <1>2, <1>5
  <2>2. IsFiniteSet(S) /\ \A i \in S : h[i] \in Int
    BY <1>2, <1>3, <1>4, <2>1
  <2> HIDE DEF S
  <2>3. SumFunctionOnSet(h, S) = h[m + k] + SumFunctionOnSet(h, S \ {m + k})
    BY <2>1, <2>2, SumTakes
  <2> QED BY <2>1, <2>3 DEF S
<1>8. G(k) = g[k] + G(k - 1)
  <2> DEFINE S == 1 .. k
  <2>1. k \in S /\ S \ {k} = 1 .. k - 1 /\ S \subseteq 1 .. n
    BY <1>2, <1>5
  <2>2. IsFiniteSet(S) /\ \A i \in S : g[i] \in Int
    BY <1>0, <1>2, <1>4, <2>1
  <2> HIDE DEF S
  <2>3. SumFunctionOnSet(g, S) = g[k] + SumFunctionOnSet(g, S \ {k})
    BY <2>1, <2>2, SumTakes
  <2> QED BY <2>1, <2>3 DEF S
<1>9. h[m + k] = g[k] /\ g[k] \in Int
  BY <1>0, <1>2, <1>5
<1>10. F \in Int /\ G(k - 1) \in Int
  <2>1. F \in Int
    BY <1>0, <1>4, SumIsInt
  <2>2. 1 .. k - 1 \subseteq 1 .. n /\ k - 1 \in Nat
    BY <1>2, <1>5
  <2>3. IsFiniteSet(1 .. k - 1) /\ \A i \in 1 .. k - 1 : g[i] \in Int
    BY <1>0, <1>4, <2>2
  <2> QED BY <2>1, <2>3, SumIsInt
<1> HIDE DEF F, G, H, B
<1> QED BY <1>2, <1>6, <1>7, <1>8, <1>9, <1>10

\* What a bill adds up to when each line counts for what g says.
Measured(b, g) == SumFunction([i \in DOMAIN b |-> g[b[i]]])

\* It is the sum over the parts of a bill.
LEMMA MeasuredParts ==
  ASSUME NEW R, NEW s \in Seq(R), NEW t \in Seq(R), NEW g \in [R -> Int]
  PROVE  /\ Measured(s, g) \in Int
         /\ s \o t \in Seq(R) /\ Measured(s \o t, g) = Measured(s, g) + Measured(t, g)
<1> DEFINE m == Len(s)
           n == Len(t)
           f1 == [i \in DOMAIN s |-> g[s[i]]]
           f2 == [i \in DOMAIN t |-> g[t[i]]]
           f3 == [i \in DOMAIN (s \o t) |-> g[(s \o t)[i]]]
<1>1. m \in Nat /\ n \in Nat /\ DOMAIN s = 1 .. m /\ DOMAIN t = 1 .. n
      /\ DOMAIN (s \o t) = 1 .. m + n /\ s \o t \in Seq(R)
  OBVIOUS
<1>2. \A i \in 1 .. m : f1[i] \in Int /\ f3[i] = f1[i]
  <2> SUFFICES ASSUME NEW i \in 1 .. m PROVE f1[i] \in Int /\ f3[i] = f1[i]
    OBVIOUS
  <2>1. s[i] \in R /\ (s \o t)[i] = s[i] /\ i \in DOMAIN s /\ i \in DOMAIN (s \o t)
    BY <1>1
  <2> QED BY <2>1
<1>3. \A j \in 1 .. n : f2[j] \in Int /\ f3[m + j] = f2[j]
  <2> SUFFICES ASSUME NEW j \in 1 .. n PROVE f2[j] \in Int /\ f3[m + j] = f2[j]
    OBVIOUS
  <2>1. t[j] \in R /\ (s \o t)[m + j] = t[j] /\ j \in DOMAIN t /\ m + j \in DOMAIN (s \o t)
    BY <1>1
  <2> QED BY <2>1
<1>4. DOMAIN f1 = 1 .. m /\ DOMAIN f2 = 1 .. n /\ DOMAIN f3 = 1 .. m + n
  BY <1>1
<1>5. Measured(s, g) = SumFunction(f1) /\ Measured(t, g) = SumFunction(f2)
      /\ Measured(s \o t, g) = SumFunction(f3)
  BY DEF Measured
<1> HIDE DEF m, n, f1, f2, f3
<1>6. SumFunctionOnSet(f3, 1 .. m + n) = SumFunctionOnSet(f1, 1 .. m) + SumFunctionOnSet(f2, 1 .. n)
  <2>1. Appends(f3, f1, m, f2, n)
    BY <1>2, <1>3 DEF Appends
  <2> QED BY <1>1, <2>1, SumsAppend
<1>7. SumFunctionOnSet(f1, 1 .. m) \in Int
  <2>1. IsFiniteSet(1 .. m)
    BY <1>1, FS_Interval
  <2>2. \A i \in 1 .. m : f1[i] \in Int
    BY <1>2
  <2> QED BY <2>1, <2>2, SumIsInt
<1> QED BY <1>1, <1>4, <1>5, <1>6, <1>7 DEF SumFunction

\* With more for each line it is more, with nothing for each line nothing.
LEMMA MeasuredGrows ==
  ASSUME NEW R, NEW s \in Seq(R), NEW g \in [R -> Int], NEW h \in [R -> Int]
  PROVE  /\ (\A r \in R : g[r] <= h[r]) => Measured(s, g) <= Measured(s, h)
         /\ (\A r \in R : g[r] = 0) => Measured(s, g) = 0
         /\ (\A r \in R : g[r] \in Nat) => Measured(s, g) \in Nat
<1> DEFINE n == Len(s)
           f1 == [i \in DOMAIN s |-> g[s[i]]]
           f2 == [i \in DOMAIN s |-> h[s[i]]]
<1>1. n \in Nat /\ DOMAIN s = 1 .. n /\ \A i \in 1 .. n : s[i] \in R
  OBVIOUS
<1>2. \A i \in 1 .. n : f1[i] = g[s[i]] /\ f2[i] = h[s[i]] /\ f1[i] \in Int /\ f2[i] \in Int
  BY <1>1
<1>3. Measured(s, g) = SumFunction(f1) /\ Measured(s, h) = SumFunction(f2)
      /\ DOMAIN f1 = 1 .. n /\ DOMAIN f2 = 1 .. n
  BY <1>1 DEF Measured
<1>4. IsFiniteSet(1 .. n)
  BY <1>1, FS_Interval
<1> HIDE DEF n, f1, f2
<1>5. ASSUME \A r \in R : g[r] <= h[r] PROVE Measured(s, g) <= Measured(s, h)
  <2>1. \A i \in 1 .. n : f1[i] \in Int /\ f2[i] \in Int /\ f1[i] <= f2[i]
    BY <1>1, <1>2, <1>5
  <2>2. SumFunctionOnSet(f1, 1 .. n) <= SumFunctionOnSet(f2, 1 .. n)
    BY <1>4, <2>1, SumMonotone
  <2> QED BY <1>3, <2>2 DEF SumFunction
<1>6. ASSUME \A r \in R : g[r] = 0 PROVE Measured(s, g) = 0
  <2> DEFINE z == 0
  <2>1. z \in Int /\ \A i \in 1 .. n : f1[i] = z
    BY <1>1, <1>2, <1>6
  <2>2. Cardinality(1 .. n) \in Nat
    BY <1>4, FS_CardinalityType
  <2> HIDE DEF z
  <2>3. SumFunctionOnSet(f1, 1 .. n) = Cardinality(1 .. n) * z
    BY <1>4, <2>1, SumOfEqual
  <2>4. SumFunctionOnSet(f1, 1 .. n) = 0
    BY <2>2, <2>3 DEF z
  <2> QED BY <1>3, <2>4 DEF SumFunction
<1>7. ASSUME \A r \in R : g[r] \in Nat PROVE Measured(s, g) \in Nat
  <2>1. \A i \in DOMAIN f1 : f1[i] \in Nat
    BY <1>1, <1>2, <1>3, <1>7
  <2> QED BY <1>3, <1>4, <2>1, TotalIsNumber
<1> QED BY <1>5, <1>6, <1>7

\* A bill of one line or of none.
LEMMA MeasuredLine ==
  ASSUME NEW R, NEW c \in BOOLEAN, NEW l, c => l \in R, NEW g \in [R -> Int]
  PROVE  LineIf(c, l) \in Seq(R) /\ Measured(LineIf(c, l), g) = IF c THEN g[l] ELSE 0
<1>1. CASE c
  <2> DEFINE s == <<l>>
             f == [i \in DOMAIN s |-> g[s[i]]]
  <2>1. l \in R /\ LineIf(c, l) = s /\ s \in Seq(R) /\ DOMAIN s = {1} /\ s[1] = l
    BY <1>1 DEF LineIf
  <2>2. f[1] = g[l] /\ DOMAIN f = {1} /\ g[l] \in Int
    BY <2>1
  <2>3. Measured(s, g) = SumFunction(f)
    BY DEF Measured
  <2> HIDE DEF f, s
  <2>4. SumFunctionOnSet(f, {1}) = Cardinality({1}) * g[l]
    <3>1. \A x \in {1} : f[x] = g[l]
      BY <2>2
    <3> QED BY <2>2, <3>1, SumOfEqual, FS_Singleton
  <2>5. SumFunctionOnSet(f, {1}) = g[l]
    <3>1. Cardinality({1}) = 1
      BY FS_Singleton
    <3> QED BY <2>2, <2>4, <3>1
  <2> QED BY <1>1, <2>1, <2>2, <2>3, <2>5 DEF SumFunction
<1>2. CASE ~ c
  <2>1. LineIf(c, l) = <<>> /\ <<>> \in Seq(R) /\ DOMAIN <<>> = {}
    BY <1>2 DEF LineIf
  <2>2. Measured(<<>>, g) = 0
    BY <2>1, SumOfNone DEF Measured, SumFunction
  <2> QED BY <1>2, <2>1, <2>2
<1> QED BY <1>1, <1>2

\* The lines of a bill.
ServerNames == {"control-plane", "workers", "mgmt"}
DiskNames == {"control-plane disk", "workers disk", "mgmt disk"}
OtherNames ==
  {"managed control-plane", "queue", "objstore", "cache", "postgres", "pods", "nat hours",
   "nat traffic", "egress", "logs", "dns", "lb", "ip", "volumes"}
Rates0 == UNION {[P -> Nat] : P \in SUBSET Catalogue}
RowsOf(names) == [name : names, qty : Nat, rates : Rates0]
BillRows == RowsOf(ServerNames \union DiskNames \union OtherNames)
Others == RowsOf(OtherNames)

TwoRates(a, b, n, m) == [p \in {a, b} |-> IF p = b THEN m ELSE n]

\* The rates of a line.
LEMMA RatesAreRates ==
  ASSUME NEW a \in Catalogue, NEW n \in Nat
  PROVE  /\ [p \in {a} |-> n] \in Rates0
         /\ \A b \in Catalogue, m \in Nat : TwoRates(a, b, n, m) \in Rates0
         /\ \A q : [p \in {x \in {a} : q[x] # NoAnswer} |-> n] \in Rates0
<1>1. [p \in {a} |-> n] \in [{a} -> Nat] /\ {a} \in SUBSET Catalogue
  OBVIOUS
<1>2. ASSUME NEW b \in Catalogue, NEW m \in Nat
      PROVE  TwoRates(a, b, n, m) \in Rates0
  <2>1. /\ [p \in {a, b} |-> IF p = b THEN m ELSE n] \in [{a, b} -> Nat]
        /\ {a, b} \in SUBSET Catalogue
    OBVIOUS
  <2> QED BY <2>1 DEF Rates0, TwoRates
<1>3. ASSUME NEW q
      PROVE  [p \in {x \in {a} : q[x] # NoAnswer} |-> n] \in Rates0
  <2> DEFINE P == {x \in {a} : q[x] # NoAnswer}
  <2>1. [p \in P |-> n] \in [P -> Nat] /\ P \in SUBSET Catalogue
    OBVIOUS
  <2> QED BY <2>1 DEF Rates0
<1>4. [p \in {a} |-> n] \in Rates0
  BY <1>1 DEF Rates0
<1> QED BY <1>2, <1>3, <1>4

\* The line of the machines of a role, and the one of their disks.
MachineLine(name, n, server) == Line(name, n, [p \in {server} |-> 1])
DiskLine(name, n, disk, gb) == Line(DiskOf(name), n, [p \in {disk} |-> gb])

\* The machines of a role: a line for them and one for their disks.
LEMMA ServersMeasured ==
  ASSUME NEW name \in ServerNames, NEW n \in Nat, NEW server \in Catalogue,
         NEW disk \in Catalogue \union {"bundled"}, NEW gb \in Nat, NEW g \in [BillRows -> Int]
  PROVE  /\ ServerLines(name, n, server, disk, gb) \in Seq(BillRows)
         /\ n > 0 => MachineLine(name, n, server) \in BillRows
         /\ n > 0 /\ disk # "bundled" => DiskLine(name, n, disk, gb) \in BillRows
         /\ Measured(ServerLines(name, n, server, disk, gb), g)
              = (IF n > 0 THEN g[MachineLine(name, n, server)] ELSE 0)
                + (IF n > 0 /\ disk # "bundled"
                   THEN g[DiskLine(name, n, disk, gb)] ELSE 0)
<1> DEFINE a == MachineLine(name, n, server)
           b == DiskLine(name, n, disk, gb)
           c == n > 0
           d == n > 0 /\ disk # "bundled"
<1>1. DiskOf(name) \in DiskNames
  BY DEF DiskOf, ServerNames, DiskNames
<1>2. a \in BillRows
  <2>1. [p \in {server} |-> 1] \in Rates0
    BY RatesAreRates
  <2> QED BY <2>1 DEF Line, MachineLine, DiskLine, BillRows, RowsOf
<1>3. d => b \in BillRows
  <2> SUFFICES ASSUME d PROVE b \in BillRows
    OBVIOUS
  <2>1. disk \in Catalogue
    OBVIOUS
  <2>2. [p \in {disk} |-> gb] \in Rates0
    BY <2>1, RatesAreRates
  <2> QED BY <1>1, <2>2 DEF Line, MachineLine, DiskLine, BillRows, RowsOf
<1>4. c \in BOOLEAN /\ d \in BOOLEAN
  OBVIOUS
<1>5. ServerLines(name, n, server, disk, gb) = LineIf(c, a) \o LineIf(d, b)
  BY DEF ServerLines, MachineLine, DiskLine
<1> HIDE DEF a, b, c, d
<1>6. LineIf(c, a) \in Seq(BillRows) /\ Measured(LineIf(c, a), g) = IF c THEN g[a] ELSE 0
  BY <1>2, <1>4, MeasuredLine
<1>7. LineIf(d, b) \in Seq(BillRows) /\ Measured(LineIf(d, b), g) = IF d THEN g[b] ELSE 0
  BY <1>3, <1>4, MeasuredLine
<1>8. /\ LineIf(c, a) \o LineIf(d, b) \in Seq(BillRows)
      /\ Measured(LineIf(c, a) \o LineIf(d, b), g)
           = Measured(LineIf(c, a), g) + Measured(LineIf(d, b), g)
  <2> DEFINE s == LineIf(c, a)
             t == LineIf(d, b)
  <2>1. s \in Seq(BillRows) /\ t \in Seq(BillRows)
    BY <1>6, <1>7
  <2> HIDE DEF s, t
  <2>2. s \o t \in Seq(BillRows) /\ Measured(s \o t, g) = Measured(s, g) + Measured(t, g)
    BY <2>1, MeasuredParts
  <2> QED BY <2>2 DEF s, t
<1>9. /\ ServerLines(name, n, server, disk, gb) \in Seq(BillRows)
      /\ Measured(ServerLines(name, n, server, disk, gb), g)
           = (IF c THEN g[a] ELSE 0) + (IF d THEN g[b] ELSE 0)
  BY <1>5, <1>6, <1>7, <1>8
<1> QED BY <1>2, <1>3, <1>9 DEF a, b, c, d

\* How many things of a name are on a bill.
ByName(x) == [r \in BillRows |-> IF r.name = x THEN r.qty ELSE 0]

\* What goes by a name on a bill is what the bill measures by that name.
LEMMA BilledIsMeasured ==
  ASSUME NEW b \in Seq(BillRows), NEW x
  PROVE  ByName(x) \in [BillRows -> Int] /\ Billed(b, x) = Measured(b, ByName(x))
<1>1. ByName(x) \in [BillRows -> Int]
  BY DEF ByName, BillRows, RowsOf
<1>2. \A i \in DOMAIN b : b[i] \in BillRows
  OBVIOUS
<1>3. \A i \in DOMAIN b : ByName(x)[b[i]] = IF b[i].name = x THEN b[i].qty ELSE 0
  BY <1>2 DEF ByName
<1>4. [i \in DOMAIN b |-> IF b[i].name = x THEN b[i].qty ELSE 0]
        = [i \in DOMAIN b |-> ByName(x)[b[i]]]
  BY <1>3
<1> QED BY <1>1, <1>4 DEF Billed, Measured

\* The machines of a role on the bill, and their disks.
LEMMA ServersCounted ==
  ASSUME NEW name \in ServerNames, NEW n \in Nat, NEW server \in Catalogue,
         NEW disk \in Catalogue \union {"bundled"}, NEW gb \in Nat,
         NEW x \in ServerNames \union DiskNames
  PROVE  /\ x = name => Measured(ServerLines(name, n, server, disk, gb), ByName(x)) = n
         /\ x = DiskOf(name) /\ disk # "bundled" =>
              Measured(ServerLines(name, n, server, disk, gb), ByName(x)) = n
         /\ x # name /\ (x # DiskOf(name) \/ disk = "bundled") =>
              Measured(ServerLines(name, n, server, disk, gb), ByName(x)) = 0
<1> DEFINE a == MachineLine(name, n, server)
           b == DiskLine(name, n, disk, gb)
           g == ByName(x)
<1>1. DiskOf(name) \in DiskNames /\ DiskOf(name) # name /\ name \notin DiskNames
  BY DEF DiskOf, ServerNames, DiskNames
<1>2. g \in [BillRows -> Int]
  BY DEF ByName, BillRows, RowsOf
<1>3. a.name = name /\ a.qty = n /\ b.name = DiskOf(name) /\ b.qty = n
  BY DEF Line, MachineLine, DiskLine
<1>4. a \in BillRows => g[a] = IF name = x THEN n ELSE 0
  BY <1>3 DEF ByName
<1>5. b \in BillRows => g[b] = IF DiskOf(name) = x THEN n ELSE 0
  BY <1>3 DEF ByName
<1> HIDE DEF g
<1>6. /\ n > 0 => a \in BillRows
      /\ n > 0 /\ disk # "bundled" => b \in BillRows
      /\ Measured(ServerLines(name, n, server, disk, gb), g)
           = (IF n > 0 THEN g[a] ELSE 0) + (IF n > 0 /\ disk # "bundled" THEN g[b] ELSE 0)
  BY <1>2, ServersMeasured
<1> HIDE DEF a, b
<1> QED BY <1>1, <1>4, <1>5, <1>6 DEF g

\* With more for a line of the same kind, and the more machines, it is more.
Below(g, h) ==
  \A r, s \in BillRows : r.name = s.name /\ r.rates = s.rates /\ r.qty <= s.qty => g[r] <= h[s]

\* No fewer machines of a role measure no less, with their disks.
LEMMA ServersGrow ==
  ASSUME NEW name \in ServerNames, NEW n \in Nat, NEW m \in Nat, n <= m, NEW server \in Catalogue,
         NEW disk \in Catalogue \union {"bundled"}, NEW gb \in Nat,
         NEW g \in [BillRows -> Nat], NEW h \in [BillRows -> Nat], Below(g, h)
  PROVE  Measured(ServerLines(name, n, server, disk, gb), g)
           <= Measured(ServerLines(name, m, server, disk, gb), h)
<1> DEFINE a == MachineLine(name, n, server)
           b == DiskLine(name, n, disk, gb)
           c == MachineLine(name, m, server)
           d == DiskLine(name, m, disk, gb)
<1>1. /\ a.name = c.name /\ a.rates = c.rates /\ a.qty <= c.qty
      /\ b.name = d.name /\ b.rates = d.rates /\ b.qty <= d.qty
  BY DEF Line, MachineLine, DiskLine
<1>2. g \in [BillRows -> Int] /\ h \in [BillRows -> Int]
  OBVIOUS
<1>3. /\ n > 0 => a \in BillRows
      /\ n > 0 /\ disk # "bundled" => b \in BillRows
      /\ Measured(ServerLines(name, n, server, disk, gb), g)
           = (IF n > 0 THEN g[a] ELSE 0) + (IF n > 0 /\ disk # "bundled" THEN g[b] ELSE 0)
  BY <1>2, ServersMeasured
<1>4. /\ m > 0 => c \in BillRows
      /\ m > 0 /\ disk # "bundled" => d \in BillRows
      /\ Measured(ServerLines(name, m, server, disk, gb), h)
           = (IF m > 0 THEN h[c] ELSE 0) + (IF m > 0 /\ disk # "bundled" THEN h[d] ELSE 0)
  BY <1>2, ServersMeasured
<1> HIDE DEF a, b, c, d
<1>5. n > 0 => m > 0 /\ g[a] <= h[c] /\ g[a] \in Nat
  BY <1>1, <1>3, <1>4 DEF Below
<1>6. n > 0 /\ disk # "bundled" => g[b] <= h[d] /\ g[b] \in Nat
  BY <1>1, <1>3, <1>4, <1>5 DEF Below
<1>7. /\ m > 0 => h[c] \in Nat
      /\ m > 0 /\ disk # "bundled" => h[d] \in Nat
  BY <1>4
<1> QED BY <1>3, <1>4, <1>5, <1>6, <1>7

\* A line that is none of machines or disks.
LEMMA OtherLine ==
  ASSUME NEW name \in OtherNames, NEW n \in Nat, NEW rates \in Rates0
  PROVE  Line(name, n, rates) \in Others
BY DEF Line, Others, RowsOf

\* Nor is it when it is on the bill only on a condition.
LEMMA OtherLineIf ==
  ASSUME NEW c, NEW l, c => l \in Others
  PROVE  LineIf(c, l) \in Seq(Others)
BY DEF LineIf

\* Such lines are lines, and none has the name of machines or disks.
LEMMA OthersAreRows ==
  ASSUME NEW s \in Seq(Others)
  PROVE  s \in Seq(BillRows) /\ \A i \in DOMAIN s : s[i].name \in OtherNames
<1>1. Others \subseteq BillRows
  BY DEF Others, BillRows, RowsOf
<1>2. \A r \in Others : r.name \in OtherNames
  BY DEF Others, RowsOf
<1> HIDE DEF Others
<1> QED BY <1>1, <1>2

\* They measure nothing where only machines and disks are measured.
LEMMA OthersMeasureNothing ==
  ASSUME NEW s \in Seq(Others), NEW g \in [BillRows -> Int],
         \A r \in BillRows : r.name \in OtherNames => g[r] = 0
  PROVE  Measured(s, g) = 0
<1> DEFINE g0 == [r \in Others |-> 0]
<1>1. s \in Seq(BillRows) /\ \A i \in DOMAIN s : s[i] \in Others /\ s[i] \in BillRows /\ s[i].name \in OtherNames
  <2>1. \A i \in DOMAIN s : s[i] \in Others
    OBVIOUS
  <2>2. s \in Seq(BillRows) => \A i \in DOMAIN s : s[i] \in BillRows
    OBVIOUS
  <2> QED BY <2>1, <2>2, OthersAreRows
<1>2. \A i \in DOMAIN s : g[s[i]] = g0[s[i]]
  BY <1>1
<1>3. [i \in DOMAIN s |-> g[s[i]]] = [i \in DOMAIN s |-> g0[s[i]]]
  BY <1>2
<1>4. g0 \in [Others -> Int] /\ \A r \in Others : g0[r] = 0
  OBVIOUS
<1>5. Measured(s, g) = Measured(s, g0)
  BY <1>3 DEF Measured
<1> HIDE DEF g0
<1> QED BY <1>4, <1>5, MeasuredGrows

\* Add-ons and the database.
LEMMA AddonsAreOthers ==
  ASSUME NEW p, IsPlan(p), NEW q, NEW v
  PROVE  AddonLines(p) \in Seq(Others) /\ PostgresLines(v, p, q) \in Seq(Others)
<1>1. ASSUME NEW svc \in DOMAIN SubstituteFootprint,
             AddonCents(EffectiveFootprint(p, svc)) > 0
      PROVE  Line(svc, 1, [one \in {"cent"} |-> AddonCents(EffectiveFootprint(p, svc))]) \in Others
  <2> DEFINE fp == EffectiveFootprint(p, svc)
  <2>1. \A f \in {"cpu", "mem", "gb"} : SubstituteFootprint[svc][f] \in Int /\ p.override[svc][f] \in Int
    BY DEF SubstituteFootprint, IsPlan
  <2>2. fp.cpu \in Int /\ fp.mem \in Int /\ fp.gb \in Int
    BY <2>1 DEF EffectiveFootprint
  <2> HIDE DEF fp
  <2>3. AddonCents(fp) \in Int
    BY <2>2 DEF AddonCents
  <2>4. AddonCents(fp) \in Nat
    BY <1>1, <2>3 DEF fp
  <2> DEFINE c == AddonCents(fp)
  <2>5. c \in Nat /\ "cent" \in Catalogue
    BY <2>4 DEF Catalogue
  <2> HIDE DEF c
  <2>6. [one \in {"cent"} |-> c] \in Rates0
    BY <2>5, RatesAreRates
  <2>7. svc \in OtherNames
    BY DEF SubstituteFootprint, OtherNames
  <2>8. Line(svc, 1, [one \in {"cent"} |-> c]) \in Others
    BY <2>6, <2>7, OtherLine
  <2> QED BY <2>8 DEF c, fp
<1> DEFINE line(svc) == LineIf(svc \in p.addons /\ AddonCents(EffectiveFootprint(p, svc)) > 0,
                               Line(svc, 1, [one \in {"cent"} |-> AddonCents(EffectiveFootprint(p, svc))]))
<1>2. ASSUME NEW svc \in DOMAIN SubstituteFootprint PROVE line(svc) \in Seq(Others)
  BY <1>1, OtherLineIf
<1>3. DOMAIN SubstituteFootprint = {"queue", "objstore", "cache"}
  BY DEF SubstituteFootprint
<1>4. AddonLines(p) = line("queue") \o line("objstore") \o line("cache")
  BY DEF AddonLines
<1>5. AddonLines(p) \in Seq(Others)
  <2> HIDE DEF line
  <2>1. line("queue") \in Seq(Others) /\ line("objstore") \in Seq(Others) /\ line("cache") \in Seq(Others)
    BY <1>2, <1>3
  <2>2. line("queue") \o line("objstore") \in Seq(Others)
    BY <2>1
  <2> QED BY <1>4, <2>1, <2>2
<1>6. PostgresLines(v, p, q) \in Seq(Others)
  <2>1. "pg" \in Catalogue /\ "postgres" \in OtherNames
    BY DEF Catalogue, OtherNames
  <2>2. [x \in {"pg"} |-> 1] \in Rates0
    BY <2>1, RatesAreRates
  <2>3. Line("postgres", 1, [x \in {"pg"} |-> 1]) \in Others
    BY <2>1, <2>2, OtherLine
  <2> QED BY <2>3, OtherLineIf DEF PostgresLines
<1> QED BY <1>5, <1>6

\* A count that is unset or zero has a default, so it is a number with one.
LEMMA CountIsNumber ==
  ASSUME NEW s \in Nat \union {Unset}, NEW d \in Nat
  PROVE  Count(s, d) \in Nat
BY DEF Count

\* The traffic of the gateways, and what is metered.
LEMMA MetersAreOthers ==
  ASSUME NEW d, {d.gb, d.logs, d.dns} \subseteq Nat, NEW n \in Nat
  PROVE  NATLines(n, d.gb) \in Seq(Others) /\ MeterLines(d) \in Seq(Others)
<1> DEFINE gb == d.gb
           logs == d.logs
           dns == d.dns
<1>1. gb \in Nat /\ logs \in Nat /\ dns \in Nat /\ (3 * gb) \div 10 \in Nat /\ MonthlyHours \in Nat
  BY DEF MonthlyHours
<1>2. NATLines(n, gb) \in Seq(Others)
  <2> DEFINE traffic == (3 * gb) \div 10
  <2>1. {"nat hour", "nat gb"} \subseteq Catalogue /\ {"nat hours", "nat traffic"} \subseteq OtherNames
    BY DEF Catalogue, OtherNames
  <2> HIDE DEF traffic
  <2>2. [p \in {"nat hour"} |-> MonthlyHours] \in Rates0 /\ [p \in {"nat gb"} |-> traffic] \in Rates0
    BY <1>1, <2>1, RatesAreRates DEF traffic
  <2>3. /\ Line("nat hours", n, [p \in {"nat hour"} |-> MonthlyHours]) \in Others
        /\ Line("nat traffic", 1, [p \in {"nat gb"} |-> traffic]) \in Others
    BY <2>1, <2>2, OtherLine
  <2>4. /\ LineIf(n > 0, Line("nat hours", n, [p \in {"nat hour"} |-> MonthlyHours])) \in Seq(Others)
        /\ LineIf(n > 0, Line("nat traffic", 1, [p \in {"nat gb"} |-> traffic])) \in Seq(Others)
    BY <2>3, OtherLineIf
  <2> DEFINE a == LineIf(n > 0, Line("nat hours", n, [p \in {"nat hour"} |-> MonthlyHours]))
             b == LineIf(n > 0, Line("nat traffic", 1, [p \in {"nat gb"} |-> traffic]))
  <2>5. NATLines(n, gb) = a \o b
    BY DEF NATLines, traffic
  <2>6. a \in Seq(Others) /\ b \in Seq(Others)
    BY <2>4
  <2> HIDE DEF a, b
  <2> QED BY <2>5, <2>6
<1>3. MeterLines(d) \in Seq(Others)
  <2>1. {"egress", "logs", "zone"} \subseteq Catalogue /\ {"egress", "logs", "dns"} \subseteq OtherNames
    BY DEF Catalogue, OtherNames
  <2> HIDE DEF gb, logs, dns
  <2>2. /\ [p \in {"egress"} |-> gb] \in Rates0 /\ [p \in {"logs"} |-> logs] \in Rates0
        /\ [p \in {"zone"} |-> 1] \in Rates0
    BY <1>1, <2>1, RatesAreRates
  <2> DEFINE a == LineIf(gb > 0, Line("egress", 1, [p \in {"egress"} |-> gb]))
             b == LineIf(logs > 0, Line("logs", 1, [p \in {"logs"} |-> logs]))
             c == LineIf(dns > 0, Line("dns", dns, [p \in {"zone"} |-> 1]))
  <2>3. /\ Line("egress", 1, [p \in {"egress"} |-> gb]) \in Others
        /\ Line("logs", 1, [p \in {"logs"} |-> logs]) \in Others
        /\ Line("dns", dns, [p \in {"zone"} |-> 1]) \in Others
    BY <1>1, <2>1, <2>2, OtherLine
  <2>4. a \in Seq(Others) /\ b \in Seq(Others) /\ c \in Seq(Others)
    BY <2>3, OtherLineIf
  <2>5. MeterLines(d) = a \o b \o c
    BY DEF MeterLines, gb, logs, dns
  <2> HIDE DEF a, b, c
  <2>6. a \o b \in Seq(Others)
    BY <2>4
  <2> QED BY <2>4, <2>5, <2>6
<1> QED BY <1>2, <1>3

\* The overhead of aws, whatever is overridden.
LEMMA AWSOverheadIsOthers ==
  ASSUME NEW p, IsPlan(p)
  PROVE  AWSOverheadLines(p) \in Seq(Others)
<1> DEFINE d == AWSOverhead(p)
           Keys == {"nat", "lb", "nlb", "gb", "logs", "dns"}
           LB(n, unit, units) ==
             LineIf(n > 0, Line("lb", n, [x \in {"lb hour", unit} |->
                                 IF x = unit THEN units * MonthlyHours ELSE MonthlyHours]))
<1>1. \A k \in Keys : d[k] \in Nat
  <2> DEFINE D == Tier(p.tier,
        [nat |-> 0, lb |-> 1, nlb |-> 0, gb |-> 20, logs |-> 2, dns |-> 0],
        [nat |-> 1, lb |-> 1, nlb |-> 0, gb |-> 100, logs |-> 10, dns |-> 1],
        [nat |-> 3, lb |-> 2, nlb |-> 1, gb |-> 500, logs |-> 50, dns |-> 2])
  <2>1. DOMAIN D = Keys /\ \A k \in Keys : D[k] \in Nat
    BY DEF Tier
  <2>2. d = [k \in DOMAIN D |-> Count(p.awsCount[k], D[k])]
    BY DEF AWSOverhead
  <2> HIDE DEF D, d
  <2>3. \A k \in Keys : p.awsCount[k] \in Nat \union {Unset}
    BY DEF IsPlan
  <2> QED BY <2>1, <2>2, <2>3, CountIsNumber
<1>2. d.nat \in Nat /\ d.lb \in Nat /\ d.nlb \in Nat /\ {d.gb, d.logs, d.dns} \subseteq Nat
  BY <1>1
<1>3. ASSUME NEW n \in Nat, NEW unit \in Catalogue, NEW units \in Nat
      PROVE  LB(n, unit, units) \in Seq(Others)
  <2> DEFINE h == MonthlyHours
             u == units * MonthlyHours
  <2>1. h \in Nat /\ u \in Nat /\ "lb hour" \in Catalogue /\ "lb" \in OtherNames
    <3>1. MonthlyHours \in Nat
      BY DEF MonthlyHours
    <3>2. "lb hour" \in Catalogue /\ "lb" \in OtherNames
      BY DEF Catalogue, OtherNames
    <3>3. units * MonthlyHours \in Nat
      BY DEF MonthlyHours
    <3> QED BY <3>1, <3>2, <3>3
  <2> HIDE DEF h, u
  <2>2. TwoRates("lb hour", unit, h, u) \in Rates0
    BY <2>1, RatesAreRates
  <2>3. Line("lb", n, TwoRates("lb hour", unit, h, u)) \in Others
    BY <2>1, <2>2, OtherLine
  <2>4. LineIf(n > 0, Line("lb", n, TwoRates("lb hour", unit, h, u))) \in Seq(Others)
    BY <2>3, OtherLineIf
  <2> QED BY <2>4 DEF TwoRates, h, u
<1>4. AWSOverheadLines(p)
        = NATLines(d.nat, d.gb) \o LB(d.lb, "alb unit hour", 5) \o LB(d.nlb, "nlb unit hour", 3)
          \o MeterLines(d)
  BY DEF AWSOverheadLines
<1> HIDE DEF d, LB
<1> DEFINE a == NATLines(d.nat, d.gb)
           b == LB(d.lb, "alb unit hour", 5)
           c == LB(d.nlb, "nlb unit hour", 3)
           e == MeterLines(d)
<1>5. {"alb unit hour", "nlb unit hour"} \subseteq Catalogue
  BY DEF Catalogue
<1>6. b \in Seq(Others) /\ c \in Seq(Others)
  BY <1>2, <1>3, <1>5
<1>7. a \in Seq(Others) /\ e \in Seq(Others)
  BY <1>2, MetersAreOthers
<1>8. AWSOverheadLines(p) = a \o b \o c \o e
  BY <1>4
<1> HIDE DEF a, b, c, e
<1>9. a \o b \in Seq(Others)
  BY <1>6, <1>7
<1>10. a \o b \o c \in Seq(Others)
  BY <1>6, <1>9
<1> QED BY <1>7, <1>8, <1>10

\* The overhead of azure.
LEMMA AzureOverheadIsOthers ==
  ASSUME NEW p
  PROVE  AzureOverheadLines(p) \in Seq(Others)
<1> DEFINE d == AzureOverhead(p)
           a == NATLines(d.nat, d.gb)
           b == LineIf(d.lb > 0, Line("lb", d.lb, [x \in {"lb hour", "lb gb"} |->
                                       IF x = "lb gb" THEN 30 ELSE MonthlyHours]))
           c == LineIf(d.ip > 0, Line("ip", d.ip, [x \in {"ip hour"} |-> MonthlyHours]))
<1>1. d.nat \in Nat /\ d.lb \in Nat /\ d.ip \in Nat /\ {d.gb, d.logs, d.dns} \subseteq Nat
  BY DEF AzureOverhead, Tier
<1>2. AzureOverheadLines(p) = a \o b \o c \o MeterLines(d)
  BY DEF AzureOverheadLines
<1> HIDE DEF d
<1>3. MonthlyHours \in Nat
  BY DEF MonthlyHours
<1>4. {"lb hour", "lb gb", "ip hour"} \subseteq Catalogue /\ {"lb", "ip"} \subseteq OtherNames
  BY DEF Catalogue, OtherNames
<1>5. /\ TwoRates("lb hour", "lb gb", MonthlyHours, 30) \in Rates0
      /\ [x \in {"ip hour"} |-> MonthlyHours] \in Rates0
  BY <1>3, <1>4, RatesAreRates
<1>6. b \in Seq(Others) /\ c \in Seq(Others)
  <2>1. /\ Line("lb", d.lb, TwoRates("lb hour", "lb gb", MonthlyHours, 30)) \in Others
        /\ Line("ip", d.ip, [x \in {"ip hour"} |-> MonthlyHours]) \in Others
    BY <1>1, <1>4, <1>5, OtherLine
  <2>2. LineIf(d.lb > 0, Line("lb", d.lb, TwoRates("lb hour", "lb gb", MonthlyHours, 30)))
          \in Seq(Others)
    BY <2>1, OtherLineIf
  <2>3. LineIf(d.ip > 0, Line("ip", d.ip, [x \in {"ip hour"} |-> MonthlyHours])) \in Seq(Others)
    BY <2>1, OtherLineIf
  <2> QED BY <2>2, <2>3 DEF TwoRates
<1>7. a \in Seq(Others) /\ MeterLines(d) \in Seq(Others)
  BY <1>1, MetersAreOthers
<1> HIDE DEF a, b, c
<1>8. a \o b \in Seq(Others)
  BY <1>6, <1>7
<1>9. a \o b \o c \in Seq(Others)
  BY <1>6, <1>8
<1> QED BY <1>2, <1>7, <1>9

\* The overhead of gcp.
LEMMA GCPOverheadIsOthers ==
  ASSUME NEW p
  PROVE  GCPOverheadLines(p) \in Seq(Others)
<1> DEFINE d == GCPOverhead(p)
           a == NATLines(d.nat, d.gb)
           b == LineIf(d.lb > 0, Line("lb", d.lb, [x \in {"lb"} |-> 1]))
<1>1. d.nat \in Nat /\ d.lb \in Nat /\ {d.gb, d.logs, d.dns} \subseteq Nat
  BY DEF GCPOverhead, Tier
<1>2. GCPOverheadLines(p) = a \o b \o MeterLines(d)
  BY DEF GCPOverheadLines
<1> HIDE DEF d
<1>3. "lb" \in Catalogue /\ "lb" \in OtherNames
  BY DEF Catalogue, OtherNames
<1>4. [x \in {"lb"} |-> 1] \in Rates0
  BY <1>3, RatesAreRates
<1>5. b \in Seq(Others)
  BY <1>1, <1>3, <1>4, OtherLine, OtherLineIf
<1>6. a \in Seq(Others) /\ MeterLines(d) \in Seq(Others)
  BY <1>1, MetersAreOthers
<1> HIDE DEF a, b
<1>7. a \o b \in Seq(Others)
  BY <1>5, <1>6
<1> QED BY <1>2, <1>6, <1>7

\* The overhead of hetzner, with prices or without.
LEMMA HetznerOverheadIsOthers ==
  ASSUME NEW p, NEW q
  PROVE  HetznerOverheadLines(p, q) \in Seq(Others)
<1> DEFINE d == HetznerOverhead(p)
           T(name, n, product) ==
             LineIf(n > 0, Line(name, n, [x \in {y \in {product} : q[y] # NoAnswer} |-> 1]))
           a == T("lb", d.lb11, "lb11")
           b == T("lb", d.lb21, "lb21")
           c == T("ip", d.ip, "ip")
           e == LineIf(d.gb > 0, Line("volumes", 1, [x \in {"gb"} |-> d.gb]))
<1>1. d.lb11 \in Nat /\ d.lb21 \in Nat /\ d.ip \in Nat /\ d.gb \in Nat
  BY DEF HetznerOverhead, Tier
<1>2. HetznerOverheadLines(p, q) = a \o b \o c \o e
  BY DEF HetznerOverheadLines
<1> HIDE DEF d
<1>3. ASSUME NEW name \in OtherNames, NEW n \in Nat, NEW product \in Catalogue
      PROVE  T(name, n, product) \in Seq(Others)
  <2>1. [x \in {y \in {product} : q[y] # NoAnswer} |-> 1] \in Rates0
    BY RatesAreRates
  <2> QED BY <2>1, OtherLine, OtherLineIf
<1>4. {"lb11", "lb21", "ip", "gb"} \subseteq Catalogue /\ {"lb", "ip", "volumes"} \subseteq OtherNames
  BY DEF Catalogue, OtherNames
<1>5. e \in Seq(Others)
  <2> DEFINE gb == d.gb
  <2>1. gb \in Nat
    BY <1>1
  <2> HIDE DEF gb
  <2>2. [x \in {"gb"} |-> gb] \in Rates0
    BY <1>4, <2>1, RatesAreRates
  <2>3. Line("volumes", 1, [x \in {"gb"} |-> gb]) \in Others
    BY <1>4, <2>2, OtherLine
  <2> QED BY <2>3, OtherLineIf DEF gb
<1> HIDE DEF T
<1>6. a \in Seq(Others) /\ b \in Seq(Others) /\ c \in Seq(Others)
  BY <1>1, <1>3, <1>4
<1> HIDE DEF a, b, c, e
<1>7. a \o b \in Seq(Others)
  BY <1>6
<1>8. a \o b \o c \in Seq(Others)
  BY <1>6, <1>7
<1> QED BY <1>2, <1>5, <1>8

\* The pods of fargate.
LEMMA FargateIsOthers ==
  ASSUME NEW p, IsPlan(p)
  PROVE  FargateLines(p) \in Seq(Others)
<1> DEFINE rates == [x \in {"vcpu hour", "gib hour"} |->
                       IF x = "vcpu hour" THEN MonthlyHours \div 2 ELSE MonthlyHours]
<1>1. MonthlyHours \in Nat /\ MonthlyHours \div 2 \in Nat
  BY DEF MonthlyHours
<1>2. rates \in [{"vcpu hour", "gib hour"} -> Nat] /\ {"vcpu hour", "gib hour"} \in SUBSET Catalogue
  BY <1>1 DEF Catalogue
<1>3. rates \in Rates0
  BY <1>2 DEF Rates0
<1>4. Count(p.pods, 10) \in Nat
  BY CountIsNumber DEF IsPlan
<1>5. "pods" \in OtherNames
  BY DEF OtherNames
<1>6. FargateLines(p) = <<Line("pods", Count(p.pods, 10), rates)>>
  BY DEF FargateLines
<1> HIDE DEF rates
<1>7. Line("pods", Count(p.pods, 10), rates) \in Others
  BY <1>3, <1>4, <1>5, OtherLine
<1> QED BY <1>6, <1>7

------------------------------------------------------------------------------
\* The parts of a bill: control plane, workers, management cluster, the rest.
CPPart(v, p) ==
  CASE v = "aws" -> ControlPlaneLines(p, {"eks", "eks-fargate"}, "disk", 30)
    [] v = "azure" -> ControlPlaneLines(p, {"aks"}, "disk", 128)
    [] v = "gcp" -> ControlPlaneLines(p, {"gke"}, "disk", 30)
    [] OTHER -> ControlPlaneLines(p, {}, "bundled", 0)
WKPart(v, p) ==
  CASE v = "aws" -> IF p.mode = "eks-fargate" THEN FargateLines(p) ELSE WorkerLines(p, "disk", 40)
    [] v = "azure" -> WorkerLines(p, "disk", 128)
    [] v = "gcp" -> WorkerLines(p, "disk", 40)
    [] OTHER -> WorkerLines(p, "bundled", 0)
MGPart(v, p) ==
  CASE v = "aws" -> MgmtLines(p, "disk", 30)
    [] v = "azure" -> MgmtLines(p, "standard disk", 64)
    [] v = "gcp" -> MgmtLines(p, "disk", 30)
    [] v = "hetzner" -> MgmtLines(p, "bundled", 0)
    [] OTHER -> <<>>
OverheadPart(v, p, q) ==
  CASE v = "aws" -> AWSOverheadLines(p)
    [] v = "azure" -> AzureOverheadLines(p)
    [] v = "gcp" -> GCPOverheadLines(p)
    [] v = "hetzner" -> HetznerOverheadLines(p, q)
    [] OTHER -> <<>>
PGPart(v, p, q) == IF v = "hetzner" THEN <<>> ELSE PostgresLines(v, p, q)

DisksOf(v) == IF v \in {"aws", "azure", "gcp"} THEN {"disk", "standard disk"} ELSE {"bundled"}

ManagedLines == <<Line("managed control-plane", 1, [x \in {"control plane"} |-> 1])>>

\* What a control plane is billed: a managed line, or servers.
LEMMA ControlPlaneKinds ==
  ASSUME NEW v \in Clouds, NEW p, IsPlan(p)
  PROVE  \/ /\ p.mode # "unmanaged"
            /\ \A k : k.mode = p.mode =>
                 CPPart(v, k) = ManagedLines
         \/ \E disk \in DisksOf(v), gb \in Nat :
              \A k : k.mode = p.mode /\ k.cpDisk = p.cpDisk =>
                CPPart(v, k) = ServerLines("control-plane", Count(k.cp, 1), "server", disk, gb)
<1> DEFINE Kind(managed, disk, d) ==
             \/ /\ p.mode # "unmanaged"
                /\ \A k : k.mode = p.mode => ControlPlaneLines(k, managed, disk, d) = ManagedLines
             \/ \E gb \in Nat :
                  \A k : k.mode = p.mode /\ k.cpDisk = p.cpDisk =>
                    ControlPlaneLines(k, managed, disk, d)
                      = ServerLines("control-plane", Count(k.cp, 1), "server", disk, gb)
<1>1. ASSUME NEW managed, "unmanaged" \notin managed, NEW disk, NEW d \in Nat
      PROVE  Kind(managed, disk, d)
  <2>1. CASE p.mode \in managed
    <3>1. \A k : k.mode = p.mode => ControlPlaneLines(k, managed, disk, d) = ManagedLines
      BY <2>1 DEF ControlPlaneLines, ManagedLines
    <3> QED BY <1>1, <2>1, <3>1
  <2>2. CASE p.mode \notin managed
    <3> DEFINE gb == Count(p.cpDisk, d)
    <3>1. gb \in Nat
      BY CountIsNumber DEF IsPlan
    <3>2. \A k : k.mode = p.mode /\ k.cpDisk = p.cpDisk =>
            ControlPlaneLines(k, managed, disk, d)
              = ServerLines("control-plane", Count(k.cp, 1), "server", disk, gb)
      BY <2>2 DEF ControlPlaneLines
    <3> QED BY <3>1, <3>2
  <2> QED BY <2>1, <2>2
<1>2. /\ Kind({"eks", "eks-fargate"}, "disk", 30) /\ Kind({"aks"}, "disk", 128)
      /\ Kind({"gke"}, "disk", 30) /\ Kind({}, "bundled", 0)
  <2> HIDE DEF Kind
  <2>1. /\ "unmanaged" \notin {"eks", "eks-fargate"} /\ "unmanaged" \notin {"aks"}
        /\ "unmanaged" \notin {"gke"} /\ "unmanaged" \notin {}
    OBVIOUS
  <2>2. Kind({"eks", "eks-fargate"}, "disk", 30)
    BY <1>1, <2>1
  <2>3. Kind({"aks"}, "disk", 128)
    BY <1>1, <2>1
  <2>4. Kind({"gke"}, "disk", 30)
    BY <1>1, <2>1
  <2>5. Kind({}, "bundled", 0)
    BY <1>1, <2>1
  <2> QED BY <2>2, <2>3, <2>4, <2>5
<1>3. CASE v = "aws"
  BY <1>2, <1>3 DEF CPPart, DisksOf
<1>4. CASE v = "azure"
  BY <1>2, <1>4 DEF CPPart, DisksOf
<1>5. CASE v = "gcp"
  BY <1>2, <1>5 DEF CPPart, DisksOf
<1>6. CASE v \notin {"aws", "azure", "gcp"}
  BY <1>2, <1>6 DEF CPPart, DisksOf
<1> QED BY <1>3, <1>4, <1>5, <1>6

\* The same of the workers: pods of fargate, or servers.
LEMMA WorkerKinds ==
  ASSUME NEW v \in Clouds, NEW p, IsPlan(p)
  PROVE  \/ /\ p.mode = "eks-fargate"
            /\ \A k : k.mode = p.mode => WKPart(v, k) = FargateLines(k)
         \/ \E disk \in DisksOf(v), gb \in Nat :
              \A k : k.mode = p.mode /\ k.wkDisk = p.wkDisk =>
                WKPart(v, k) = ServerLines("workers", Count(k.wk, 0), "server", disk, gb)
<1>1. ASSUME NEW disk, NEW d \in Nat
      PROVE  \E gb \in Nat : \A k : k.wkDisk = p.wkDisk =>
               WorkerLines(k, disk, d) = ServerLines("workers", Count(k.wk, 0), "server", disk, gb)
  <2> DEFINE gb == Count(p.wkDisk, d)
  <2>1. gb \in Nat
    BY CountIsNumber DEF IsPlan
  <2>2. \A k : k.wkDisk = p.wkDisk =>
          WorkerLines(k, disk, d) = ServerLines("workers", Count(k.wk, 0), "server", disk, gb)
    BY DEF WorkerLines
  <2> QED BY <2>1, <2>2
<1>2. CASE v = "aws" /\ p.mode = "eks-fargate"
  BY <1>2 DEF WKPart
<1>3. CASE v = "aws" /\ p.mode # "eks-fargate"
  <2>1. \A k : k.mode = p.mode => WKPart(v, k) = WorkerLines(k, "disk", 40)
    BY <1>3 DEF WKPart
  <2>2. PICK gb \in Nat : \A k : k.wkDisk = p.wkDisk =>
          WorkerLines(k, "disk", 40) = ServerLines("workers", Count(k.wk, 0), "server", "disk", gb)
    BY <1>1
  <2> QED BY <1>3, <2>1, <2>2 DEF DisksOf
<1>4. CASE v = "azure"
  <2>1. \A k : WKPart(v, k) = WorkerLines(k, "disk", 128)
    BY <1>4 DEF WKPart
  <2>2. PICK gb \in Nat : \A k : k.wkDisk = p.wkDisk =>
          WorkerLines(k, "disk", 128) = ServerLines("workers", Count(k.wk, 0), "server", "disk", gb)
    BY <1>1
  <2> QED BY <1>4, <2>1, <2>2 DEF DisksOf
<1>5. CASE v = "gcp"
  <2>1. \A k : WKPart(v, k) = WorkerLines(k, "disk", 40)
    BY <1>5 DEF WKPart
  <2>2. PICK gb \in Nat : \A k : k.wkDisk = p.wkDisk =>
          WorkerLines(k, "disk", 40) = ServerLines("workers", Count(k.wk, 0), "server", "disk", gb)
    BY <1>1
  <2> QED BY <1>5, <2>1, <2>2 DEF DisksOf
<1>6. CASE v \notin {"aws", "azure", "gcp"}
  <2>1. \A k : WKPart(v, k) = WorkerLines(k, "bundled", 0)
    BY <1>6 DEF WKPart
  <2>2. PICK gb \in Nat : \A k : k.wkDisk = p.wkDisk =>
          WorkerLines(k, "bundled", 0) = ServerLines("workers", Count(k.wk, 0), "server", "bundled", gb)
    BY <1>1
  <2> QED BY <1>6, <2>1, <2>2 DEF DisksOf
<1> QED BY <1>2, <1>3, <1>4, <1>5, <1>6

\* Whether there is a management cluster.
Pivots(p) == p.pivot = TRUE
RunsMgmt(v) == v \in {"aws", "azure", "gcp", "hetzner"}

\* What the management cluster is billed: servers, or nothing.
LEMMA MgmtKinds ==
  ASSUME NEW v \in Clouds, NEW p, IsPlan(p)
  PROVE  \/ /\ RunsMgmt(v) => ~ Pivots(p)
            /\ \A k : k.pivot = p.pivot => MGPart(v, k) = <<>>
         \/ \E disk \in DisksOf(v), gb \in Nat :
              /\ Pivots(p) /\ RunsMgmt(v)
              /\ \A k : k.pivot = p.pivot /\ k.mcpDisk = p.mcpDisk =>
                   MGPart(v, k) = ServerLines("mgmt", Count(k.mcp, 1), "mgmt server", disk, gb)
<1>1. CASE ~ Pivots(p)
  <2>1. \A k, disk, d : k.pivot = p.pivot => MgmtLines(k, disk, d) = <<>>
    <3>1. p.pivot = FALSE
      BY <1>1 DEF Pivots, IsPlan
    <3> QED BY <3>1 DEF MgmtLines
  <2>2. \A k : k.pivot = p.pivot => MGPart(v, k) = <<>>
    BY <2>1 DEF MGPart
  <2> QED BY <1>1, <2>2
<1>2. CASE Pivots(p)
  <2>1. ASSUME NEW disk, NEW d \in Nat
        PROVE  \E gb \in Nat : \A k : k.pivot = p.pivot /\ k.mcpDisk = p.mcpDisk =>
                 MgmtLines(k, disk, d)
                   = ServerLines("mgmt", Count(k.mcp, 1), "mgmt server", disk, gb)
    <3> DEFINE gb == Count(p.mcpDisk, d)
    <3>1. gb \in Nat
      BY CountIsNumber DEF IsPlan
    <3>2. \A k : k.pivot = p.pivot /\ k.mcpDisk = p.mcpDisk =>
            MgmtLines(k, disk, d) = ServerLines("mgmt", Count(k.mcp, 1), "mgmt server", disk, gb)
      <4>1. p.pivot = TRUE
        BY <1>2 DEF Pivots
      <4> QED BY <4>1 DEF MgmtLines
    <3> QED BY <3>1, <3>2
  <2>2. CASE v = "aws"
    <3>1. \A k : MGPart(v, k) = MgmtLines(k, "disk", 30)
      BY <2>2 DEF MGPart
    <3>2. PICK gb \in Nat : \A k : k.pivot = p.pivot /\ k.mcpDisk = p.mcpDisk =>
            MgmtLines(k, "disk", 30)
              = ServerLines("mgmt", Count(k.mcp, 1), "mgmt server", "disk", gb)
      BY <2>1
    <3> QED BY <1>2, <2>2, <3>1, <3>2 DEF DisksOf, RunsMgmt
  <2>3. CASE v = "azure"
    <3>1. \A k : MGPart(v, k) = MgmtLines(k, "standard disk", 64)
      BY <2>3 DEF MGPart
    <3>2. PICK gb \in Nat : \A k : k.pivot = p.pivot /\ k.mcpDisk = p.mcpDisk =>
            MgmtLines(k, "standard disk", 64)
              = ServerLines("mgmt", Count(k.mcp, 1), "mgmt server", "standard disk", gb)
      BY <2>1
    <3> QED BY <1>2, <2>3, <3>1, <3>2 DEF DisksOf, RunsMgmt
  <2>4. CASE v = "gcp"
    <3>1. \A k : MGPart(v, k) = MgmtLines(k, "disk", 30)
      BY <2>4 DEF MGPart
    <3>2. PICK gb \in Nat : \A k : k.pivot = p.pivot /\ k.mcpDisk = p.mcpDisk =>
            MgmtLines(k, "disk", 30)
              = ServerLines("mgmt", Count(k.mcp, 1), "mgmt server", "disk", gb)
      BY <2>1
    <3> QED BY <1>2, <2>4, <3>1, <3>2 DEF DisksOf, RunsMgmt
  <2>5. CASE v = "hetzner"
    <3>1. \A k : MGPart(v, k) = MgmtLines(k, "bundled", 0)
      BY <2>5 DEF MGPart
    <3>2. PICK gb \in Nat : \A k : k.pivot = p.pivot /\ k.mcpDisk = p.mcpDisk =>
            MgmtLines(k, "bundled", 0)
              = ServerLines("mgmt", Count(k.mcp, 1), "mgmt server", "bundled", gb)
      BY <2>1
    <3> QED BY <1>2, <2>5, <3>1, <3>2 DEF DisksOf, RunsMgmt
  <2>6. CASE ~ RunsMgmt(v)
    <3>1. \A k : MGPart(v, k) = <<>>
      BY <2>6 DEF MGPart, RunsMgmt
    <3> QED BY <2>6, <3>1
  <2> QED BY <2>2, <2>3, <2>4, <2>5, <2>6 DEF RunsMgmt
<1> QED BY <1>1, <1>2

\* A managed control plane.
LEMMA ManagedIsOthers == ManagedLines \in Seq(Others)
<1> DEFINE l == Line("managed control-plane", 1, [x \in {"control plane"} |-> 1])
<1>1. "control plane" \in Catalogue /\ "managed control-plane" \in OtherNames
  BY DEF Catalogue, OtherNames
<1>2. [x \in {"control plane"} |-> 1] \in Rates0
  BY <1>1, RatesAreRates
<1>3. l \in Others /\ ManagedLines = <<l>>
  BY <1>1, <1>2, OtherLine DEF ManagedLines
<1> HIDE DEF l
<1>4. <<l>> \in Seq(Others)
  BY <1>3
<1> QED BY <1>3, <1>4

\* The parts of a bill consist of its lines.
LEMMA PartsAreRows ==
  ASSUME NEW v \in Clouds, NEW p, IsPlan(p), NEW q
  PROVE  /\ CPPart(v, p) \in Seq(BillRows) /\ WKPart(v, p) \in Seq(BillRows) /\ MGPart(v, p) \in Seq(BillRows)
         /\ PGPart(v, p, q) \in Seq(Others) /\ AddonLines(p) \in Seq(Others)
         /\ OverheadPart(v, p, q) \in Seq(Others)
<1>0. PICK g : g \in [BillRows -> Int]
  <2>1. [r \in BillRows |-> 0] \in [BillRows -> Int]
    OBVIOUS
  <2> QED BY <2>1
<1>1. {"server", "mgmt server", "disk", "standard disk"} \subseteq Catalogue
      /\ {"control-plane", "workers", "mgmt"} \subseteq ServerNames
  BY DEF Catalogue, ServerNames
<1>2. ASSUME NEW name \in ServerNames, NEW n \in Nat, NEW server \in Catalogue,
             NEW disk \in DisksOf(v), NEW gb \in Nat
      PROVE  ServerLines(name, n, server, disk, gb) \in Seq(BillRows)
  <2>2. disk \in Catalogue \union {"bundled"}
    BY DEF Catalogue, DisksOf
  <2> QED BY <1>0, <2>2, ServersMeasured
<1>3. Count(p.cp, 1) \in Nat /\ Count(p.wk, 0) \in Nat /\ Count(p.mcp, 1) \in Nat
  BY CountIsNumber DEF IsPlan
<1>4. CPPart(v, p) \in Seq(BillRows)
  <2>1. CASE CPPart(v, p) = ManagedLines
    BY <2>1, ManagedIsOthers, OthersAreRows
  <2>2. ASSUME NEW disk \in DisksOf(v), NEW gb \in Nat,
               \A k : k.mode = p.mode /\ k.cpDisk = p.cpDisk =>
                 CPPart(v, k) = ServerLines("control-plane", Count(k.cp, 1), "server", disk, gb)
        PROVE  CPPart(v, p) \in Seq(BillRows)
    <3>1. CPPart(v, p) = ServerLines("control-plane", Count(p.cp, 1), "server", disk, gb)
      BY <2>2
    <3> QED BY <1>1, <1>2, <1>3, <3>1
  <2>3. (\A k : k.mode = p.mode =>
           CPPart(v, k) = ManagedLines)
        => CPPart(v, p) \in Seq(BillRows)
    BY <2>1
  <2> QED BY <2>2, <2>3, ControlPlaneKinds
<1>5. WKPart(v, p) \in Seq(BillRows)
  <2>1. CASE WKPart(v, p) = FargateLines(p)
    BY <2>1, FargateIsOthers, OthersAreRows
  <2>2. CASE \E disk \in DisksOf(v), gb \in Nat :
               WKPart(v, p) = ServerLines("workers", Count(p.wk, 0), "server", disk, gb)
    BY <1>1, <1>2, <1>3, <2>2
  <2> QED BY <2>1, <2>2, WorkerKinds
<1>6. MGPart(v, p) \in Seq(BillRows)
  <2>1. CASE MGPart(v, p) = <<>>
    BY <2>1
  <2>2. ASSUME NEW disk \in DisksOf(v), NEW gb \in Nat,
               \A k : k.pivot = p.pivot /\ k.mcpDisk = p.mcpDisk =>
                 MGPart(v, k) = ServerLines("mgmt", Count(k.mcp, 1), "mgmt server", disk, gb)
        PROVE  MGPart(v, p) \in Seq(BillRows)
    <3>1. MGPart(v, p) = ServerLines("mgmt", Count(p.mcp, 1), "mgmt server", disk, gb)
      BY <2>2
    <3> QED BY <1>1, <1>2, <1>3, <3>1
  <2>3. CASE \A k : k.pivot = p.pivot => MGPart(v, k) = <<>>
    BY <2>1, <2>3
  <2>4. \/ \A k : k.pivot = p.pivot => MGPart(v, k) = <<>>
        \/ \E disk \in DisksOf(v), gb \in Nat :
              \A k : k.pivot = p.pivot /\ k.mcpDisk = p.mcpDisk =>
                MGPart(v, k) = ServerLines("mgmt", Count(k.mcp, 1), "mgmt server", disk, gb)
    BY MgmtKinds
  <2> QED BY <2>2, <2>3, <2>4
<1>7. <<>> \in Seq(Others)
  OBVIOUS
<1>8. PGPart(v, p, q) \in Seq(Others) /\ AddonLines(p) \in Seq(Others)
  BY <1>7, AddonsAreOthers DEF PGPart
<1>9. OverheadPart(v, p, q) \in Seq(Others)
  BY <1>7, AWSOverheadIsOthers, AzureOverheadIsOthers, GCPOverheadIsOthers, HetznerOverheadIsOthers
     DEF OverheadPart
<1> QED BY <1>4, <1>5, <1>6, <1>8, <1>9

\* A bill measures what six parts of it measure.
ConsistsOf(bill, g, a, b, c, d, e, f) ==
  /\ Measured(bill, g) = Measured(a, g) + Measured(b, g) + Measured(c, g)
                          + Measured(d, g) + Measured(e, g) + Measured(f, g)
  /\ {Measured(a, g), Measured(b, g), Measured(c, g),
      Measured(d, g), Measured(e, g), Measured(f, g)} \subseteq Int

\* What is measured of six sequences laid end to end.
LEMMA MeasuredSix ==
  ASSUME NEW R, NEW g \in [R -> Int], NEW a \in Seq(R), NEW b \in Seq(R), NEW c \in Seq(R),
         NEW d \in Seq(R), NEW e \in Seq(R), NEW f \in Seq(R)
  PROVE  /\ a \o b \o c \o d \o e \o f \in Seq(R)
         /\ ConsistsOf(a \o b \o c \o d \o e \o f, g, a, b, c, d, e, f)
<1> DEFINE s == a \o b
           t == s \o c
           u == t \o d
           w == u \o e
<1>1. s \in Seq(R) /\ Measured(s, g) = Measured(a, g) + Measured(b, g)
  BY MeasuredParts
<1> HIDE DEF s
<1>2. t \in Seq(R) /\ Measured(t, g) = Measured(s, g) + Measured(c, g)
  BY <1>1, MeasuredParts
<1> HIDE DEF t
<1>3. u \in Seq(R) /\ Measured(u, g) = Measured(t, g) + Measured(d, g)
  BY <1>2, MeasuredParts
<1> HIDE DEF u
<1>4. w \in Seq(R) /\ Measured(w, g) = Measured(u, g) + Measured(e, g)
  BY <1>3, MeasuredParts
<1> HIDE DEF w
<1>5. w \o f \in Seq(R) /\ Measured(w \o f, g) = Measured(w, g) + Measured(f, g)
  BY <1>4, MeasuredParts
<1>6. {Measured(a, g), Measured(b, g), Measured(c, g),
       Measured(d, g), Measured(e, g), Measured(f, g)} \subseteq Int
  BY MeasuredParts
<1>7. w \o f = a \o b \o c \o d \o e \o f
  BY DEF s, t, u, w
<1>8. Measured(w \o f, g) = Measured(a, g) + Measured(b, g) + Measured(c, g)
                            + Measured(d, g) + Measured(e, g) + Measured(f, g)
  BY <1>1, <1>2, <1>3, <1>4, <1>5, <1>6
<1> QED BY <1>5, <1>6, <1>7, <1>8 DEF ConsistsOf

\* What is measured of a bill is what is measured of its parts.
LEMMA BillMeasured ==
  ASSUME NEW v \in Clouds, NEW p, IsPlan(p), NEW q, NEW g \in [BillRows -> Int]
  PROVE  /\ BillOf(v, p, q) \in Seq(BillRows)
         /\ Measured(BillOf(v, p, q), g)
              = Measured(CPPart(v, p), g) + Measured(WKPart(v, p), g) + Measured(MGPart(v, p), g)
                + Measured(PGPart(v, p, q), g) + Measured(AddonLines(p), g)
                + Measured(OverheadPart(v, p, q), g)
         /\ {Measured(CPPart(v, p), g), Measured(WKPart(v, p), g), Measured(MGPart(v, p), g),
             Measured(PGPart(v, p, q), g), Measured(AddonLines(p), g),
             Measured(OverheadPart(v, p, q), g)} \subseteq Int
<1> DEFINE a == CPPart(v, p)
           b == WKPart(v, p)
           c == MGPart(v, p)
           d == PGPart(v, p, q)
           e == AddonLines(p)
           f == OverheadPart(v, p, q)
           z == <<>>
<1>1. /\ a \in Seq(BillRows) /\ b \in Seq(BillRows) /\ c \in Seq(BillRows)
      /\ d \in Seq(BillRows) /\ e \in Seq(BillRows) /\ f \in Seq(BillRows)
  BY PartsAreRows, OthersAreRows
<1>2. CASE v \in {"aws", "azure", "gcp"}
  <2>1. BillOf(v, p, q) = a \o b \o c \o d \o e \o f
    <3>1. CASE v = "aws"
      BY <3>1 DEF BillOf, AWSBill, CPPart, WKPart, MGPart, PGPart, OverheadPart
    <3>2. CASE v = "azure"
      BY <3>2 DEF BillOf, AzureBill, CPPart, WKPart, MGPart, PGPart, OverheadPart
    <3>3. CASE v = "gcp"
      BY <3>3 DEF BillOf, GCPBill, CPPart, WKPart, MGPart, PGPart, OverheadPart
    <3> QED BY <1>2, <3>1, <3>2, <3>3
  <2> HIDE DEF a, b, c, d, e, f
  <2>2. /\ a \o b \o c \o d \o e \o f \in Seq(BillRows)
        /\ ConsistsOf(a \o b \o c \o d \o e \o f, g, a, b, c, d, e, f)
    BY <1>1, MeasuredSix
  <2> QED BY <2>1, <2>2 DEF a, b, c, d, e, f, ConsistsOf
<1>3. CASE v = "hetzner"
  <2>1. BillOf(v, p, q) = a \o b \o c \o f \o e /\ d = z
    BY <1>3 DEF BillOf, HetznerBill, CPPart, WKPart, MGPart, PGPart, OverheadPart
  <2>2. z \in Seq(BillRows)
    OBVIOUS
  <2> HIDE DEF a, b, c, d, e, f, z
  <2>3. /\ a \o b \o c \o d \o f \o e \in Seq(BillRows)
        /\ ConsistsOf(a \o b \o c \o d \o f \o e, g, a, b, c, d, f, e)
    BY <1>1, MeasuredSix
  <2>4. a \o b \o c \o d = a \o b \o c
    <3> DEFINE s == a \o b \o c
    <3>1. s \in Seq(BillRows)
      <4>1. a \o b \in Seq(BillRows)
        BY <1>1
      <4> QED BY <1>1, <4>1
    <3> HIDE DEF s
    <3>2. s \o <<>> = s
      BY <3>1
    <3> QED BY <2>1, <3>2 DEF s, z
  <2>5. ConsistsOf(a \o b \o c \o d \o f \o e, g, a, b, c, d, e, f)
    BY <2>3 DEF ConsistsOf
  <2>6. BillOf(v, p, q) = a \o b \o c \o d \o f \o e
    BY <2>1, <2>4
  <2> QED BY <2>3, <2>5, <2>6 DEF a, b, c, d, e, f, ConsistsOf
<1>4. CASE v \notin {"aws", "azure", "gcp", "hetzner"}
  <2>1. BillOf(v, p, q) = a \o b \o d \o e /\ c = z /\ f = z
    <3>1. BillOf(v, p, q) = ServersBill(v, p, q)
      BY <1>4 DEF BillOf, Clouds, PostgresVendors, DigitalOceanBill, LinodeBill, OCIBill, IBMCloudBill
    <3>2. /\ a = ControlPlaneLines(p, {}, "bundled", 0) /\ b = WorkerLines(p, "bundled", 0)
          /\ c = z /\ d = PostgresLines(v, p, q) /\ f = z
      BY <1>4 DEF CPPart, WKPart, MGPart, PGPart, OverheadPart
    <3> QED BY <3>1, <3>2 DEF ServersBill
  <2> HIDE DEF a, b, c, d, e, f
  <2>2. /\ a \o b \o c \o d \o e \o f \in Seq(BillRows)
        /\ ConsistsOf(a \o b \o c \o d \o e \o f, g, a, b, c, d, e, f)
    BY <1>1, MeasuredSix
  <2>3. a \o b \o c = a \o b
    <3> DEFINE s == a \o b
    <3>1. s \in Seq(BillRows)
      BY <1>1
    <3> HIDE DEF s
    <3>2. s \o <<>> = s
      BY <3>1
    <3> QED BY <2>1, <3>2 DEF s
  <2>4. a \o b \o c \o d \o e \o f = a \o b \o c \o d \o e
    <3> DEFINE s == a \o b \o c \o d \o e
    <3>1. s \in Seq(BillRows)
      <4>1. a \o b \in Seq(BillRows)
        BY <1>1
      <4>2. a \o b \o d \in Seq(BillRows)
        BY <1>1, <4>1
      <4>3. a \o b \o d \o e \in Seq(BillRows)
        BY <1>1, <4>2
      <4> QED BY <2>3, <4>3
    <3> HIDE DEF s
    <3>2. s \o <<>> = s
      BY <3>1
    <3> QED BY <2>1, <3>2 DEF s
  <2>5. BillOf(v, p, q) = a \o b \o c \o d \o e \o f
    BY <2>1, <2>3, <2>4
  <2> QED BY <2>2, <2>5 DEF a, b, c, d, e, f, ConsistsOf
<1> QED BY <1>2, <1>3, <1>4

\* The lines that are neither machines nor disks count for neither.
LEMMA OthersCountNothing ==
  ASSUME NEW x \in ServerNames \union DiskNames, NEW s \in Seq(Others)
  PROVE  Measured(s, ByName(x)) = 0
<1>1. ByName(x) \in [BillRows -> Int]
  BY DEF ByName, BillRows, RowsOf
<1>2. x \notin OtherNames
  BY DEF ServerNames, DiskNames, OtherNames
<1>3. \A r \in BillRows : r.name \in OtherNames => ByName(x)[r] = 0
  BY <1>2 DEF ByName
<1> QED BY <1>1, <1>3, OthersMeasureNothing

\* How many a role of a bill has.
Counted(x, name, v, n) ==
  IF x = name \/ (x = DiskOf(name) /\ v \in {"aws", "azure", "gcp"}) THEN n ELSE 0

\* The machines of a role, on the bill of a vendor.
LEMMA RoleCounted ==
  ASSUME NEW v, NEW name \in ServerNames, NEW n \in Nat, NEW server \in Catalogue,
         NEW disk \in Catalogue \union {"bundled"}, NEW gb \in Nat,
         NEW x \in ServerNames \union DiskNames,
         disk # "bundled" <=> v \in {"aws", "azure", "gcp"}
  PROVE  Measured(ServerLines(name, n, server, disk, gb), ByName(x)) = Counted(x, name, v, n)
<1>3. x = name => Measured(ServerLines(name, n, server, disk, gb), ByName(x)) = n
  BY ServersCounted
<1>4. x = DiskOf(name) /\ disk # "bundled" =>
        Measured(ServerLines(name, n, server, disk, gb), ByName(x)) = n
  BY ServersCounted
<1>5. x # name /\ (x # DiskOf(name) \/ disk = "bundled") =>
        Measured(ServerLines(name, n, server, disk, gb), ByName(x)) = 0
  BY ServersCounted
<1> QED BY <1>3, <1>4, <1>5 DEF Counted

\* The control plane of a bill.
LEMMA ControlPlaneCounted ==
  ASSUME NEW v \in Clouds, NEW p, IsPlan(p), NEW x \in ServerNames \union DiskNames
  PROVE  \/ /\ p.mode # "unmanaged"
            /\ Measured(CPPart(v, p), ByName(x)) = 0
         \/ Measured(CPPart(v, p), ByName(x)) = Counted(x, "control-plane", v, Count(p.cp, 1))
<1>1. CASE p.mode # "unmanaged" /\ \A k : k.mode = p.mode => CPPart(v, k) = ManagedLines
  BY <1>1, ManagedIsOthers, OthersCountNothing
<1>2. ASSUME NEW disk \in DisksOf(v), NEW gb \in Nat,
             \A k : k.mode = p.mode /\ k.cpDisk = p.cpDisk =>
               CPPart(v, k) = ServerLines("control-plane", Count(k.cp, 1), "server", disk, gb)
      PROVE  Measured(CPPart(v, p), ByName(x)) = Counted(x, "control-plane", v, Count(p.cp, 1))
  <2>1. CPPart(v, p) = ServerLines("control-plane", Count(p.cp, 1), "server", disk, gb)
    BY <1>2
  <2>2. Count(p.cp, 1) \in Nat
    BY CountIsNumber DEF IsPlan
  <2>3. "control-plane" \in ServerNames
    BY DEF ServerNames
  <2> DEFINE n == Count(p.cp, 1)
             s == "server"
  <2>4. /\ s \in Catalogue /\ disk \in Catalogue \union {"bundled"}
        /\ disk # "bundled" <=> v \in {"aws", "azure", "gcp"}
    BY DEF Catalogue, DisksOf
  <2> HIDE DEF n, s
  <2>5. Measured(ServerLines("control-plane", n, s, disk, gb), ByName(x)) = Counted(x, "control-plane", v, n)
    BY <2>2, <2>3, <2>4, RoleCounted DEF n
  <2> QED BY <2>1, <2>5 DEF n, s
<1> QED BY <1>1, <1>2, ControlPlaneKinds

\* The workers of a bill.
LEMMA WorkersCounted ==
  ASSUME NEW v \in Clouds, NEW p, IsPlan(p), NEW x \in ServerNames \union DiskNames
  PROVE  \/ /\ p.mode = "eks-fargate"
            /\ Measured(WKPart(v, p), ByName(x)) = 0
         \/ Measured(WKPart(v, p), ByName(x)) = Counted(x, "workers", v, Count(p.wk, 0))
<1>1. CASE p.mode = "eks-fargate" /\ \A k : k.mode = p.mode => WKPart(v, k) = FargateLines(k)
  <2>1. WKPart(v, p) = FargateLines(p)
    BY <1>1
  <2> QED BY <1>1, <2>1, FargateIsOthers, OthersCountNothing
<1>2. ASSUME NEW disk \in DisksOf(v), NEW gb \in Nat,
             \A k : k.mode = p.mode /\ k.wkDisk = p.wkDisk =>
               WKPart(v, k) = ServerLines("workers", Count(k.wk, 0), "server", disk, gb)
      PROVE  Measured(WKPart(v, p), ByName(x)) = Counted(x, "workers", v, Count(p.wk, 0))
  <2>1. WKPart(v, p) = ServerLines("workers", Count(p.wk, 0), "server", disk, gb)
    BY <1>2
  <2>2. Count(p.wk, 0) \in Nat
    BY CountIsNumber DEF IsPlan
  <2>3. "workers" \in ServerNames
    BY DEF ServerNames
  <2> DEFINE n == Count(p.wk, 0)
             s == "server"
  <2>4. /\ s \in Catalogue /\ disk \in Catalogue \union {"bundled"}
        /\ disk # "bundled" <=> v \in {"aws", "azure", "gcp"}
    BY DEF Catalogue, DisksOf
  <2> HIDE DEF n, s
  <2>5. Measured(ServerLines("workers", n, s, disk, gb), ByName(x)) = Counted(x, "workers", v, n)
    BY <2>2, <2>3, <2>4, RoleCounted DEF n
  <2> QED BY <2>1, <2>5 DEF n, s
<1> QED BY <1>1, <1>2, WorkerKinds

\* The management cluster of a bill.
LEMMA MgmtCounted ==
  ASSUME NEW v \in Clouds, NEW p, IsPlan(p), NEW x \in ServerNames \union DiskNames
  PROVE  \/ /\ RunsMgmt(v) => ~ Pivots(p)
            /\ Measured(MGPart(v, p), ByName(x)) = 0
         \/ /\ Pivots(p)
            /\ Measured(MGPart(v, p), ByName(x)) = Counted(x, "mgmt", v, Count(p.mcp, 1))
<1> DEFINE Absent == RunsMgmt(v) => ~ Pivots(p)
<1>1. CASE Absent /\ \A k : k.pivot = p.pivot => MGPart(v, k) = <<>>
  <2>1. MGPart(v, p) = <<>> /\ <<>> \in Seq(Others)
    BY <1>1
  <2>2. Measured(MGPart(v, p), ByName(x)) = 0
    BY <2>1, OthersCountNothing
  <2> QED BY <1>1, <2>2
<1>2. ASSUME NEW disk \in DisksOf(v), NEW gb \in Nat, Pivots(p),
             \A k : k.pivot = p.pivot /\ k.mcpDisk = p.mcpDisk =>
               MGPart(v, k) = ServerLines("mgmt", Count(k.mcp, 1), "mgmt server", disk, gb)
      PROVE  Pivots(p) /\ Measured(MGPart(v, p), ByName(x)) = Counted(x, "mgmt", v, Count(p.mcp, 1))
  <2>1. MGPart(v, p) = ServerLines("mgmt", Count(p.mcp, 1), "mgmt server", disk, gb)
    BY <1>2
  <2>2. Count(p.mcp, 1) \in Nat
    BY CountIsNumber DEF IsPlan
  <2>3. "mgmt" \in ServerNames
    BY DEF ServerNames
  <2> DEFINE n == Count(p.mcp, 1)
             s == "mgmt server"
             name == "mgmt"
  <2>4. /\ s \in Catalogue /\ disk \in Catalogue \union {"bundled"}
        /\ disk # "bundled" <=> v \in {"aws", "azure", "gcp"}
    BY DEF Catalogue, DisksOf
  <2>5. n \in Nat /\ name \in ServerNames
    BY <2>2, <2>3
  <2> HIDE DEF n, s, name
  <2>6. Measured(ServerLines(name, n, s, disk, gb), ByName(x)) = Counted(x, name, v, n)
    BY <2>4, <2>5, RoleCounted
  <2> QED BY <1>2, <2>1, <2>6 DEF n, s, name
<1>3. \/ /\ RunsMgmt(v) => ~ Pivots(p)
         /\ \A k : k.pivot = p.pivot => MGPart(v, k) = <<>>
      \/ \E disk \in DisksOf(v), gb \in Nat :
           /\ Pivots(p)
           /\ \A k : k.pivot = p.pivot /\ k.mcpDisk = p.mcpDisk =>
                MGPart(v, k) = ServerLines("mgmt", Count(k.mcp, 1), "mgmt server", disk, gb)
  BY MgmtKinds
<1> QED BY <1>1, <1>2, <1>3

\* How many of a name are on a bill is how many its three roles have.
LEMMA BilledIsCounted ==
  ASSUME NEW v \in Clouds, NEW p, IsPlan(p), NEW q, NEW x \in ServerNames \union DiskNames
  PROVE  Billed(BillOf(v, p, q), x)
           = Measured(CPPart(v, p), ByName(x)) + Measured(WKPart(v, p), ByName(x))
             + Measured(MGPart(v, p), ByName(x))
<1> DEFINE g == ByName(x)
           b == BillOf(v, p, q)
<1>1. g \in [BillRows -> Int]
  BY DEF ByName, BillRows, RowsOf
<1>2. Measured(PGPart(v, p, q), g) = 0 /\ Measured(AddonLines(p), g) = 0
      /\ Measured(OverheadPart(v, p, q), g) = 0
  BY PartsAreRows, OthersCountNothing
<1> HIDE DEF g
<1>3. /\ b \in Seq(BillRows)
      /\ Measured(b, g)
           = Measured(CPPart(v, p), g) + Measured(WKPart(v, p), g) + Measured(MGPart(v, p), g)
             + Measured(PGPart(v, p, q), g) + Measured(AddonLines(p), g)
             + Measured(OverheadPart(v, p, q), g)
      /\ {Measured(CPPart(v, p), g), Measured(WKPart(v, p), g), Measured(MGPart(v, p), g)} \subseteq Int
  BY <1>1, BillMeasured
<1> HIDE DEF b
<1>4. Billed(b, x) = Measured(b, g)
  BY <1>3, BilledIsMeasured DEF g
<1>5. Billed(b, x) = Measured(CPPart(v, p), g) + Measured(WKPart(v, p), g) + Measured(MGPart(v, p), g)
  BY <1>2, <1>3, <1>4
<1> QED BY <1>5 DEF b, g

\* What a bill counts for each role.
LEMMA RolesBilled ==
  ASSUME NEW v \in Clouds, NEW p, IsPlan(p), NEW q
  PROVE  /\ p.mode = "unmanaged" =>
              /\ Billed(BillOf(v, p, q), "control-plane") = Count(p.cp, 1)
              /\ v \in {"aws", "azure", "gcp"} =>
                   Billed(BillOf(v, p, q), "control-plane disk") = Count(p.cp, 1)
         /\ p.mode # "eks-fargate" =>
              /\ Billed(BillOf(v, p, q), "workers") = Count(p.wk, 0)
              /\ v \in {"aws", "azure", "gcp"} =>
                   Billed(BillOf(v, p, q), "workers disk") = Count(p.wk, 0)
         /\ RunsMgmt(v) /\ Pivots(p) =>
              /\ Billed(BillOf(v, p, q), "mgmt") = Count(p.mcp, 1)
              /\ v \in {"aws", "azure", "gcp"} =>
                   Billed(BillOf(v, p, q), "mgmt disk") = Count(p.mcp, 1)
         /\ RunsMgmt(v) /\ ~ Pivots(p) =>
              Billed(BillOf(v, p, q), "mgmt") = 0 /\ Billed(BillOf(v, p, q), "mgmt disk") = 0
<1> DEFINE B(x) == Billed(BillOf(v, p, q), x)
           cp(x) == Measured(CPPart(v, p), ByName(x))
           wk(x) == Measured(WKPart(v, p), ByName(x))
           mg(x) == Measured(MGPart(v, p), ByName(x))
           Names == ServerNames \union DiskNames
<1>1. Count(p.cp, 1) \in Nat /\ Count(p.wk, 0) \in Nat /\ Count(p.mcp, 1) \in Nat
  BY CountIsNumber DEF IsPlan
<1>2. \A x \in Names : B(x) = cp(x) + wk(x) + mg(x)
  BY BilledIsCounted
<1>3. \A x \in Names : \/ p.mode # "unmanaged" /\ cp(x) = 0
                       \/ cp(x) = Counted(x, "control-plane", v, Count(p.cp, 1))
  BY ControlPlaneCounted
<1>4. \A x \in Names : \/ p.mode = "eks-fargate" /\ wk(x) = 0
                       \/ wk(x) = Counted(x, "workers", v, Count(p.wk, 0))
  BY WorkersCounted
<1>5. \A x \in Names : \/ (RunsMgmt(v) => ~ Pivots(p)) /\ mg(x) = 0
                       \/ Pivots(p) /\ mg(x) = Counted(x, "mgmt", v, Count(p.mcp, 1))
  BY MgmtCounted
<1>6. {"control-plane", "workers", "mgmt", "control-plane disk", "workers disk", "mgmt disk"}
        \subseteq Names
  BY DEF ServerNames, DiskNames
<1> HIDE DEF B, cp, wk, mg, Names
<1>7. ASSUME p.mode = "unmanaged"
      PROVE  /\ B("control-plane") = Count(p.cp, 1)
             /\ v \in {"aws", "azure", "gcp"} => B("control-plane disk") = Count(p.cp, 1)
  <2>1. \A x \in {"control-plane", "control-plane disk"} : wk(x) = 0 /\ mg(x) = 0
    BY <1>4, <1>5, <1>6 DEF Counted, DiskOf
  <2>2. /\ cp("control-plane") = Count(p.cp, 1)
        /\ v \in {"aws", "azure", "gcp"} => cp("control-plane disk") = Count(p.cp, 1)
    BY <1>3, <1>6, <1>7 DEF Counted, DiskOf
  <2> DEFINE n == Count(p.cp, 1)
             B1 == B("control-plane")
             B2 == B("control-plane disk")
             c1 == cp("control-plane")
             c2 == cp("control-plane disk")
             w1 == wk("control-plane")
             w2 == wk("control-plane disk")
             m1 == mg("control-plane")
             m2 == mg("control-plane disk")
  <2>3. B1 = c1 + w1 + m1 /\ B2 = c2 + w2 + m2
    BY <1>2, <1>6
  <2>4. w1 = 0 /\ m1 = 0 /\ w2 = 0 /\ m2 = 0
    BY <2>1
  <2>5. n \in Nat /\ c1 = n /\ (v \in {"aws", "azure", "gcp"} => c2 = n)
    BY <1>1, <2>2
  <2> HIDE DEF n, B1, B2, c1, c2, w1, w2, m1, m2
  <2>6. B1 = n /\ (v \in {"aws", "azure", "gcp"} => B2 = n)
    BY <2>3, <2>4, <2>5
  <2> QED BY <2>6 DEF n, B1, B2
<1>8. ASSUME p.mode # "eks-fargate"
      PROVE  /\ B("workers") = Count(p.wk, 0)
             /\ v \in {"aws", "azure", "gcp"} => B("workers disk") = Count(p.wk, 0)
  <2>1. \A x \in {"workers", "workers disk"} : cp(x) = 0 /\ mg(x) = 0
    BY <1>3, <1>5, <1>6 DEF Counted, DiskOf
  <2>2. /\ wk("workers") = Count(p.wk, 0)
        /\ v \in {"aws", "azure", "gcp"} => wk("workers disk") = Count(p.wk, 0)
    BY <1>4, <1>6, <1>8 DEF Counted, DiskOf
  <2> DEFINE n == Count(p.wk, 0)
             B1 == B("workers")
             B2 == B("workers disk")
             c1 == cp("workers")
             c2 == cp("workers disk")
             w1 == wk("workers")
             w2 == wk("workers disk")
             m1 == mg("workers")
             m2 == mg("workers disk")
  <2>3. B1 = c1 + w1 + m1 /\ B2 = c2 + w2 + m2
    BY <1>2, <1>6
  <2>4. c1 = 0 /\ m1 = 0 /\ c2 = 0 /\ m2 = 0
    BY <2>1
  <2>5. n \in Nat /\ w1 = n /\ (v \in {"aws", "azure", "gcp"} => w2 = n)
    BY <1>1, <2>2
  <2> HIDE DEF n, B1, B2, c1, c2, w1, w2, m1, m2
  <2>6. B1 = n /\ (v \in {"aws", "azure", "gcp"} => B2 = n)
    BY <2>3, <2>4, <2>5
  <2> QED BY <2>6 DEF n, B1, B2
<1>9. ASSUME RunsMgmt(v)
      PROVE  /\ Pivots(p) =>
                  /\ B("mgmt") = Count(p.mcp, 1)
                  /\ v \in {"aws", "azure", "gcp"} => B("mgmt disk") = Count(p.mcp, 1)
             /\ ~ Pivots(p) => B("mgmt") = 0 /\ B("mgmt disk") = 0
  <2>1. \A x \in {"mgmt", "mgmt disk"} : cp(x) = 0 /\ wk(x) = 0
    BY <1>3, <1>4, <1>6 DEF Counted, DiskOf
  <2>2. /\ Pivots(p) =>
             /\ mg("mgmt") = Count(p.mcp, 1)
             /\ v \in {"aws", "azure", "gcp"} => mg("mgmt disk") = Count(p.mcp, 1)
        /\ ~ Pivots(p) => mg("mgmt") = 0 /\ mg("mgmt disk") = 0
    BY <1>5, <1>6, <1>9 DEF Counted, DiskOf
  <2> DEFINE n == Count(p.mcp, 1)
             B1 == B("mgmt")
             B2 == B("mgmt disk")
             c1 == cp("mgmt")
             c2 == cp("mgmt disk")
             w1 == wk("mgmt")
             w2 == wk("mgmt disk")
             m1 == mg("mgmt")
             m2 == mg("mgmt disk")
  <2>3. B1 = c1 + w1 + m1 /\ B2 = c2 + w2 + m2
    BY <1>2, <1>6
  <2>4. c1 = 0 /\ w1 = 0 /\ c2 = 0 /\ w2 = 0
    BY <2>1
  <2>5. /\ n \in Nat
        /\ Pivots(p) => m1 = n /\ (v \in {"aws", "azure", "gcp"} => m2 = n)
        /\ ~ Pivots(p) => m1 = 0 /\ m2 = 0
    BY <1>1, <2>2
  <2> HIDE DEF n, B1, B2, c1, c2, w1, w2, m1, m2
  <2>6. /\ Pivots(p) => B1 = n /\ (v \in {"aws", "azure", "gcp"} => B2 = n)
        /\ ~ Pivots(p) => B1 = 0 /\ B2 = 0
    BY <2>3, <2>4, <2>5
  <2> QED BY <2>6 DEF n, B1, B2
<1> QED BY <1>7, <1>8, <1>9 DEF B

\* A session of bills has a plan and prices throughout.
BillInv == Asks(plan) => IsPlan(plan) /\ IsPrice(price)

\* BillInv in every reachable state.
LEMMA AlwaysBills == EstimatesSpec => []BillInv
<1>1. EstimatesInit => BillInv
  BY PlansAssumption, PricesAssumption DEF EstimatesInit, BillInv, Asks
<1>2. BillInv /\ [EstimatesNext]_estimatesVars => BillInv'
  <2> SUFFICES ASSUME BillInv, [EstimatesNext]_estimatesVars PROVE BillInv'
    OBVIOUS
  <2>1. CASE AddMachine
    <3>1. IsPlan(plan) /\ IsPrice(price) /\ price' = price
      BY <2>1 DEF AddMachine, BillInv
    <3>2. PICK f \in {"cp", "wk", "mcp"} :
            plan' = [plan EXCEPT ![f] = Count(@, IF f = "wk" THEN 0 ELSE 1) + 1]
      BY <2>1 DEF AddMachine
    <3> DEFINE n == Count(plan[f], IF f = "wk" THEN 0 ELSE 1) + 1
               m == plan'
    <3>3. f \in DOMAIN plan /\ plan[f] \in Nat \union {Unset}
      BY <3>1 DEF IsPlan
    <3>4. n \in Nat
      <4> DEFINE d == IF f = "wk" THEN 0 ELSE 1
      <4>1. d \in Nat
        OBVIOUS
      <4> HIDE DEF d
      <4>2. Count(plan[f], d) \in Nat
        BY <3>3, <4>1, CountIsNumber
      <4>3. Count(plan[f], d) + 1 \in Nat
        BY <4>2
      <4> QED BY <4>3 DEF d
    <3>5. m = [plan EXCEPT ![f] = n]
      BY <3>2
    <3> HIDE DEF n, m
    <3>6. /\ DOMAIN m = DOMAIN plan /\ m = [g \in DOMAIN m |-> m[g]]
          /\ \A g \in DOMAIN plan : g \notin {"cp", "wk", "mcp"} => m[g] = plan[g]
          /\ \A g \in {"cp", "wk", "mcp"} : m[g] \in Nat \union {Unset}
      BY <3>1, <3>4, <3>5 DEF IsPlan
    <3>7. IsPlan(m)
      BY <3>1, <3>6 DEF IsPlan
    <3> QED BY <3>1, <3>7 DEF BillInv, m
  <2>2. CASE SetPlan
    BY <2>2, PlansAssumption DEF SetPlan, BillInv
  <2>3. CASE PriceMoves
    <3>1. IsPlan(plan) /\ IsPrice(price) /\ plan' = plan
      BY <2>3 DEF PriceMoves, BillInv
    <3>2. PICK a \in Amounts \union {NoAnswer} : \E k : price' = [price EXCEPT ![k] = a]
      BY <2>3 DEF PriceMoves
    <3>3. a \in Nat \union {NoAnswer}
      BY <3>2, EditsAssumption
    <3> DEFINE q == price'
    <3>4. PICK k : q = [price EXCEPT ![k] = a]
      BY <3>2
    <3> HIDE DEF q
    <3>5. IsPrice(q)
      BY <3>1, <3>3, <3>4 DEF IsPrice
    <3> QED BY <3>1, <3>5 DEF BillInv, q
  <2>4. CASE SetBudget \/ SetNeed \/ QuoteMoves \/ UNCHANGED estimatesVars
    BY <2>4 DEF SetBudget, SetNeed, QuoteMoves, estimatesVars, BillInv
  <2> QED BY <2>1, <2>2, <2>3, <2>4 DEF EstimatesNext
<1> QED BY <1>1, <1>2, PTL DEF EstimatesSpec

\* Every bill with a total has the machines of the plan and their disks on it:
\* the lines that control plane, workers and management cluster come to are all
\* that goes by their names.
THEOREM BillsCountThePlan == EstimatesSpec => []BillCountsThePlan
<1>1. BillInv => BillCountsThePlan
  <2> SUFFICES ASSUME BillInv, Asks(plan), PlanMonthlyCost(plan, price).total # NoAnswer
               PROVE  BillCountsThePlan
    BY DEF BillCountsThePlan
  <2> DEFINE v == plan.vendor
             bill == PlanMonthlyCost(plan, price).lines
             n == Replicas(plan)
  <2>1. IsPlan(plan) /\ v \in Clouds
    BY DEF BillInv, IsPlan
  <2>2. bill = BillOf(v, plan, price)
    BY DEF PlanMonthlyCost
  <2>3. /\ n["cp"] > 0 => n["cp"] = Count(plan.cp, 1)
        /\ n["wk"] = Count(plan.wk, 0)
        /\ Pivots(plan) /\ n["mcp"] > 0 => n["mcp"] = Count(plan.mcp, 1)
        /\ ~ Pivots(plan) => n["mcp"] = 0
    <3>1. {plan.cp, plan.wk, plan.mcp} \subseteq Nat \union {Unset}
          /\ plan.pivot \in BOOLEAN
      BY <2>1 DEF IsPlan
    <3> QED BY <3>1, UnsetIsNoNumber DEF Replicas, AtoiOr, Count, Pivots
  <2>4. plan.pivot => Pivots(plan)
    BY <2>1 DEF Pivots, IsPlan
  <2>5. RunsMgmt(v) <=> v \in {"aws", "azure", "gcp", "hetzner"}
    BY DEF RunsMgmt
  <2> HIDE DEF v, bill, n
  <2>6. /\ plan.mode = "unmanaged" /\ n["cp"] > 0 =>
             /\ Billed(bill, "control-plane") = n["cp"]
             /\ v \in {"aws", "azure", "gcp"} => Billed(bill, "control-plane disk") = n["cp"]
        /\ plan.mode # "eks-fargate" =>
             /\ Billed(bill, "workers") = n["wk"]
             /\ v \in {"aws", "azure", "gcp"} => Billed(bill, "workers disk") = n["wk"]
        /\ RunsMgmt(v) /\ (Pivots(plan) => n["mcp"] > 0) =>
             /\ Billed(bill, "mgmt") = n["mcp"]
             /\ v \in {"aws", "azure", "gcp"} => Billed(bill, "mgmt disk") = n["mcp"]
    BY <2>1, <2>2, <2>3, RolesBilled
  <2> QED BY <2>4, <2>5, <2>6 DEF BillCountsThePlan, v, bill, n, Pivots
<1> QED BY <1>1, AlwaysBills, PTL

\* A price that does not come counts for nothing.
Amount(q) == [p \in Catalogue |-> IF q[p] = NoAnswer THEN 0 ELSE q[p]]
\* What a line costs, and what it costs if it is a line of machines.
At(q) == [r \in BillRows |-> r.qty * Unit(r, q)]
ServersAt(q) == [r \in BillRows |-> IF r.name \in ServerNames THEN At(q)[r] ELSE 0]

\* Products of numbers, with more on both sides.
LEMMA ProductsGrow ==
  ASSUME NEW a \in Nat, NEW b \in Nat, NEW c \in Nat, NEW d \in Nat, a <= c, b <= d
  PROVE  a * b \in Nat /\ a * b <= c * d
<1>1. a * b \in Nat /\ a * d \in Nat /\ c * d \in Nat
  OBVIOUS
<1>2. a * b <= a * d
  BY MoreCostsMore
<1>3. d * a <= d * c
  BY MoreCostsMore
<1>4. d * a = a * d /\ d * c = c * d
  OBVIOUS
<1> QED BY <1>1, <1>2, <1>3, <1>4

\* There are finitely many products.
LEMMA CatalogueIsFinite == IsFiniteSet(Catalogue)
<1>1. \A a, b, c, d, e, f : IsFiniteSet({a, b, c, d, e, f})
  <2> SUFFICES ASSUME NEW a, NEW b, NEW c, NEW d, NEW e, NEW f
               PROVE  IsFiniteSet({a, b, c, d, e, f})
    OBVIOUS
  <2>1. IsFiniteSet({a} \union {b})
    BY FS_Singleton, FS_Union
  <2>2. IsFiniteSet({a} \union {b} \union {c})
    BY <2>1, FS_Singleton, FS_Union
  <2>3. IsFiniteSet({a} \union {b} \union {c} \union {d})
    BY <2>2, FS_Singleton, FS_Union
  <2>4. IsFiniteSet({a} \union {b} \union {c} \union {d} \union {e})
    BY <2>3, FS_Singleton, FS_Union
  <2>5. IsFiniteSet({a} \union {b} \union {c} \union {d} \union {e} \union {f})
    BY <2>4, FS_Singleton, FS_Union
  <2>6. {a, b, c, d, e, f} = {a} \union {b} \union {c} \union {d} \union {e} \union {f}
    OBVIOUS
  <2> QED BY <2>5, <2>6
<1> DEFINE A == {"server", "mgmt server", "disk", "standard disk", "gb", "control plane"}
           B == {"pg", "cent", "vcpu hour", "gib hour", "nat hour", "nat gb"}
           C == {"lb hour", "alb unit hour", "nlb unit hour", "lb", "lb gb", "ip"}
           D == {"ip hour", "lb11", "lb21", "egress", "logs", "zone"}
<1>2. IsFiniteSet(A) /\ IsFiniteSet(B) /\ IsFiniteSet(C) /\ IsFiniteSet(D)
  BY <1>1
<1>3. Catalogue = A \union B \union C \union D
  BY Zenon DEF Catalogue
<1> HIDE DEF A, B, C, D
<1>4. IsFiniteSet(A \union B)
  BY <1>2, FS_Union
<1>5. IsFiniteSet(A \union B \union C)
  BY <1>2, <1>4, FS_Union
<1> QED BY <1>2, <1>3, <1>5, FS_Union

\* A line's price for one, with dearer products.
LEMMA UnitGrows ==
  ASSUME NEW r \in BillRows, NEW q \in [Catalogue -> Nat], NEW t \in [Catalogue -> Nat],
         \A p \in Catalogue : q[p] <= t[p]
  PROVE  Unit(r, q) \in Nat /\ Unit(r, q) <= Unit(r, t)
<1> DEFINE P == DOMAIN r.rates
           w == r.rates
           f == [p \in P |-> w[p] * q[p]]
           h == [p \in P |-> w[p] * t[p]]
<1>1. w \in [P -> Nat] /\ P \in SUBSET Catalogue
  <2>1. w \in Rates0
    BY DEF BillRows, RowsOf
  <2>2. PICK C \in SUBSET Catalogue : w \in [C -> Nat]
    BY <2>1 DEF Rates0
  <2> QED BY <2>2
<1>2. IsFiniteSet(Catalogue)
  BY CatalogueIsFinite
<1>3. IsFiniteSet(P)
  BY <1>1, <1>2, FS_Subset
<1>4. \A p \in P : w[p] \in Nat /\ q[p] \in Nat /\ t[p] \in Nat /\ q[p] <= t[p]
  BY <1>1
<1>5. Unit(r, q) = SumFunction(f) /\ Unit(r, t) = SumFunction(h) /\ DOMAIN f = P /\ DOMAIN h = P
  BY DEF Unit
<1>6. \A p \in P : f[p] = w[p] * q[p] /\ h[p] = w[p] * t[p]
  OBVIOUS
<1> HIDE DEF P, w, f, h
<1>7. \A p \in P : f[p] \in Nat /\ h[p] \in Nat /\ f[p] <= h[p]
  <2> SUFFICES ASSUME NEW p \in P PROVE f[p] \in Nat /\ h[p] \in Nat /\ f[p] <= h[p]
    OBVIOUS
  <2> DEFINE a == w[p]
             b == q[p]
             c == t[p]
  <2>1. a \in Nat /\ b \in Nat /\ c \in Nat /\ b <= c /\ f[p] = a * b /\ h[p] = a * c
    BY <1>4, <1>6
  <2> HIDE DEF a, b, c
  <2>2. a * b \in Nat /\ a * c \in Nat /\ a * b <= a * c
    BY <2>1, MoreCostsMore
  <2> QED BY <2>1, <2>2
<1>8. SumFunctionOnSet(f, P) <= SumFunctionOnSet(h, P)
  <2>1. \A p \in P : f[p] \in Int /\ h[p] \in Int /\ f[p] <= h[p]
    BY <1>7
  <2> QED BY <1>3, <2>1, SumMonotone
<1>9. SumFunction(f) \in Nat
  BY <1>3, <1>5, <1>7, TotalIsNumber
<1> QED BY <1>5, <1>8, <1>9 DEF SumFunction

\* What lines cost is a number, and no less when products are dearer and lines
\* count more.
LEMMA LinesCost ==
  ASSUME NEW q \in [Catalogue -> Nat], NEW t \in [Catalogue -> Nat],
         \A p \in Catalogue : q[p] <= t[p]
  PROVE  /\ At(q) \in [BillRows -> Nat] /\ ServersAt(q) \in [BillRows -> Nat]
         /\ Below(At(q), At(t)) /\ Below(ServersAt(q), ServersAt(t))
<1>1. ASSUME NEW x \in [Catalogue -> Nat], NEW r \in BillRows
      PROVE  At(x)[r] \in Nat
  <2>1. Unit(r, x) \in Nat
    <3>1. \A p \in Catalogue : x[p] <= x[p]
      OBVIOUS
    <3> QED BY <3>1, UnitGrows
  <2>2. r.qty \in Nat
    BY DEF BillRows, RowsOf
  <2> DEFINE a == r.qty
             b == Unit(r, x)
  <2>3. a \in Nat /\ b \in Nat /\ At(x)[r] = a * b
    BY <2>1, <2>2 DEF At
  <2> HIDE DEF a, b
  <2> QED BY <2>3
<1>2. At(q) \in [BillRows -> Nat] /\ ServersAt(q) \in [BillRows -> Nat]
  <2>1. At(q) = [r \in BillRows |-> At(q)[r]]
    BY DEF At
  <2>2. ServersAt(q) = [r \in BillRows |-> IF r.name \in ServerNames THEN At(q)[r] ELSE 0]
    BY DEF ServersAt
  <2>3. \A r \in BillRows : At(q)[r] \in Nat
    BY <1>1
  <2> QED BY <2>1, <2>2, <2>3
<1>3. ASSUME NEW r \in BillRows, NEW s \in BillRows, r.name = s.name, r.rates = s.rates, r.qty <= s.qty
      PROVE  At(q)[r] <= At(t)[s]
  <2> DEFINE a == r.qty
             b == Unit(r, q)
             c == s.qty
             d == Unit(s, t)
  <2>1. a \in Nat /\ c \in Nat
    BY DEF BillRows, RowsOf
  <2>2. b \in Nat /\ b <= Unit(r, t)
    BY UnitGrows
  <2>3. Unit(r, t) = d
    BY <1>3 DEF Unit
  <2>4. d \in Nat
    <3>1. \A p \in Catalogue : t[p] <= t[p]
      OBVIOUS
    <3> QED BY <3>1, UnitGrows
  <2>5. At(q)[r] = a * b /\ At(t)[s] = c * d /\ a <= c
    BY <1>3 DEF At
  <2> HIDE DEF a, b, c, d
  <2> QED BY <2>1, <2>2, <2>3, <2>4, <2>5, ProductsGrow
<1>4. Below(At(q), At(t))
  BY <1>3 DEF Below
<1>5. Below(ServersAt(q), ServersAt(t))
  <2> SUFFICES ASSUME NEW r \in BillRows, NEW s \in BillRows, r.name = s.name, r.rates = s.rates,
                      r.qty <= s.qty
               PROVE  ServersAt(q)[r] <= ServersAt(t)[s]
    BY DEF Below
  <2>1. At(q)[r] <= At(t)[s]
    BY <1>3
  <2> QED BY <2>1 DEF ServersAt
<1> QED BY <1>2, <1>4, <1>5

\* k plans no fewer machines than p and is the same plan otherwise.
Grown(p, k) ==
  /\ \A f \in DOMAIN p \ {"cp", "wk", "mcp"} : k[f] = p[f]
  /\ \A f \in {"cp", "wk", "mcp"} : Count(k[f], 0) >= Count(p[f], 0)

\* What that says of the fields.
LEMMA GrownFields ==
  ASSUME NEW p, IsPlan(p), NEW k, IsPlan(k), Grown(p, k)
  PROVE  /\ k.mode = p.mode /\ k.tier = p.tier /\ k.pivot = p.pivot
         /\ k.cpDisk = p.cpDisk /\ k.wkDisk = p.wkDisk /\ k.mcpDisk = p.mcpDisk
         /\ k.pods = p.pods /\ k.managedPG = p.managedPG /\ k.addons = p.addons
         /\ k.override = p.override /\ k.awsCount = p.awsCount
         /\ Count(p.cp, 1) <= Count(k.cp, 1) /\ Count(p.wk, 0) <= Count(k.wk, 0)
         /\ Count(p.mcp, 1) <= Count(k.mcp, 1)
         /\ {Count(p.cp, 1), Count(k.cp, 1), Count(p.wk, 0), Count(k.wk, 0), Count(p.mcp, 1),
             Count(k.mcp, 1)} \subseteq Nat
<1>1. DOMAIN p = {"vendor", "mode", "tier", "cp", "wk", "mcp", "mwk", "pivot", "cpDisk", "wkDisk",
                 "mcpDisk", "pods", "managedPG", "addons", "override", "awsCount"}
  BY DEF IsPlan
<1>2. /\ k.mode = p.mode /\ k.tier = p.tier /\ k.pivot = p.pivot
      /\ k.cpDisk = p.cpDisk /\ k.wkDisk = p.wkDisk /\ k.mcpDisk = p.mcpDisk
      /\ k.pods = p.pods /\ k.managedPG = p.managedPG /\ k.addons = p.addons
      /\ k.override = p.override /\ k.awsCount = p.awsCount
  BY <1>1 DEF Grown
<1>3. /\ {p.cp, p.wk, p.mcp} \subseteq Nat \union {Unset}
      /\ {k.cp, k.wk, k.mcp} \subseteq Nat \union {Unset}
  BY DEF IsPlan
<1>4. Count(p.cp, 0) <= Count(k.cp, 0) /\ Count(p.wk, 0) <= Count(k.wk, 0)
      /\ Count(p.mcp, 0) <= Count(k.mcp, 0)
  BY <1>3, UnsetIsNoNumber DEF Grown, Count
<1>5. ASSUME NEW a \in Nat \union {Unset}, NEW b \in Nat \union {Unset}, Count(a, 0) <= Count(b, 0)
      PROVE  Count(a, 1) <= Count(b, 1)
  BY <1>5, UnsetIsNoNumber DEF Count
<1>6. Count(p.cp, 1) <= Count(k.cp, 1) /\ Count(p.mcp, 1) <= Count(k.mcp, 1)
  BY <1>3, <1>4, <1>5
<1>7. {Count(p.cp, 1), Count(k.cp, 1), Count(p.wk, 0), Count(k.wk, 0), Count(p.mcp, 1),
       Count(k.mcp, 1)} \subseteq Nat
  BY <1>3, CountIsNumber
<1> QED BY <1>2, <1>4, <1>6, <1>7

\* Lines that stay cost no less when products are dearer.
LEMMA SameLinesGrow ==
  ASSUME NEW s \in Seq(BillRows), NEW g \in [BillRows -> Nat], NEW h \in [BillRows -> Nat], Below(g, h)
  PROVE  Measured(s, g) <= Measured(s, h)
<1>1. g \in [BillRows -> Int] /\ h \in [BillRows -> Int]
  OBVIOUS
<1>2. \A r \in BillRows : g[r] <= h[r]
  <2>1. \A r \in BillRows : r.qty <= r.qty
    BY DEF BillRows, RowsOf
  <2> QED BY <2>1 DEF Below
<1> QED BY <1>1, <1>2, MeasuredGrows

\* The control plane, of no fewer machines, is no cheaper.
LEMMA ControlPlaneGrows ==
  ASSUME NEW v \in Clouds, NEW p, IsPlan(p), NEW k, IsPlan(k), Grown(p, k),
         NEW g \in [BillRows -> Nat], NEW h \in [BillRows -> Nat], Below(g, h)
  PROVE  Measured(CPPart(v, p), g) <= Measured(CPPart(v, k), h)
<1>1. k.mode = p.mode /\ k.cpDisk = p.cpDisk
  BY GrownFields
<1>2. CASE \A j : j.mode = p.mode => CPPart(v, j) = ManagedLines
  <2>1. CPPart(v, p) = ManagedLines /\ CPPart(v, k) = ManagedLines
    BY <1>1, <1>2
  <2> QED BY <2>1, ManagedIsOthers, OthersAreRows, SameLinesGrow
<1>3. ASSUME NEW disk \in DisksOf(v), NEW gb \in Nat,
             \A j : j.mode = p.mode /\ j.cpDisk = p.cpDisk =>
               CPPart(v, j) = ServerLines("control-plane", Count(j.cp, 1), "server", disk, gb)
      PROVE  Measured(CPPart(v, p), g) <= Measured(CPPart(v, k), h)
  <2> DEFINE name == "control-plane"
             server == "server"
             n == Count(p.cp, 1)
             m == Count(k.cp, 1)
  <2>1. CPPart(v, p) = ServerLines(name, n, server, disk, gb)
        /\ CPPart(v, k) = ServerLines(name, m, server, disk, gb)
    BY <1>1, <1>3
  <2>2. n \in Nat /\ m \in Nat /\ n <= m
    BY GrownFields
  <2>3. name \in ServerNames /\ server \in Catalogue /\ disk \in Catalogue \union {"bundled"}
    BY DEF ServerNames, Catalogue, DisksOf
  <2> HIDE DEF name, server, n, m
  <2>4. Measured(ServerLines(name, n, server, disk, gb), g)
          <= Measured(ServerLines(name, m, server, disk, gb), h)
    BY <2>2, <2>3, ServersGrow
  <2> QED BY <2>1, <2>4
<1> QED BY <1>2, <1>3, ControlPlaneKinds

\* Nor are the workers.
LEMMA WorkersGrow ==
  ASSUME NEW v \in Clouds, NEW p, IsPlan(p), NEW k, IsPlan(k), Grown(p, k),
         NEW g \in [BillRows -> Nat], NEW h \in [BillRows -> Nat], Below(g, h)
  PROVE  Measured(WKPart(v, p), g) <= Measured(WKPart(v, k), h)
<1>1. k.mode = p.mode /\ k.wkDisk = p.wkDisk /\ k.pods = p.pods
  BY GrownFields
<1>2. CASE \A j : j.mode = p.mode => WKPart(v, j) = FargateLines(j)
  <2>1. WKPart(v, p) = FargateLines(p) /\ WKPart(v, k) = FargateLines(k)
    BY <1>1, <1>2
  <2>2. FargateLines(k) = FargateLines(p)
    BY <1>1 DEF FargateLines
  <2> QED BY <2>1, <2>2, FargateIsOthers, OthersAreRows, SameLinesGrow
<1>3. ASSUME NEW disk \in DisksOf(v), NEW gb \in Nat,
             \A j : j.mode = p.mode /\ j.wkDisk = p.wkDisk =>
               WKPart(v, j) = ServerLines("workers", Count(j.wk, 0), "server", disk, gb)
      PROVE  Measured(WKPart(v, p), g) <= Measured(WKPart(v, k), h)
  <2> DEFINE name == "workers"
             server == "server"
             n == Count(p.wk, 0)
             m == Count(k.wk, 0)
  <2>1. WKPart(v, p) = ServerLines(name, n, server, disk, gb)
        /\ WKPart(v, k) = ServerLines(name, m, server, disk, gb)
    BY <1>1, <1>3
  <2>2. n \in Nat /\ m \in Nat /\ n <= m
    BY GrownFields
  <2>3. name \in ServerNames /\ server \in Catalogue /\ disk \in Catalogue \union {"bundled"}
    BY DEF ServerNames, Catalogue, DisksOf
  <2> HIDE DEF name, server, n, m
  <2>4. Measured(ServerLines(name, n, server, disk, gb), g)
          <= Measured(ServerLines(name, m, server, disk, gb), h)
    BY <2>2, <2>3, ServersGrow
  <2> QED BY <2>1, <2>4
<1> QED BY <1>2, <1>3, WorkerKinds

\* Nor is the management cluster.
LEMMA MgmtGrows ==
  ASSUME NEW v \in Clouds, NEW p, IsPlan(p), NEW k, IsPlan(k), Grown(p, k),
         NEW g \in [BillRows -> Nat], NEW h \in [BillRows -> Nat], Below(g, h)
  PROVE  Measured(MGPart(v, p), g) <= Measured(MGPart(v, k), h)
<1>1. k.pivot = p.pivot /\ k.mcpDisk = p.mcpDisk
  BY GrownFields
<1>2. CASE \A j : j.pivot = p.pivot => MGPart(v, j) = <<>>
  <2> DEFINE s == MGPart(v, p)
  <2>1. s = MGPart(v, k) /\ s \in Seq(BillRows)
    <3>1. MGPart(v, p) = <<>> /\ MGPart(v, k) = <<>>
      BY <1>1, <1>2
    <3> QED BY <3>1
  <2> HIDE DEF s
  <2>2. Measured(s, g) <= Measured(s, h)
    BY <2>1, SameLinesGrow
  <2> QED BY <2>1, <2>2 DEF s
<1>3. ASSUME NEW disk \in DisksOf(v), NEW gb \in Nat,
             \A j : j.pivot = p.pivot /\ j.mcpDisk = p.mcpDisk =>
               MGPart(v, j) = ServerLines("mgmt", Count(j.mcp, 1), "mgmt server", disk, gb)
      PROVE  Measured(MGPart(v, p), g) <= Measured(MGPart(v, k), h)
  <2> DEFINE name == "mgmt"
             server == "mgmt server"
             n == Count(p.mcp, 1)
             m == Count(k.mcp, 1)
  <2>1. MGPart(v, p) = ServerLines(name, n, server, disk, gb)
        /\ MGPart(v, k) = ServerLines(name, m, server, disk, gb)
    BY <1>1, <1>3
  <2>2. n \in Nat /\ m \in Nat /\ n <= m
    BY GrownFields
  <2>3. name \in ServerNames /\ server \in Catalogue /\ disk \in Catalogue \union {"bundled"}
    BY DEF ServerNames, Catalogue, DisksOf
  <2> HIDE DEF name, server, n, m
  <2>4. Measured(ServerLines(name, n, server, disk, gb), g)
          <= Measured(ServerLines(name, m, server, disk, gb), h)
    BY <2>2, <2>3, ServersGrow
  <2> QED BY <2>1, <2>4
<1>4. \/ \A j : j.pivot = p.pivot => MGPart(v, j) = <<>>
      \/ \E disk \in DisksOf(v), gb \in Nat :
           \A j : j.pivot = p.pivot /\ j.mcpDisk = p.mcpDisk =>
             MGPart(v, j) = ServerLines("mgmt", Count(j.mcp, 1), "mgmt server", disk, gb)
  BY MgmtKinds
<1> QED BY <1>2, <1>3, <1>4

\* The same products have a price.
SameAnswers(q, t) == \A x \in Catalogue : q[x] = NoAnswer <=> t[x] = NoAnswer

\* Add-ons, database and overhead do not depend on the machines.
LEMMA RestStays ==
  ASSUME NEW v \in Clouds, NEW p, IsPlan(p), NEW k, IsPlan(k), Grown(p, k),
         NEW q, NEW t, SameAnswers(q, t)
  PROVE  /\ AddonLines(k) = AddonLines(p)
         /\ PGPart(v, k, t) = PGPart(v, p, q)
         /\ OverheadPart(v, k, t) = OverheadPart(v, p, q)
<1>1. k.addons = p.addons /\ k.override = p.override /\ k.managedPG = p.managedPG
      /\ k.tier = p.tier /\ k.awsCount = p.awsCount
  BY GrownFields
<1>2. AddonLines(k) = AddonLines(p)
  <2>1. \A svc : EffectiveFootprint(k, svc) = EffectiveFootprint(p, svc)
    BY <1>1 DEF EffectiveFootprint
  <2> DEFINE L(j, svc) == LineIf(svc \in j.addons /\ AddonCents(EffectiveFootprint(j, svc)) > 0,
                               Line(svc, 1, [one \in {"cent"} |-> AddonCents(EffectiveFootprint(j, svc))]))
  <2>2. ASSUME NEW svc PROVE L(k, svc) = L(p, svc)
    <3> DEFINE c == AddonCents(EffectiveFootprint(p, svc))
    <3>1. c = AddonCents(EffectiveFootprint(k, svc))
      BY <2>1
    <3> HIDE DEF c
    <3>2. /\ L(p, svc) = LineIf(svc \in p.addons /\ c > 0, Line(svc, 1, [one \in {"cent"} |-> c]))
          /\ L(k, svc) = LineIf(svc \in p.addons /\ c > 0, Line(svc, 1, [one \in {"cent"} |-> c]))
      BY <1>1, <3>1 DEF c
    <3> QED BY <3>2
  <2>3. /\ AddonLines(k) = L(k, "queue") \o L(k, "objstore") \o L(k, "cache")
        /\ AddonLines(p) = L(p, "queue") \o L(p, "objstore") \o L(p, "cache")
    BY DEF AddonLines
  <2> HIDE DEF L
  <2> QED BY <2>2, <2>3
<1>3. PGPart(v, k, t) = PGPart(v, p, q)
  <2>1. "pg" \in Catalogue
    BY DEF Catalogue
  <2>2. q["pg"] = NoAnswer <=> t["pg"] = NoAnswer
    BY <2>1 DEF SameAnswers
  <2>3. PostgresLines(v, k, t) = PostgresLines(v, p, q)
    BY <1>1, <2>2 DEF PostgresLines, LineIf
  <2> QED BY <2>3 DEF PGPart
<1>4. AWSOverheadLines(k) = AWSOverheadLines(p)
  <2>1. AWSOverhead(k) = AWSOverhead(p)
    BY <1>1 DEF AWSOverhead
  <2> QED BY <2>1 DEF AWSOverheadLines
<1>5. AzureOverheadLines(k) = AzureOverheadLines(p)
  <2>1. AzureOverhead(k) = AzureOverhead(p)
    BY <1>1 DEF AzureOverhead
  <2> QED BY <2>1 DEF AzureOverheadLines
<1>6. GCPOverheadLines(k) = GCPOverheadLines(p)
  <2>1. GCPOverhead(k) = GCPOverhead(p)
    BY <1>1 DEF GCPOverhead
  <2> QED BY <2>1 DEF GCPOverheadLines
<1>7. HetznerOverheadLines(k, t) = HetznerOverheadLines(p, q)
  <2>1. HetznerOverhead(k) = HetznerOverhead(p)
    BY <1>1 DEF HetznerOverhead
  <2>2. ASSUME NEW product \in Catalogue
        PROVE  [x \in {y \in {product} : t[y] # NoAnswer} |-> 1]
                 = [x \in {y \in {product} : q[y] # NoAnswer} |-> 1]
    <3> DEFINE A == {y \in {product} : t[y] # NoAnswer}
               B == {y \in {product} : q[y] # NoAnswer}
    <3>1. A = B
      BY DEF SameAnswers
    <3> HIDE DEF A, B
    <3>2. [x \in A |-> 1] = [x \in B |-> 1]
      BY <3>1
    <3> QED BY <3>2 DEF A, B
  <2>3. {"lb11", "lb21", "ip"} \subseteq Catalogue
    BY DEF Catalogue
  <2> DEFINE T(name, n, product, r) ==
               LineIf(n > 0, Line(name, n, [x \in {y \in {product} : r[y] # NoAnswer} |-> 1]))
  <2>4. ASSUME NEW name, NEW n, NEW product \in Catalogue
        PROVE  T(name, n, product, t) = T(name, n, product, q)
    BY <2>2
  <2> DEFINE d == HetznerOverhead(p)
             V == LineIf(d.gb > 0, Line("volumes", 1, [x \in {"gb"} |-> d.gb]))
  <2>5. HetznerOverheadLines(p, q)
          = T("lb", d.lb11, "lb11", q) \o T("lb", d.lb21, "lb21", q) \o T("ip", d.ip, "ip", q) \o V
    BY DEF HetznerOverheadLines
  <2>6. HetznerOverheadLines(k, t)
          = T("lb", d.lb11, "lb11", t) \o T("lb", d.lb21, "lb21", t) \o T("ip", d.ip, "ip", t) \o V
    BY <2>1 DEF HetznerOverheadLines
  <2> HIDE DEF T, d, V
  <2> QED BY <2>3, <2>4, <2>5, <2>6
<1> QED BY <1>2, <1>3, <1>4, <1>5, <1>6, <1>7 DEF OverheadPart

\* A bill of no fewer machines at no lower prices is no smaller, whichever of
\* its lines are measured.
LEMMA BillGrows ==
  ASSUME NEW v \in Clouds, NEW p, IsPlan(p), NEW k, IsPlan(k), Grown(p, k),
         NEW q, NEW t, SameAnswers(q, t),
         NEW g \in [BillRows -> Nat], NEW h \in [BillRows -> Nat], Below(g, h)
  PROVE  Measured(BillOf(v, p, q), g) <= Measured(BillOf(v, k, t), h)
<1> DEFINE a1 == Measured(CPPart(v, p), g)
           a2 == Measured(CPPart(v, k), h)
           b1 == Measured(WKPart(v, p), g)
           b2 == Measured(WKPart(v, k), h)
           c1 == Measured(MGPart(v, p), g)
           c2 == Measured(MGPart(v, k), h)
           d1 == Measured(PGPart(v, p, q), g)
           d2 == Measured(PGPart(v, k, t), h)
           e1 == Measured(AddonLines(p), g)
           e2 == Measured(AddonLines(k), h)
           f1 == Measured(OverheadPart(v, p, q), g)
           f2 == Measured(OverheadPart(v, k, t), h)
           m1 == Measured(BillOf(v, p, q), g)
           m2 == Measured(BillOf(v, k, t), h)
<1>1. g \in [BillRows -> Int] /\ h \in [BillRows -> Int]
  OBVIOUS
<1>2. m1 = a1 + b1 + c1 + d1 + e1 + f1 /\ {a1, b1, c1, d1, e1, f1} \subseteq Int
  BY <1>1, BillMeasured
<1>3. m2 = a2 + b2 + c2 + d2 + e2 + f2 /\ {a2, b2, c2, d2, e2, f2} \subseteq Int
  BY <1>1, BillMeasured
<1>4. a1 <= a2 /\ b1 <= b2 /\ c1 <= c2
  BY ControlPlaneGrows, WorkersGrow, MgmtGrows
<1>5. /\ PGPart(v, p, q) \in Seq(BillRows) /\ AddonLines(p) \in Seq(BillRows)
      /\ OverheadPart(v, p, q) \in Seq(BillRows)
  BY PartsAreRows, OthersAreRows
<1>6. d1 <= d2 /\ e1 <= e2 /\ f1 <= f2
  <2>1. \A s \in Seq(BillRows) : Measured(s, g) <= Measured(s, h)
    BY SameLinesGrow
  <2>2. /\ AddonLines(k) = AddonLines(p) /\ PGPart(v, k, t) = PGPart(v, p, q)
        /\ OverheadPart(v, k, t) = OverheadPart(v, p, q)
    BY RestStays
  <2> QED BY <1>5, <2>1, <2>2
<1> HIDE DEF a1, a2, b1, b2, c1, c2, d1, d2, e1, e2, f1, f2, m1, m2
<1>7. m1 <= m2
  BY <1>2, <1>3, <1>4, <1>6
<1> QED BY <1>7 DEF m1, m2

\* Where every product of a line has a price, the price is the amount.
LEMMA PaidInFull ==
  ASSUME NEW q, IsPrice(q), NEW r \in BillRows, \A x \in DOMAIN r.rates : q[x] # NoAnswer
  PROVE  Subtotal(r, q) = At(Amount(q))[r]
<1> DEFINE P == DOMAIN r.rates
           a == Amount(q)
<1>1. P \subseteq Catalogue
  <2>1. r.rates \in Rates0
    BY DEF BillRows, RowsOf
  <2>2. PICK C \in SUBSET Catalogue : r.rates \in [C -> Nat]
    BY <2>1 DEF Rates0
  <2> QED BY <2>2
<1>2. \A x \in P : a[x] = q[x]
  BY <1>1 DEF Amount
<1>3. Unit(r, q) = SumFunction([x \in P |-> r.rates[x] * q[x]])
      /\ Unit(r, a) = SumFunction([x \in P |-> r.rates[x] * a[x]])
  BY DEF Unit
<1>4. [x \in P |-> r.rates[x] * q[x]] = [x \in P |-> r.rates[x] * a[x]]
  BY <1>2
<1>5. Unit(r, q) = Unit(r, a)
  BY <1>3, <1>4
<1> QED BY <1>5 DEF At, Subtotal

\* Amounts are numbers.
LEMMA AmountsAreNumbers == \A q : IsPrice(q) => Amount(q) \in [Catalogue -> Nat]
BY DEF Amount, IsPrice

\* What hetzner backs up.
BackedUp(v, p) == v = "hetzner" /\ HetznerOverhead(p).backups

\* An estimate is what is measured of the bill, and a fifth of its servers
\* where they are backed up.
LEMMA EstimateIsMeasured ==
  ASSUME NEW v \in Clouds, NEW p, IsPlan(p), NEW q, IsPrice(q)
  PROVE  /\ Measured(BillOf(v, p, q), At(Amount(q))) \in Nat
         /\ Measured(BillOf(v, p, q), ServersAt(Amount(q))) \in Nat
         /\ EstimateMonthlyCost(v, p, q) # NoAnswer =>
              EstimateMonthlyCost(v, p, q)
                = Measured(BillOf(v, p, q), At(Amount(q)))
                  + IF BackedUp(v, p)
                    THEN Measured(BillOf(v, p, q), ServersAt(Amount(q))) \div 5 ELSE 0
         /\ EstimateMonthlyCost(v, p, q) \in Nat \union {NoAnswer}
<1> DEFINE b == BillOf(v, p, q)
           a == Amount(q)
           m == Measured(b, At(a))
           s == Measured(b, ServersAt(a))
           E == EstimateMonthlyCost(v, p, q)
           X == m + IF BackedUp(v, p) THEN s \div 5 ELSE 0
<1>1. a \in [Catalogue -> Nat]
  BY AmountsAreNumbers
<1>2. At(a) \in [BillRows -> Nat] /\ ServersAt(a) \in [BillRows -> Nat]
  <2>1. \A x \in Catalogue : a[x] <= a[x]
    BY <1>1
  <2> HIDE DEF a
  <2> QED BY <1>1, <2>1, LinesCost
<1>3. b \in Seq(BillRows) /\ \A i \in DOMAIN b : b[i] \in BillRows
  <2> DEFINE g == At(a)
  <2>1. g \in [BillRows -> Int]
    BY <1>2
  <2> HIDE DEF g
  <2>2. b \in Seq(BillRows)
    BY <2>1, BillMeasured
  <2> HIDE DEF b
  <2> QED BY <2>2
<1>4. E = IF \E x \in Products(b) \union AskedFor(v) : q[x] = NoAnswer THEN NoAnswer
          ELSE Total(b, q) + Backup(v, p, b, q)
  BY DEF EstimateMonthlyCost
<1> HIDE DEF b, a, E
<1>5. m \in Nat /\ s \in Nat
  BY <1>2, <1>3, MeasuredGrows
<1>6. ASSUME E # NoAnswer PROVE E = X
  <2>1. \A x \in Products(b) : q[x] # NoAnswer
    BY <1>4, <1>6
  <2>2. \A i \in DOMAIN b : \A x \in DOMAIN b[i].rates : q[x] # NoAnswer
    BY <2>1 DEF Products
  <2>3. \A i \in DOMAIN b : Subtotal(b[i], q) = At(a)[b[i]]
    BY <1>3, <2>2, PaidInFull DEF a
  <2>4. Total(b, q) = m
    <3>1. [i \in DOMAIN b |-> Subtotal(b[i], q)] = [i \in DOMAIN b |-> At(a)[b[i]]]
      BY <2>3
    <3> QED BY <3>1 DEF Total, Measured
  <2>5. SumFunction([i \in DOMAIN b |-> IF b[i].name \in {"control-plane", "workers", "mgmt"}
                                        THEN Subtotal(b[i], q) ELSE 0]) = s
    <3>1. \A i \in DOMAIN b : (IF b[i].name \in {"control-plane", "workers", "mgmt"}
                               THEN Subtotal(b[i], q) ELSE 0) = ServersAt(a)[b[i]]
      BY <1>3, <2>3 DEF ServersAt, ServerNames
    <3>2. [i \in DOMAIN b |-> IF b[i].name \in {"control-plane", "workers", "mgmt"}
                              THEN Subtotal(b[i], q) ELSE 0]
            = [i \in DOMAIN b |-> ServersAt(a)[b[i]]]
      BY <3>1
    <3> QED BY <3>2 DEF Measured
  <2>6. Backup(v, p, b, q) = IF BackedUp(v, p) THEN s \div 5 ELSE 0
    BY <2>5 DEF Backup, BackedUp
  <2>7. E = Total(b, q) + Backup(v, p, b, q)
    BY <1>4, <1>6
  <2> HIDE DEF m, s
  <2> QED BY <2>4, <2>6, <2>7
<1>7. X \in Nat
  <2> HIDE DEF m, s
  <2>1. s \div 5 \in Nat
    BY <1>5
  <2> QED BY <1>5, <2>1
<1>8. E \in Nat \union {NoAnswer}
  <2> HIDE DEF X
  <2> QED BY <1>6, <1>7
<1> QED BY <1>5, <1>6, <1>8 DEF b, a, E

\* With no fewer machines and no lower prices an estimate does not drop.
LEMMA EstimateGrows ==
  ASSUME NEW v \in Clouds, NEW p, IsPlan(p), NEW k, IsPlan(k), Grown(p, k),
         NEW q, IsPrice(q), NEW t, IsPrice(t), Dearer(q, t),
         EstimateMonthlyCost(v, p, q) # NoAnswer, EstimateMonthlyCost(v, k, t) # NoAnswer
  PROVE  EstimateMonthlyCost(v, p, q) <= EstimateMonthlyCost(v, k, t)
<1> DEFINE a == Amount(q)
           c == Amount(t)
           m1 == Measured(BillOf(v, p, q), At(a))
           m2 == Measured(BillOf(v, k, t), At(c))
           s1 == Measured(BillOf(v, p, q), ServersAt(a))
           s2 == Measured(BillOf(v, k, t), ServersAt(c))
           E1 == EstimateMonthlyCost(v, p, q)
           E2 == EstimateMonthlyCost(v, k, t)
<1>1. SameAnswers(q, t)
  BY DEF IsPrice, Dearer, SameAnswers
<1>2. a \in [Catalogue -> Nat] /\ c \in [Catalogue -> Nat] /\ \A x \in Catalogue : a[x] <= c[x]
  <2>1. \A x \in Catalogue : a[x] <= c[x]
    BY DEF IsPrice, Dearer, Amount
  <2> QED BY <2>1, AmountsAreNumbers
<1>3. /\ At(a) \in [BillRows -> Nat] /\ ServersAt(a) \in [BillRows -> Nat]
      /\ Below(At(a), At(c)) /\ Below(ServersAt(a), ServersAt(c))
  <2> HIDE DEF a, c
  <2> QED BY <1>2, LinesCost
<1>4. At(c) \in [BillRows -> Nat] /\ ServersAt(c) \in [BillRows -> Nat]
  <2>1. \A x \in Catalogue : c[x] <= c[x]
    BY <1>2
  <2> HIDE DEF c
  <2> QED BY <1>2, <2>1, LinesCost
<1>5. m1 <= m2
  <2> DEFINE g == At(a)
             h == At(c)
  <2>1. g \in [BillRows -> Nat] /\ h \in [BillRows -> Nat] /\ Below(g, h)
    BY <1>3, <1>4
  <2> HIDE DEF g, h
  <2>2. Measured(BillOf(v, p, q), g) <= Measured(BillOf(v, k, t), h)
    BY <1>1, <2>1, BillGrows
  <2> QED BY <2>2 DEF g, h
<1>6. s1 <= s2
  <2> DEFINE g == ServersAt(a)
             h == ServersAt(c)
  <2>1. g \in [BillRows -> Nat] /\ h \in [BillRows -> Nat] /\ Below(g, h)
    BY <1>3, <1>4
  <2> HIDE DEF g, h
  <2>2. Measured(BillOf(v, p, q), g) <= Measured(BillOf(v, k, t), h)
    BY <1>1, <2>1, BillGrows
  <2> QED BY <2>2 DEF g, h
<1>7. HetznerOverhead(k) = HetznerOverhead(p)
  BY GrownFields DEF HetznerOverhead
<1>8. /\ m1 \in Nat /\ s1 \in Nat /\ m2 \in Nat /\ s2 \in Nat
      /\ E1 = m1 + IF BackedUp(v, p) THEN s1 \div 5 ELSE 0
      /\ E2 = m2 + IF BackedUp(v, k) THEN s2 \div 5 ELSE 0
  BY EstimateIsMeasured
<1>9. BackedUp(v, k) = BackedUp(v, p)
  BY <1>7 DEF BackedUp
<1> HIDE DEF m1, m2, s1, s2, E1, E2
<1>10. E1 <= E2
  <2>1. s1 \div 5 \in Nat /\ s2 \div 5 \in Nat /\ s1 \div 5 <= s2 \div 5
    BY <1>6, <1>8
  <2>2. CASE BackedUp(v, p)
    BY <1>5, <1>8, <1>9, <2>1, <2>2
  <2>3. CASE ~ BackedUp(v, p)
    BY <1>5, <1>8, <1>9, <2>3
  <2> QED BY <2>2, <2>3
<1> QED BY <1>10 DEF E1, E2

\* Under a dearer total the budget keeps no more.
LEMMA DearerKeepsLess ==
  ASSUME NEW a \in Nat, NEW c \in Nat, a <= c, NEW b \in Int
  PROVE  RetentionAtBudget(b, c, 1) <= RetentionAtBudget(b, a, 1)
<1>1. 1 # NoAnswer /\ ~ (1 <= 0)
  BY NoAnswerIsNoNumber
<1>2. RetentionAtBudget(b, a, 1) = (IF b <= a THEN 0 ELSE (b - a) \div 1)
      /\ RetentionAtBudget(b, c, 1) = (IF b <= c THEN 0 ELSE (b - c) \div 1)
  BY <1>1 DEF RetentionAtBudget
<1> QED BY <1>2

\* What is dearer moves past no row.
LEMMA DearerStaysBehind ==
  ASSUME NEW was, NEW is, NEW r, was.total \in Nat, is.total \in Nat, was.total <= is.total,
         was.total > 0, r.total \in Nat \union {NoAnswer}, Before(is, r)
  PROVE  Before(was, r)
<1> DEFINE a == was.total
           b == is.total
           c == r.total
<1>1. a \in Nat /\ b \in Nat /\ a <= b /\ a > 0 /\ c \in Nat \union {NoAnswer}
  OBVIOUS
<1>2. a # NoAnswer /\ b # NoAnswer
  BY <1>1, NoAnswerIsNoNumber
<1>3. \/ b > 0 /\ ~ (c # NoAnswer /\ c > 0)
      \/ b > 0 /\ c # NoAnswer /\ c > 0 /\ b < c
  BY <1>2 DEF Before
<1> HIDE DEF a, b, c
<1>4. \/ ~ (c # NoAnswer /\ c > 0)
      \/ c # NoAnswer /\ c > 0 /\ a < c
  BY <1>1, <1>3
<1> QED BY <1>1, <1>2, <1>4 DEF Before, a, b, c

\* A plan is one for another vendor too.
LEMMA OtherVendor ==
  ASSUME NEW p, IsPlan(p), NEW v \in Clouds
  PROVE  IsPlan([p EXCEPT !.vendor = v]) /\ [p EXCEPT !.vendor = p.vendor] = p
<1> DEFINE k == [p EXCEPT !.vendor = v]
<1>1. /\ DOMAIN k = DOMAIN p /\ k = [f \in DOMAIN k |-> k[f]]
      /\ k.vendor = v
      /\ \A f \in DOMAIN p : f # "vendor" => k[f] = p[f]
  BY DEF IsPlan
<1> HIDE DEF k
<1>2. IsPlan(k)
  BY <1>1 DEF IsPlan
<1>3. [p EXCEPT !.vendor = p.vendor] = p
  BY DEF IsPlan
<1> QED BY <1>2, <1>3 DEF k

\* Whoever has a plan asks for a bill.
LEMMA PlansAsk == ASSUME NEW p, IsPlan(p) PROVE Asks(p)
BY DEF IsPlan, Asks, NoSession

\* While an operator adds machines and prices rise, no bill drops, the budget
\* keeps no more storage and no row of the comparison that stayed is overtaken.
THEOREM BillsOnlyRise == EstimatesSpec => BillsAreMonotone
<1> DEFINE Rises ==
      Asks(plan) /\ plan'.vendor = plan.vendor =>
       LET old == EstimateMonthlyCost(plan.vendor, plan, price)
           new == EstimateMonthlyCost(plan.vendor, plan', price')
           was == ComparedRow(plan.vendor, plan, price)
           is == ComparedRow(plan.vendor, plan', price')
           Then(v) == ComparedRow(v, plan, price)
           Now(v) == ComparedRow(v, plan', price')
           Kept(b) == PlanRetention(plan, price, b, 1)
           Keeps(b) == PlanRetention(plan', price', b, 1)
       IN /\ \A f \in DOMAIN plan \ {"cp", "wk", "mcp"} : plan'[f] = plan[f]
          /\ \A f \in {"cp", "wk", "mcp"} : Count(plan'[f], 0) >= Count(plan[f], 0)
          /\ Dearer(price, price')
          /\ old # NoAnswer /\ new # NoAnswer
          => /\ new >= old
             /\ \A b \in Budgets : b > 0 => Keeps(b) <= Kept(b)
             /\ \A v \in Compared(Shown) \ {plan.vendor} :
                  old > 0 /\ Before(is, Now(v)) /\ Now(v) = Then(v) => Before(was, Then(v))
<1>1. ASSUME BillInv, BillInv', [EstimatesNext]_estimatesVars PROVE Rises
  <2> DEFINE k == plan'
             t == price'
             u == plan.vendor
             old == EstimateMonthlyCost(u, plan, price)
             new == EstimateMonthlyCost(u, k, t)
  <2> SUFFICES ASSUME Asks(plan), k.vendor = u, Grown(plan, k), Dearer(price, t),
                      old # NoAnswer, new # NoAnswer
               PROVE  /\ new >= old
                      /\ \A b \in Budgets :
                           b > 0 => PlanRetention(k, t, b, 1) <= PlanRetention(plan, price, b, 1)
                      /\ \A v \in Compared(Shown) \ {u} :
                           old > 0 /\ Before(ComparedRow(u, k, t), ComparedRow(v, k, t))
                           /\ ComparedRow(v, k, t) = ComparedRow(v, plan, price)
                           => Before(ComparedRow(u, plan, price), ComparedRow(v, plan, price))
    BY DEF Grown
  <2>1. IsPlan(plan) /\ IsPrice(price)
    BY <1>1 DEF BillInv
  <2>2. Asks(k)
    <3>1. CASE AddMachine
      <4>1. PICK f, n : k = [plan EXCEPT ![f] = n]
        BY <3>1 DEF AddMachine
      <4>2. DOMAIN k = DOMAIN plan
        BY <4>1
      <4> HIDE DEF k
      <4> QED BY <2>1, <4>2 DEF IsPlan, Asks, NoSession
    <3>2. CASE SetPlan
      <4>1. IsPlan(k)
        BY <3>2, PlansAssumption DEF SetPlan
      <4> HIDE DEF k
      <4> QED BY <4>1, PlansAsk
    <3>3. CASE k = plan
      BY <3>3
    <3> QED BY <1>1, <3>1, <3>2, <3>3
         DEF EstimatesNext, SetBudget, SetNeed, QuoteMoves, PriceMoves, estimatesVars
  <2>3. IsPlan(k) /\ IsPrice(t)
    BY <1>1, <2>2 DEF BillInv, Asks
  <2>4. u \in Clouds
    BY <2>1 DEF IsPlan
  <2> HIDE DEF k, t
  <2>5. old \in Nat /\ new \in Nat
    BY <2>1, <2>3, <2>4, EstimateIsMeasured
  <2>6. old <= new
    BY <2>1, <2>3, <2>4, EstimateGrows
  <2>7. ASSUME NEW b \in Budgets, b > 0
        PROVE  PlanRetention(k, t, b, 1) <= PlanRetention(plan, price, b, 1)
    <3>1. b \in Int /\ ~ (b <= 0)
      BY <2>7, EditsAssumption
    <3>2. /\ PlanRetention(plan, price, b, 1) = RetentionAtBudget(b, old, 1)
          /\ PlanRetention(k, t, b, 1) = RetentionAtBudget(b, new, 1)
      BY <3>1 DEF PlanRetention
    <3> HIDE DEF old, new
    <3> QED BY <2>5, <2>6, <3>1, <3>2, DearerKeepsLess
  <2>8. ASSUME NEW v \in Compared(Shown) \ {u}, old > 0,
               Before(ComparedRow(u, k, t), ComparedRow(v, k, t)),
               ComparedRow(v, k, t) = ComparedRow(v, plan, price)
        PROVE  Before(ComparedRow(u, plan, price), ComparedRow(v, plan, price))
    <3>1. v \in Clouds
      BY DEF Compared, Shown, InScope
    <3>2. /\ [plan EXCEPT !.vendor = u] = plan /\ [k EXCEPT !.vendor = u] = k
          /\ IsPlan([plan EXCEPT !.vendor = v])
      BY <2>1, <2>3, <3>1, OtherVendor
    <3> DEFINE was == ComparedRow(u, plan, price)
               is == ComparedRow(u, k, t)
               r == ComparedRow(v, plan, price)
    <3>3. was.total = old /\ is.total = new
      BY <3>2 DEF ComparedRow
    <3>4. r.total \in Nat \union {NoAnswer}
      <4> DEFINE p == [plan EXCEPT !.vendor = v]
      <4>1. IsPlan(p) /\ r.total = EstimateMonthlyCost(v, p, price)
        BY <3>2 DEF ComparedRow
      <4> HIDE DEF p
      <4> QED BY <2>1, <3>1, <4>1, EstimateIsMeasured
    <3>5. Before(is, r)
      BY <2>8
    <3> HIDE DEF was, is, r, old, new
    <3>6. Before(was, r)
      BY <2>5, <2>6, <2>8, <3>3, <3>4, <3>5, DearerStaysBehind
    <3> QED BY <3>6 DEF was, r
  <2> QED BY <2>5, <2>6, <2>7, <2>8
<1>2. BillInv /\ BillInv' /\ [EstimatesNext]_estimatesVars => [Rises]_estimatesVars
  BY <1>1
<1>3. EstimatesSpec => [][EstimatesNext]_estimatesVars
  BY DEF EstimatesSpec
<1> QED BY <1>2, <1>3, AlwaysBills, PTL DEF BillsAreMonotone

------------------------------------------------------------------------------
(* Price lookups (Catalogues, Quotations).  Sets of numbers are compared by *)
(* their least and their greatest; every search, choice and sum of a lookup *)
(* keeps that order, so a quote follows its rows.                           *)

\* Two rows that differ in the amount at most, and not in whether there is one.
SameOffer(r, s) ==
  /\ s.has = r.has /\ s.at = r.at /\ s.pos = r.pos /\ s.tier = r.tier
  /\ r.usd <= s.usd /\ (r.usd > 0 <=> s.usd > 0)

\* Rows as a vendor answers them.
AreRows(R) == IsFiniteSet(R) /\ \A r \in R : r.usd \in Nat /\ r.pos \in Int /\ r.tier \in Int

\* The rows of S are those of R with amounts that are not lower.
Raised(R, S) ==
  /\ AreRows(R) /\ AreRows(S)
  /\ \A r \in R : \E s \in S : SameOffer(r, s)
  /\ \A s \in S : \E r \in R : SameOffer(r, s)

\* a is the least and b the greatest number of P.
Spans(P, a, b) == P \subseteq Nat /\ a \in P /\ b \in P /\ \A x \in P : a <= x /\ x <= b

\* The least and the greatest number of Q are no lower than those of P.
NoCheaper(P, Q) ==
  \/ P = {} /\ Q = {}
  \/ \E a, b \in P, c, d \in Q : Spans(P, a, b) /\ Spans(Q, c, d) /\ a <= c /\ b <= d

\* A finite set of numbers that is not empty has a greatest one.
LEMMA SomeGreatest ==
  ASSUME NEW P, IsFiniteSet(P)
  PROVE  P \subseteq Nat /\ P # {} => \E b \in P : \A x \in P : x <= b
<1> DEFINE B == {U \in SUBSET P : U # {} /\ ~ \E b \in U : \A x \in U : x <= b}
<1>0. B # {} => \E U \in B : \A V \in B : V \subseteq U => V = U
  <2>1. B \in SUBSET SUBSET P
    OBVIOUS
  <2> HIDE DEF B
  <2> QED BY <2>1, Smallest
<1> SUFFICES ASSUME P \subseteq Nat, P # {}, B # {} PROVE FALSE
  OBVIOUS
<1>1. PICK U \in B : \A V \in B : V \subseteq U => V = U
  BY <1>0
<1>2. PICK x \in U : TRUE
  OBVIOUS
<1> DEFINE W == U \ {x}
<1>3. W # {}
  <2> SUFFICES ASSUME W = {} PROVE FALSE
    OBVIOUS
  <2>1. U = {x} /\ x \in Nat
    BY <1>2
  <2> QED BY <2>1
<1>4. W \notin B
  BY <1>1, <1>2
<1>5. PICK m \in W : \A y \in W : y <= m
  BY <1>3, <1>4
<1>6. x \in Nat /\ m \in Nat
  BY <1>5
<1>7. CASE x <= m
  <2>1. \A y \in U : y <= m
    BY <1>5, <1>7
  <2> QED BY <2>1, <1>5
<1>8. CASE m <= x
  <2>1. \A y \in U : y <= x
    BY <1>5, <1>6, <1>8
  <2> QED BY <2>1, <1>2
<1> QED BY <1>6, <1>7, <1>8

\* A finite set of numbers that is not empty has a least and a greatest one.
LEMMA SomeSpan ==
  ASSUME NEW P \in SUBSET Nat, IsFiniteSet(P), P # {}
  PROVE  \E a, b \in P : Spans(P, a, b)
<1>1. \E b \in P : \A x \in P : x <= b
  BY SomeGreatest
<1>2. PICK b \in P : \A x \in P : x <= b
  BY <1>1
<1>3. Min(P) \in P /\ \A x \in P : Min(P) <= x
  BY MinIsLeast
<1> QED BY <1>2, <1>3 DEF Spans

\* They are what Min and Max find.
LEMMA SpanIsMinMax ==
  ASSUME NEW P, NEW a, NEW b, Spans(P, a, b)
  PROVE  Min(P) = a /\ Max(P) = b
<1>1. /\ a \in P /\ \A y \in P : a <= y
      /\ b \in P /\ \A y \in P : b >= y
  BY DEF Spans
<1>2. \A x \in P : (\A y \in P : x <= y) => x = a
  BY <1>1 DEF Spans
<1>3. \A x \in P : (\A y \in P : x >= y) => x = b
  BY <1>1 DEF Spans
<1>4. Min(P) \in P /\ \A y \in P : Min(P) <= y
  BY <1>1 DEF Min
<1>5. Max(P) \in P /\ \A y \in P : Max(P) >= y
  BY <1>1 DEF Max
<1> QED BY <1>2, <1>3, <1>4, <1>5

\* What a function that grows makes of numbers.
LEMMA GrowsThrough ==
  ASSUME NEW f \in [Nat -> Nat], \A x, y \in Nat : x <= y => f[x] <= f[y],
         NEW P, NEW Q, NoCheaper(P, Q)
  PROVE  NoCheaper({f[p] : p \in P}, {f[p] : p \in Q})
<1>1. CASE P = {} /\ Q = {}
  BY <1>1 DEF NoCheaper
<1>2. CASE ~ (P = {} /\ Q = {})
  <2>1. PICK a \in P, b \in P, c \in Q, d \in Q :
          Spans(P, a, b) /\ Spans(Q, c, d) /\ a <= c /\ b <= d
    BY <1>2 DEF NoCheaper
  <2> DEFINE A == {f[p] : p \in P}
             B == {f[p] : p \in Q}
  <2>2. Spans({f[p] : p \in P}, f[a], f[b])
    BY <2>1 DEF Spans
  <2>3. Spans({f[p] : p \in Q}, f[c], f[d])
    BY <2>1 DEF Spans
  <2>4. f[a] <= f[c] /\ f[b] <= f[d]
    BY <2>1 DEF Spans
  <2>5. f[a] \in A /\ f[b] \in A /\ f[c] \in B /\ f[d] \in B
    BY <2>1
  <2> HIDE DEF A, B
  <2>6. Spans(A, f[a], f[b]) /\ Spans(B, f[c], f[d])
    BY <2>2, <2>3 DEF A, B
  <2>7. NoCheaper(A, B)
    BY <2>4, <2>5, <2>6 DEF NoCheaper
  <2> QED BY <2>7 DEF A, B
<1> QED BY <1>1, <1>2

\* Multiples of numbers.
LEMMA MultiplesGrow ==
  ASSUME NEW n \in Nat, NEW P, NEW Q, NoCheaper(P, Q)
  PROVE  NoCheaper({n * p : p \in P}, {n * p : p \in Q})
<1> DEFINE f == [x \in Nat |-> n * x]
<1>1. f \in [Nat -> Nat] /\ \A x, y \in Nat : x <= y => f[x] <= f[y]
  BY MoreCostsMore
<1>2. P \subseteq Nat /\ Q \subseteq Nat
  BY DEF NoCheaper, Spans
<1>3. {f[p] : p \in P} = {n * p : p \in P} /\ {f[p] : p \in Q} = {n * p : p \in Q}
  BY <1>2
<1> HIDE DEF f
<1>4. NoCheaper({f[p] : p \in P}, {f[p] : p \in Q})
  BY <1>1, GrowsThrough
<1> QED BY <1>3, <1>4

\* A month of dearer hours, a multiple of dearer prices and dearer gigabytes
\* of a volume are dearer.
LEMMA MonthlyGrows ==
  ASSUME NEW P, NEW Q, NoCheaper(P, Q) PROVE NoCheaper(Monthly(P), Monthly(Q))
BY MultiplesGrow DEF Monthly, HoursAMonth

\* The same of a multiple.
LEMMA ScaledGrows ==
  ASSUME NEW n \in Nat, NEW P, NEW Q, NoCheaper(P, Q) PROVE NoCheaper(Scaled(P, n), Scaled(Q, n))
BY MultiplesGrow DEF Scaled

\* And of the gigabytes of a volume.
LEMMA VolumeGrows ==
  ASSUME NEW n \in Nat, NEW P, NEW Q, NoCheaper(P, Q) PROVE NoCheaper(Volume(P, n), Volume(Q, n))
BY MultiplesGrow DEF Volume

\* A sum of prices that are not lower is not lower.
LEMMA PlusGrows ==
  ASSUME NEW P, NEW Q, NoCheaper(P, Q), NEW V, NEW W, NoCheaper(V, W)
  PROVE  NoCheaper(Plus(P, V), Plus(Q, W))
<1>1. CASE P = {} /\ Q = {}
  BY <1>1 DEF Plus, NoCheaper
<1>2. CASE V = {} /\ W = {}
  BY <1>2 DEF Plus, NoCheaper
<1>3. CASE ~ (P = {} /\ Q = {}) /\ ~ (V = {} /\ W = {})
  <2>1. PICK a \in P, b \in P, c \in Q, d \in Q :
          Spans(P, a, b) /\ Spans(Q, c, d) /\ a <= c /\ b <= d
    BY <1>3 DEF NoCheaper
  <2>2. PICK g \in V, h \in V, k \in W, l \in W :
          Spans(V, g, h) /\ Spans(W, k, l) /\ g <= k /\ h <= l
    BY <1>3 DEF NoCheaper
  <2>3. Spans(Plus(P, V), a + g, b + h)
    BY <2>1, <2>2 DEF Spans, Plus
  <2>4. Spans(Plus(Q, W), c + k, d + l)
    BY <2>1, <2>2 DEF Spans, Plus
  <2>5. a + g <= c + k /\ b + h <= d + l
    BY <2>1, <2>2 DEF Spans
  <2> QED BY <2>3, <2>4, <2>5 DEF NoCheaper, Spans
<1> QED BY <1>1, <1>2, <1>3

\* One number that is no less.
LEMMA OneGrows ==
  ASSUME NEW m \in Nat, NEW n \in Nat, m <= n PROVE NoCheaper({m}, {n})
BY DEF NoCheaper, Spans

\* No number on either side.
LEMMA NoneGrows == NoCheaper(NoPrice, NoPrice)
BY DEF NoCheaper, NoPrice

\* A price, or another where there is none.
LEMMA OrElseGrows ==
  ASSUME NEW P, NEW Q, NoCheaper(P, Q), NEW V, NEW W, NoCheaper(V, W)
  PROVE  NoCheaper(OrElse(P, V), OrElse(Q, W))
<1>1. P = NoPrice <=> Q = NoPrice
  BY DEF NoCheaper, NoPrice
<1> QED BY <1>1 DEF OrElse

\* The least number of each.
LEMMA LeastGrows ==
  ASSUME NEW P, NEW Q, NoCheaper(P, Q), P # {}
  PROVE  Q # {} /\ NoCheaper({Min(P)}, {Min(Q)})
<1>1. PICK a \in P, b \in P, c \in Q, d \in Q :
        Spans(P, a, b) /\ Spans(Q, c, d) /\ a <= c /\ b <= d
  BY DEF NoCheaper
<1>2. Min(P) = a /\ Min(Q) = c
  BY <1>1, SpanIsMinMax
<1>3. a \in Nat /\ c \in Nat
  BY <1>1 DEF Spans
<1>4. NoCheaper({a}, {c})
  BY <1>1, <1>3, OneGrows
<1> QED BY <1>1, <1>2, <1>4

\* Pairs of rates, compared rate by rate.
PairSpans(A, a, b) ==
  /\ A \subseteq Nat \X Nat /\ a \in A /\ b \in A
  /\ \A x \in A : a[1] <= x[1] /\ x[1] <= b[1] /\ a[2] <= x[2] /\ x[2] <= b[2]

\* No rate of the pairs of B is lower than those of A.
PairsNoCheaper(A, B) ==
  \/ A = {} /\ B = {}
  \/ \E a, b \in A, c, d \in B :
       /\ PairSpans(A, a, b) /\ PairSpans(B, c, d)
       /\ a[1] <= c[1] /\ b[1] <= d[1] /\ a[2] <= c[2] /\ b[2] <= d[2]

\* Two rates that span make pairs that do.
LEMMA BothSpan ==
  ASSUME NEW P, NEW V, NEW a, NEW b, Spans(P, a, b), NEW g, NEW h, Spans(V, g, h)
  PROVE  PairSpans(Both(P, V), <<a, g>>, <<b, h>>)
<1>1. Both(P, V) \subseteq Nat \X Nat /\ <<a, g>> \in Both(P, V) /\ <<b, h>> \in Both(P, V)
  BY DEF Spans, Both
<1>2. ASSUME NEW x \in Both(P, V) PROVE a <= x[1] /\ x[1] <= b /\ g <= x[2] /\ x[2] <= h
  <2>1. x[1] \in P /\ x[2] \in V
    BY DEF Both
  <2> QED BY <2>1 DEF Spans
<1> QED BY <1>1, <1>2 DEF PairSpans

\* Two rates that are not lower make pairs that are not.
LEMMA BothGrow ==
  ASSUME NEW P, NEW Q, NoCheaper(P, Q), NEW V, NEW W, NoCheaper(V, W)
  PROVE  PairsNoCheaper(Both(P, V), Both(Q, W))
<1>1. CASE P = {} /\ Q = {}
  BY <1>1 DEF Both, PairsNoCheaper
<1>2. CASE V = {} /\ W = {}
  BY <1>2 DEF Both, PairsNoCheaper
<1>3. CASE ~ (P = {} /\ Q = {}) /\ ~ (V = {} /\ W = {})
  <2>1. PICK a \in P, b \in P, c \in Q, d \in Q :
          Spans(P, a, b) /\ Spans(Q, c, d) /\ a <= c /\ b <= d
    BY <1>3 DEF NoCheaper
  <2>2. PICK g \in V, h \in V, k \in W, l \in W :
          Spans(V, g, h) /\ Spans(W, k, l) /\ g <= k /\ h <= l
    BY <1>3 DEF NoCheaper
  <2> DEFINE A == Both(P, V)
             B == Both(Q, W)
  <2>3. PairSpans(A, <<a, g>>, <<b, h>>) /\ PairSpans(B, <<c, k>>, <<d, l>>)
    BY <2>1, <2>2, BothSpan
  <2>4. <<a, g>> \in A /\ <<b, h>> \in A /\ <<c, k>> \in B /\ <<d, l>> \in B
    BY <2>3 DEF PairSpans
  <2> HIDE DEF A, B
  <2>5. PairsNoCheaper(A, B)
    <3> DEFINE ag == <<a, g>>
               bh == <<b, h>>
               ck == <<c, k>>
               dl == <<d, l>>
    <3>1. /\ PairSpans(A, ag, bh) /\ PairSpans(B, ck, dl) /\ ag[1] <= ck[1] /\ bh[1] <= dl[1] /\ ag[2] <= ck[2] /\ bh[2] <= dl[2]
          /\ ag \in A /\ bh \in A /\ ck \in B /\ dl \in B
      BY <2>1, <2>2, <2>3, <2>4
    <3> HIDE DEF ag, bh, ck, dl
    <3> QED BY <3>1 DEF PairsNoCheaper
  <2> QED BY <2>5 DEF A, B
<1> QED BY <1>1, <1>2, <1>3

\* A pair of the list is itself.
LEMMA OnePairGrows ==
  ASSUME NEW m \in Nat, NEW n \in Nat PROVE PairsNoCheaper({<<m, n>>}, {<<m, n>>})
<1>1. PairSpans({<<m, n>>}, <<m, n>>, <<m, n>>)
  BY DEF PairSpans
<1> QED BY <1>1 DEF PairsNoCheaper

\* Pairs, or others where there are none.
LEMMA OrElsePairs ==
  ASSUME NEW A, NEW B, PairsNoCheaper(A, B), NEW C, NEW D, PairsNoCheaper(C, D)
  PROVE  PairsNoCheaper(OrElse(A, C), OrElse(B, D))
<1>1. A = NoPrice <=> B = NoPrice
  BY DEF PairsNoCheaper, NoPrice
<1> QED BY <1>1 DEF OrElse

\* A sum of multiples of the two rates.
LEMMA WeighedPairsGrow ==
  ASSUME NEW f \in [Nat \X Nat -> Nat],
         \A x, y \in Nat \X Nat : x[1] <= y[1] /\ x[2] <= y[2] => f[x] <= f[y],
         NEW A, NEW B, PairsNoCheaper(A, B)
  PROVE  NoCheaper({f[p] : p \in A}, {f[p] : p \in B})
<1>1. CASE A = {} /\ B = {}
  BY <1>1 DEF NoCheaper
<1>2. CASE ~ (A = {} /\ B = {})
  <2>1. PICK a \in A, b \in A, c \in B, d \in B :
          /\ PairSpans(A, a, b) /\ PairSpans(B, c, d)
          /\ a[1] <= c[1] /\ b[1] <= d[1] /\ a[2] <= c[2] /\ b[2] <= d[2]
    BY <1>2 DEF PairsNoCheaper
  <2> DEFINE P == {f[p] : p \in A}
             Q == {f[p] : p \in B}
  <2>2. Spans(P, f[a], f[b])
    BY <2>1 DEF Spans, PairSpans
  <2>3. Spans(Q, f[c], f[d])
    BY <2>1 DEF Spans, PairSpans
  <2>4. f[a] <= f[c] /\ f[b] <= f[d]
    BY <2>1 DEF PairSpans
  <2>5. f[a] \in P /\ f[b] \in P /\ f[c] \in Q /\ f[d] \in Q
    BY <2>1
  <2> HIDE DEF P, Q
  <2>6. NoCheaper(P, Q)
    BY <2>2, <2>3, <2>4, <2>5 DEF NoCheaper
  <2> QED BY <2>6 DEF P, Q
<1> QED BY <1>1, <1>2

------------------------------------------------------------------------------
(* Searches in a catalogue whose rows got dearer.                           *)

\* What is true of rows that are the same but for the amount keeps them raised.
LEMMA RaisedKept ==
  ASSUME NEW R, NEW S, Raised(R, S), NEW A \in SUBSET R, NEW B \in SUBSET S,
         \A r \in R, s \in S : SameOffer(r, s) => (r \in A <=> s \in B)
  PROVE  Raised(A, B)
<1>1. IsFiniteSet(A) /\ IsFiniteSet(B)
  BY FS_Subset DEF Raised, AreRows
<1> QED BY <1>1 DEF Raised, AreRows

\* A search of the rows keeps them raised.
LEMMA RowsRise ==
  ASSUME NEW c, NEW d, Raised(c.rows, d.rows), NEW region, NEW want, NEW unwanted
  PROVE  Raised(Rows(c, region, want, unwanted), Rows(d, region, want, unwanted))
<1> DEFINE A == Rows(c, region, want, unwanted)
           B == Rows(d, region, want, unwanted)
<1>1. A \in SUBSET c.rows /\ B \in SUBSET d.rows
  BY DEF Rows
<1>2. \A r \in c.rows, s \in d.rows : SameOffer(r, s) => (r \in A <=> s \in B)
  BY DEF Rows, SameOffer
<1> HIDE DEF A, B
<1>3. Raised(A, B)
  BY <1>1, <1>2, RaisedKept
<1> QED BY <1>3 DEF A, B

\* So do the rows that have a price.
LEMMA PositiveRises ==
  ASSUME NEW R, NEW S, Raised(R, S) PROVE Raised(Positive(R), Positive(S))
<1>1. Positive(R) \in SUBSET R /\ Positive(S) \in SUBSET S
  BY DEF Positive
<1>2. \A r \in R, s \in S : SameOffer(r, s) => (r \in Positive(R) <=> s \in Positive(S))
  BY DEF Positive, SameOffer
<1> QED BY <1>1, <1>2, RaisedKept

\* And the first of them.
LEMMA FirstOfRises ==
  ASSUME NEW R, NEW S, Raised(R, S) PROVE Raised(FirstOf(R), FirstOf(S))
<1>1. FirstOf(R) \in SUBSET R /\ FirstOf(S) \in SUBSET S
  BY DEF FirstOf
<1>2. \A r \in R, s \in S : SameOffer(r, s) => (r \in FirstOf(R) <=> s \in FirstOf(S))
  BY DEF FirstOf, SameOffer, Raised
<1> QED BY <1>1, <1>2, RaisedKept

\* And two searches together.
LEMMA UnionRises ==
  ASSUME NEW R, NEW S, Raised(R, S), NEW T, NEW U, Raised(T, U)
  PROVE  Raised(R \union T, S \union U)
<1>1. IsFiniteSet(R \union T) /\ IsFiniteSet(S \union U)
  BY FS_Union DEF Raised, AreRows
<1> QED BY <1>1 DEF Raised, AreRows

\* And one search, or another where it finds nothing.
LEMMA RowsOrElse ==
  ASSUME NEW R, NEW S, Raised(R, S), NEW T, NEW U, Raised(T, U)
  PROVE  Raised(OrElse(R, T), OrElse(S, U))
<1>1. R = NoPrice <=> S = NoPrice
  BY DEF Raised, NoPrice
<1> QED BY <1>1 DEF OrElse

\* The amounts of rows.
LEMMA SomeIsFinite ==
  ASSUME NEW R, AreRows(R) PROVE IsFiniteSet(Some(R)) /\ Some(R) \in SUBSET Nat
<1> DEFINE f == [r \in R |-> r.usd]
<1>1. f \in Surjection(R, Some(R))
  BY DEF Surjection, Some
<1>2. IsFiniteSet(R) /\ Some(R) \in SUBSET Nat
  BY DEF AreRows, Some
<1> QED BY <1>1, <1>2, FS_Surjection

\* The amounts of raised rows are no lower.
LEMMA SomeRises ==
  ASSUME NEW R, NEW S, Raised(R, S) PROVE NoCheaper(Some(R), Some(S))
<1>1. CASE R = {} \/ S = {}
  <2>1. R = {} /\ S = {}
    BY <1>1 DEF Raised
  <2>2. Some({}) = {}
    BY DEF Some
  <2> QED BY <2>1, <2>2 DEF NoCheaper
<1>2. CASE R # {} /\ S # {}
  <2> DEFINE P == Some(R)
             Q == Some(S)
  <2>1. /\ IsFiniteSet(P) /\ P \in SUBSET Nat
        /\ IsFiniteSet(Q) /\ Q \in SUBSET Nat
    BY SomeIsFinite DEF Raised
  <2>2. P # {} /\ Q # {}
    BY <1>2 DEF Some
  <2>3. \A x \in P : \E y \in Q : x <= y
    BY DEF Some, Raised, SameOffer
  <2>4. \A y \in Q : \E x \in P : x <= y
    BY DEF Some, Raised, SameOffer
  <2> HIDE DEF P, Q
  <2>5. PICK a \in P, b \in P : Spans(P, a, b)
    BY <2>1, <2>2, SomeSpan
  <2>6. PICK c \in Q, d \in Q : Spans(Q, c, d)
    BY <2>1, <2>2, SomeSpan
  <2>7. a <= c
    <3>1. PICK x \in P : x <= c
      BY <2>4
    <3> QED BY <3>1, <2>1, <2>5 DEF Spans
  <2>8. b <= d
    <3>1. PICK y \in Q : b <= y
      BY <2>3
    <3> QED BY <3>1, <2>1, <2>6 DEF Spans
  <2>9. NoCheaper(P, Q)
    BY <2>5, <2>6, <2>7, <2>8 DEF NoCheaper
  <2> QED BY <2>9 DEF P, Q
<1> QED BY <1>1, <1>2

\* Nor are those above zero.
LEMMA SomePricedRises ==
  ASSUME NEW R, NEW S, Raised(R, S) PROVE NoCheaper(SomePriced(R), SomePriced(S))
BY PositiveRises, SomeRises DEF SomePriced

\* Nor is the first price.
LEMMA FirstRises ==
  ASSUME NEW R, NEW S, Raised(R, S) PROVE NoCheaper(First(R), First(S))
BY PositiveRises, FirstOfRises, SomeRises DEF First

\* Nor is the cheapest.
LEMMA CheapestRises ==
  ASSUME NEW R, NEW S, Raised(R, S) PROVE NoCheaper(Cheapest(R), Cheapest(S))
<1>1. Raised(Positive(R), Positive(S)) /\ NoCheaper(Some(Positive(R)), Some(Positive(S)))
  BY PositiveRises, SomeRises
<1>2. Positive(R) = {} <=> Positive(S) = {}
  BY <1>1 DEF Raised
<1>3. CASE Positive(R) = {}
  BY <1>2, <1>3, NoneGrows DEF Cheapest
<1>4. CASE Positive(R) # {}
  <2>1. Some(Positive(R)) # {}
    BY <1>4 DEF Some
  <2>2. NoCheaper({Min(Some(Positive(R)))}, {Min(Some(Positive(S)))})
    BY <1>1, <2>1, LeastGrows
  <2> QED BY <1>2, <1>4, <2>2 DEF Cheapest
<1> QED BY <1>3, <1>4

\* The size of a database finds its place between the thresholds.
LEMMA FittingAmongFour ==
  ASSUME NEW gb \in Nat, NEW a, NEW b, NEW c, NEW d
  PROVE  Fitting(gb, <<25, 100, 500>>, <<a, b, c, d>>) =
           IF gb <= 25 THEN a ELSE IF gb <= 100 THEN b ELSE IF gb <= 500 THEN c ELSE d
<1> DEFINE limits == <<25, 100, 500>>
           above == {i \in DOMAIN limits : gb > limits[i]}
           n == IF gb <= 25 THEN 0 ELSE IF gb <= 100 THEN 1 ELSE IF gb <= 500 THEN 2 ELSE 3
<1>1. DOMAIN limits = 1 .. 3 /\ limits[1] = 25 /\ limits[2] = 100 /\ limits[3] = 500
  OBVIOUS
<1>2. n \in 0 .. 3
  OBVIOUS
<1>3. above = 1 .. n
  BY <1>1
<1>4. Cardinality(1 .. n) = n
  BY <1>2, FS_Interval
<1> HIDE DEF above, n
<1>5. Cardinality(above) = n
  BY <1>3, <1>4
<1>6. Fitting(gb, limits, <<a, b, c, d>>) = <<a, b, c, d>>[1 + Cardinality(above)]
  BY DEF Fitting, above
<1>7. CASE gb <= 25
  BY <1>5, <1>6, <1>7 DEF n
<1>8. CASE gb > 25 /\ gb <= 100
  BY <1>5, <1>6, <1>8 DEF n
<1>9. CASE gb > 100 /\ gb <= 500
  BY <1>5, <1>6, <1>9 DEF n
<1>10. CASE gb > 500
  BY <1>5, <1>6, <1>10 DEF n
<1> QED BY <1>7, <1>8, <1>9, <1>10

\* Between two thresholds.
LEMMA FittingAmongThree ==
  ASSUME NEW gb \in Nat, NEW a, NEW b, NEW c
  PROVE  Fitting(gb, <<50, 200>>, <<a, b, c>>) = IF gb <= 50 THEN a ELSE IF gb <= 200 THEN b ELSE c
<1> DEFINE limits == <<50, 200>>
           above == {i \in DOMAIN limits : gb > limits[i]}
           n == IF gb <= 50 THEN 0 ELSE IF gb <= 200 THEN 1 ELSE 2
<1>1. DOMAIN limits = 1 .. 2 /\ limits[1] = 50 /\ limits[2] = 200
  OBVIOUS
<1>2. n \in 0 .. 2
  OBVIOUS
<1>3. above = 1 .. n
  BY <1>1
<1>4. Cardinality(1 .. n) = n
  BY <1>2, FS_Interval
<1> HIDE DEF above, n
<1>5. Cardinality(above) = n
  BY <1>3, <1>4
<1>6. Fitting(gb, limits, <<a, b, c>>) = <<a, b, c>>[1 + Cardinality(above)]
  BY DEF Fitting, above
<1>7. CASE gb <= 50
  BY <1>5, <1>6, <1>7 DEF n
<1>8. CASE gb > 50 /\ gb <= 200
  BY <1>5, <1>6, <1>8 DEF n
<1>9. CASE gb > 200
  BY <1>5, <1>6, <1>9 DEF n
<1> QED BY <1>7, <1>8, <1>9

\* Around one.
LEMMA FittingOfTwo ==
  ASSUME NEW gb \in Nat, NEW a, NEW b
  PROVE  Fitting(gb, <<100>>, <<a, b>>) = IF gb <= 100 THEN a ELSE b
<1> DEFINE limits == <<100>>
           above == {i \in DOMAIN limits : gb > limits[i]}
           n == IF gb <= 100 THEN 0 ELSE 1
<1>1. DOMAIN limits = 1 .. 1 /\ limits[1] = 100
  OBVIOUS
<1>2. n \in 0 .. 1
  OBVIOUS
<1>3. above = 1 .. n
  BY <1>1
<1>4. Cardinality(1 .. n) = n
  BY <1>2, FS_Interval
<1> HIDE DEF above, n
<1>5. Cardinality(above) = n
  BY <1>3, <1>4
<1>6. Fitting(gb, limits, <<a, b>>) = <<a, b>>[1 + Cardinality(above)]
  BY DEF Fitting, above
<1>7. CASE gb <= 100
  BY <1>5, <1>6, <1>7 DEF n
<1>8. CASE gb > 100
  BY <1>5, <1>6, <1>8 DEF n
<1> QED BY <1>7, <1>8

\* The lists.
LEMMA ListsSay ==
  /\ RDSList["t3.small"] = 34000 /\ RDSList["t3.medium"] = 68000
  /\ RDSList["m6i.large"] = 180000 /\ RDSList["m6i.xlarge"] = 360000
  /\ AuroraList["r6g.large"] = 260000 /\ AuroraList["r6g.xlarge"] = 520000
  /\ AzureFlexList["B1ms"] = 26000 /\ AzureFlexList["D2ds"] = 223000
  /\ AzureFlexList["D4ds"] = 446000 /\ AzureFlexList["D8ds"] = 892000
BY DEF RDSList, AuroraList, AzureFlexList

------------------------------------------------------------------------------
(* What AWS and Azure quote from it.                                        *)

\* The same catalogue, with prices that are not lower.
Costlier(c, d) == c.up = d.up /\ Raised(c.rows, d.rows)

\* What is found in it, and what is taken of it, is not lower.
LEMMA FoundRise ==
  ASSUME NEW c, NEW d, Costlier(c, d)
  PROVE  \A region, want, unwanted :
           Raised(Rows(c, region, want, unwanted), Rows(d, region, want, unwanted))
BY RowsRise DEF Costlier

\* All the amounts.
LEMMA FoundSomeRise ==
  ASSUME NEW c, NEW d, Costlier(c, d)
  PROVE  \A region, want, unwanted :
           NoCheaper(Some(Rows(c, region, want, unwanted)), Some(Rows(d, region, want, unwanted)))
BY FoundRise, SomeRises

\* All the prices.
LEMMA FoundPricedRise ==
  ASSUME NEW c, NEW d, Costlier(c, d)
  PROVE  \A region, want, unwanted :
           NoCheaper(SomePriced(Rows(c, region, want, unwanted)), SomePriced(Rows(d, region, want, unwanted)))
BY FoundRise, SomePricedRises

\* The cheapest.
LEMMA FoundCheapestRise ==
  ASSUME NEW c, NEW d, Costlier(c, d)
  PROVE  \A region, want, unwanted :
           NoCheaper(Cheapest(Rows(c, region, want, unwanted)), Cheapest(Rows(d, region, want, unwanted)))
BY FoundRise, CheapestRises

\* The first price.
LEMMA FoundFirstRises ==
  ASSUME NEW c, NEW d, Costlier(c, d)
  PROVE  \A region, want, unwanted :
           NoCheaper(First(Rows(c, region, want, unwanted)), First(Rows(d, region, want, unwanted)))
BY FoundRise, FirstRises

\* The first amount, priced or not.
LEMMA FoundFirstOfRises ==
  ASSUME NEW c, NEW d, Costlier(c, d)
  PROVE  \A region, want, unwanted :
           NoCheaper(Some(FirstOf(Rows(c, region, want, unwanted))), Some(FirstOf(Rows(d, region, want, unwanted))))
BY FoundRise, FirstOfRises, SomeRises

\* AWS: what is not a database.
LEMMA AWSRises ==
  ASSUME NEW c, NEW d, Costlier(c, d), NEW gb \in Nat
  PROVE  /\ NoCheaper(Quote("ec2", c, gb), Quote("ec2", d, gb))
         /\ NoCheaper(Quote("ebs", c, gb), Quote("ebs", d, gb))
         /\ NoCheaper(Quote("eks", c, gb), Quote("eks", d, gb))
         /\ PairsNoCheaper(Quote("fargate", c, gb), Quote("fargate", d, gb))
         /\ PairsNoCheaper(Quote("aws_nat", c, gb), Quote("aws_nat", d, gb))
         /\ PairsNoCheaper(Quote("alb", c, gb), Quote("alb", d, gb))
         /\ PairsNoCheaper(Quote("nlb", c, gb), Quote("nlb", d, gb))
         /\ NoCheaper(Quote("aws_egress", c, gb), Quote("aws_egress", d, gb))
         /\ PairsNoCheaper(Quote("aws_logs", c, gb), Quote("aws_logs", d, gb))
         /\ NoCheaper(Quote("route53", c, gb), Quote("route53", d, gb))
         /\ NoCheaper(Quote("rds_storage", c, gb), Quote("rds_storage", d, gb))
<1>1. NoCheaper(Quote("ec2", c, gb), Quote("ec2", d, gb))
  BY SMT, FoundSomeRise DEF Quote, AWSEC2
<1>2. NoCheaper(Quote("ebs", c, gb), Quote("ebs", d, gb))
  BY SMT, FoundSomeRise DEF Quote, BlockStorage, AWSEBS
<1>3. NoCheaper(Quote("eks", c, gb), Quote("eks", d, gb))
  BY SMT, FoundCheapestRise, OrElseGrows, MonthlyGrows DEF Quote, AWSEKSControlPlane
<1>4. PairsNoCheaper(Quote("fargate", c, gb), Quote("fargate", d, gb))
  BY SMT, FoundCheapestRise, BothGrow DEF Quote, AWSFargate
<1>5. PairsNoCheaper(Quote("aws_nat", c, gb), Quote("aws_nat", d, gb))
  BY SMT, FoundCheapestRise, BothGrow DEF Quote, AWSNATGateway
<1>6. \A kind : PairsNoCheaper(AWSLoadBalancer(c, kind), AWSLoadBalancer(d, kind))
  BY SMT, FoundCheapestRise, BothGrow DEF AWSLoadBalancer
<1>7. PairsNoCheaper(Quote("alb", c, gb), Quote("alb", d, gb))
  BY SMT, <1>6 DEF Quote, AWSApplicationLB
<1>8. PairsNoCheaper(Quote("nlb", c, gb), Quote("nlb", d, gb))
  BY SMT, <1>6 DEF Quote, AWSNetworkLB
<1>9. NoCheaper(Quote("aws_egress", c, gb), Quote("aws_egress", d, gb))
  BY SMT, FoundPricedRise DEF Quote, AWSEgress
<1>10. PairsNoCheaper(Quote("aws_logs", c, gb), Quote("aws_logs", d, gb))
  <2> DEFINE logs(k, word, unwanted) == Rows(k, Everywhere, {"log", word}, unwanted)
             in(k) == logs(k, "vendedlog", {"vendedlogia"}) \union logs(k, "ingestion", {"vendedlog"})
             out(k) == logs(k, "vendedlogia", {}) \union logs(k, "stored", {"vendedlog", "ingestion"})
  <2>1. Raised(in(c), in(d)) /\ Raised(out(c), out(d))
    BY SMT, FoundRise, UnionRises
  <2>2. Quote("aws_logs", c, gb) = Both(Cheapest(in(c)), Cheapest(out(c)))
    BY SMT DEF Quote, AWSCloudWatchLogs
  <2>3. Quote("aws_logs", d, gb) = Both(Cheapest(in(d)), Cheapest(out(d)))
    BY SMT DEF Quote, AWSCloudWatchLogs
  <2> HIDE DEF in, out
  <2> QED BY <2>1, <2>2, <2>3, CheapestRises, BothGrow
<1>11. NoCheaper(Quote("route53", c, gb), Quote("route53", d, gb))
  BY SMT, FoundPricedRise DEF Quote, AWSRoute53Zone
<1>12. NoCheaper(Quote("rds_storage", c, gb), Quote("rds_storage", d, gb))
  BY SMT, FoundCheapestRise DEF Quote, AWSRDSStorage
<1> QED BY <1>1, <1>2, <1>3, <1>4, <1>5, <1>7, <1>8, <1>9, <1>10, <1>11, <1>12

\* A price of the list.
LEMMA ListGrows == ASSUME NEW n \in Nat PROVE NoCheaper({n}, {n})
BY DEF NoCheaper, Spans

\* The databases of AWS; a dearer storage of Aurora may be taken for a rate of requests.
LEMMA AWSDatabasesRise ==
  ASSUME NEW c, NEW d, Costlier(c, d), NEW gb \in Nat
  PROVE  /\ NoCheaper(Quote("rds", c, gb), Quote("rds", d, gb))
         /\ (\A s \in c.rows \union d.rows : s.usd <= 1000000)
            => NoCheaper(Quote("aurora", c, gb), Quote("aurora", d, gb))
<1>1. NoCheaper(AWSRDSGP3Storage(c, Here), AWSRDSGP3Storage(d, Here))
  BY SMT, FoundCheapestRise, FoundPricedRise, OrElseGrows DEF AWSRDSGP3Storage, AWSRDSStorage
<1>2. \A n \in Nat : NoCheaper({n}, {n})
  BY ListGrows
<1>3. NoCheaper(Quote("rds", c, gb), Quote("rds", d, gb))
  <2> DEFINE instance == Fitting(gb, <<25, 100, 500>>, <<"t3.small", "t3.medium", "m6i.large", "m6i.xlarge">>)
             list == RDSList[instance]
             hour(k) == AWSRDSPostgresHourly(k, instance, Here, FALSE)
             hours(k) == Monthly(OrElse(hour(k), {list}))
             disks(k) == Volume(OrElse(AWSRDSGP3Storage(k, Here), {115000}), gb)
  <2>1. list \in Nat
    <3>1. instance \in {"t3.small", "t3.medium", "m6i.large", "m6i.xlarge"}
      BY FittingAmongFour
    <3> HIDE DEF instance
    <3> QED BY <3>1, ListsSay
  <2>2. Quote("rds", c, gb) = Plus(hours(c), disks(c))
    BY SMT DEF Quote, ManagedPostgres, AWSRDSPostgres
  <2>3. Quote("rds", d, gb) = Plus(hours(d), disks(d))
    BY SMT DEF Quote, ManagedPostgres, AWSRDSPostgres
  <2> HIDE DEF instance, list
  <2>4. NoCheaper(hours(c), hours(d))
    <3>1. NoCheaper(hour(c), hour(d))
      BY SMT, FoundCheapestRise DEF AWSRDSPostgresHourly
    <3> HIDE DEF hour
    <3> QED BY SMT, <1>2, <2>1, <3>1, OrElseGrows, MonthlyGrows
  <2>5. NoCheaper(disks(c), disks(d))
    BY SMT, <1>1, <1>2, OrElseGrows, VolumeGrows
  <2> HIDE DEF hours, disks
  <2> QED BY <2>2, <2>3, <2>4, <2>5, PlusGrows
<1>4. ASSUME \A s \in c.rows \union d.rows : s.usd <= 1000000
      PROVE  NoCheaper(Quote("aurora", c, gb), Quote("aurora", d, gb))
  <2> DEFINE instance == Fitting(gb, <<100>>, <<"r6g.large", "r6g.xlarge">>)
             list == AuroraList[instance]
             hour(k) == AWSAuroraHourly(k, instance, Here)
             hours(k) == Monthly(OrElse(hour(k), {list}))
             disks(k) == Volume(OrElse(AWSAuroraStorage(k, Here), {100000}), gb)
             rows(k) == Rows(k, Here, {"aurora", "storage"}, {"iorequest"})
  <2>1. list \in Nat
    <3>1. instance \in {"r6g.large", "r6g.xlarge"}
      BY SMT, FittingOfTwo
    <3> HIDE DEF instance
    <3> QED BY <3>1, ListsSay
  <2>2. Quote("aurora", c, gb) = Plus(hours(c), disks(c))
    BY SMT DEF Quote, ManagedPostgres, AWSAuroraPostgres
  <2>3. Quote("aurora", d, gb) = Plus(hours(d), disks(d))
    BY SMT DEF Quote, ManagedPostgres, AWSAuroraPostgres
  <2> DEFINE rates(R) == {r \in R : r.usd <= 1000000}
  <2>4. rates(rows(c)) = rows(c) /\ rates(rows(d)) = rows(d)
    BY SMT, <1>4 DEF Rows
  <2>5. AWSAuroraStorage(c, Here) = Cheapest(rates(rows(c))) /\ AWSAuroraStorage(d, Here) = Cheapest(rates(rows(d)))
    BY SMT DEF AWSAuroraStorage
  <2>6. NoCheaper(Cheapest(rows(c)), Cheapest(rows(d)))
    BY SMT, FoundCheapestRise
  <2> HIDE DEF instance, list, rows, rates
  <2>7. NoCheaper(hours(c), hours(d))
    <3>1. NoCheaper(hour(c), hour(d))
      BY SMT, FoundCheapestRise DEF AWSAuroraHourly, AWSRDSPostgresHourly
    <3> HIDE DEF hour
    <3> QED BY SMT, <1>2, <2>1, <3>1, OrElseGrows, MonthlyGrows
  <2>8. NoCheaper(disks(c), disks(d))
    BY SMT, <1>2, <2>4, <2>5, <2>6, OrElseGrows, VolumeGrows
  <2> HIDE DEF hours, disks
  <2> QED BY SMT, <2>2, <2>3, <2>7, <2>8, PlusGrows
<1> QED BY SMT, <1>3, <1>4

\* Azure: what is not a database.
LEMMA AzureRises ==
  ASSUME NEW c, NEW d, Costlier(c, d), NEW gb \in Nat
  PROVE  /\ NoCheaper(Quote("azure_vm", c, gb), Quote("azure_vm", d, gb))
         /\ NoCheaper(Quote("aks", c, gb), Quote("aks", d, gb))
         /\ PairsNoCheaper(Quote("azure_nat", c, gb), Quote("azure_nat", d, gb))
         /\ PairsNoCheaper(Quote("azure_lb", c, gb), Quote("azure_lb", d, gb))
         /\ NoCheaper(Quote("azure_ip", c, gb), Quote("azure_ip", d, gb))
         /\ NoCheaper(Quote("azure_logs", c, gb), Quote("azure_logs", d, gb))
         /\ NoCheaper(Quote("azure_dns", c, gb), Quote("azure_dns", d, gb))
         /\ NoCheaper(Quote("azure_egress", c, gb), Quote("azure_egress", d, gb))
         /\ NoCheaper(Quote("azure_disk", c, gb), Quote("azure_disk", d, gb))
<1>1. NoCheaper(Quote("azure_vm", c, gb), Quote("azure_vm", d, gb))
  BY SMT, FoundCheapestRise DEF Quote, AzureVM
<1>2. NoCheaper(Quote("aks", c, gb), Quote("aks", d, gb))
  BY SMT, FoundRise, UnionRises, FirstRises, MonthlyGrows DEF Quote, AzureAKS
<1>3. \A A, B : PairsNoCheaper(A, B) =>
        \A m, n \in Nat : PairsNoCheaper(AzureListed(c, A, <<m, n>>), AzureListed(d, B, <<m, n>>))
  <2> SUFFICES ASSUME NEW A, NEW B, PairsNoCheaper(A, B), NEW m \in Nat, NEW n \in Nat
               PROVE  PairsNoCheaper(AzureListed(c, A, <<m, n>>), AzureListed(d, B, <<m, n>>))
    OBVIOUS
  <2>1. PairsNoCheaper(OrElse(A, {<<m, n>>}), OrElse(B, {<<m, n>>})) 
    BY OnePairGrows, OrElsePairs
  <2>2. PairsNoCheaper(NoPrice, NoPrice)
    BY DEF NoPrice, PairsNoCheaper
  <2> QED BY <2>1, <2>2 DEF AzureListed, Costlier
<1>4. PairsNoCheaper(Quote("azure_nat", c, gb), Quote("azure_nat", d, gb))
  BY SMT, <1>3, FoundFirstRises, BothGrow DEF Quote, AzureNATGateway
<1>5. PairsNoCheaper(Quote("azure_lb", c, gb), Quote("azure_lb", d, gb))
  BY SMT, <1>3, FoundCheapestRise, BothGrow DEF Quote, AzureStandardLB
<1>6. NoCheaper(Quote("azure_ip", c, gb), Quote("azure_ip", d, gb))
  BY SMT, FoundFirstRises DEF Quote, AzurePublicIP
<1>7. NoCheaper(Quote("azure_logs", c, gb), Quote("azure_logs", d, gb))
  BY SMT, FoundFirstRises DEF Quote, AzureLogAnalytics
<1>8. NoCheaper(Quote("azure_dns", c, gb), Quote("azure_dns", d, gb))
  <2> DEFINE where == AzureDNSZoneOf("westeurope", [r \in {"westeurope"} |-> Here])
             all(k) == Positive(Rows(k, where, {"public_zone", "public"}, {}))
             lowest(R) == {r \in R : \A s \in R : r.tier <= s.tier}
  <2>1. Raised(all(c), all(d))
    BY SMT, FoundRise, PositiveRises
  <2>2. Quote("azure_dns", c, gb) = Cheapest(lowest(all(c)))
    BY SMT DEF Quote, AzureDNSZone
  <2>3. Quote("azure_dns", d, gb) = Cheapest(lowest(all(d)))
    BY SMT DEF Quote, AzureDNSZone
  <2> HIDE DEF all
  <2>4. \A r \in all(c), s \in all(d) : SameOffer(r, s) => (r \in lowest(all(c)) <=> s \in lowest(all(d)))
    BY <2>1 DEF SameOffer, Raised
  <2>5. Raised(lowest(all(c)), lowest(all(d)))
    <3>1. lowest(all(c)) \in SUBSET all(c) /\ lowest(all(d)) \in SUBSET all(d)
      OBVIOUS
    <3> HIDE DEF lowest
    <3> QED BY <2>1, <2>4, <3>1, RaisedKept
  <2> HIDE DEF lowest
  <2> QED BY <2>2, <2>3, <2>5, CheapestRises
<1>9. NoCheaper(Quote("azure_egress", c, gb), Quote("azure_egress", d, gb))
  BY SMT, FoundCheapestRise DEF Quote, AzureEgress, Costlier
<1>10. NoCheaper(Quote("azure_disk", c, gb), Quote("azure_disk", d, gb))
  BY SMT, FoundCheapestRise DEF Quote, BlockStorage, AzureManagedDisk
<1> QED BY <1>1, <1>2, <1>4, <1>5, <1>6, <1>7, <1>8, <1>9, <1>10

\* The database of Azure: the list, which takes the place of both parts or of none, does not change.
LEMMA AzureDatabaseRises ==
  ASSUME NEW c, NEW d, Costlier(c, d), NEW gb \in Nat
  PROVE  NoCheaper(Quote("azure_pg", c, gb), Quote("azure_pg", d, gb))
<1> DEFINE shape == Fitting(gb, <<25, 100, 500>>, <<"B1ms", "D2ds", "D4ds", "D8ds">>)
           list == <<HoursAMonth * AzureFlexList[shape], 115000 * gb>>
           live(k) == Both(AzureFlexCompute(k, Here, shape), AzureFlexStorage(k, Here, gb))
           parts(k) == IF live(k) = NoPrice \/ gb = 0 THEN {list} ELSE live(k)
           f == [p \in Nat \X Nat |-> p[1] + p[2]]
<1>1. list \in Nat \X Nat
  <2>1. shape \in {"B1ms", "D2ds", "D4ds", "D8ds"}
    BY SMT, FittingAmongFour
  <2> HIDE DEF shape
  <2>2. AzureFlexList[shape] \in Nat
    BY SMT, <2>1, ListsSay
  <2> QED BY SMT, <2>2 DEF HoursAMonth
<1>2. Quote("azure_pg", c, gb) = Scaled({p[1] + p[2] : p \in parts(c)}, 2)
  BY SMT DEF Quote, ManagedPostgres, AzureFlexiblePostgres
<1>3. Quote("azure_pg", d, gb) = Scaled({p[1] + p[2] : p \in parts(d)}, 2)
  BY SMT DEF Quote, ManagedPostgres, AzureFlexiblePostgres
<1> HIDE DEF shape, list
<1>4. NoCheaper(AzureFlexCompute(c, Here, shape), AzureFlexCompute(d, Here, shape))
  BY SMT, FoundCheapestRise, MonthlyGrows DEF AzureFlexCompute
<1>5. NoCheaper(AzureFlexStorage(c, Here, gb), AzureFlexStorage(d, Here, gb))
  BY SMT, FoundCheapestRise, VolumeGrows DEF AzureFlexStorage
<1>6. PairsNoCheaper(live(c), live(d))
  BY SMT, <1>4, <1>5, BothGrow
<1> HIDE DEF live
<1>7. PairsNoCheaper({list}, {list})
  <2>1. PICK m \in Nat, n \in Nat : list = <<m, n>>
    BY <1>1
  <2> QED BY <2>1, OnePairGrows
<1>8. live(c) = NoPrice <=> live(d) = NoPrice
  BY <1>6 DEF PairsNoCheaper, NoPrice
<1>9. PairsNoCheaper(parts(c), parts(d))
  BY <1>6, <1>7, <1>8
<1> HIDE DEF parts
<1>10. f \in [Nat \X Nat -> Nat] /\ \A x, y \in Nat \X Nat : x[1] <= y[1] /\ x[2] <= y[2] => f[x] <= f[y]
  OBVIOUS
<1>11. \A p \in parts(c) \union parts(d) : f[p] = p[1] + p[2]
  BY <1>9 DEF PairsNoCheaper, PairSpans
<1> HIDE DEF f
<1>12. NoCheaper({f[p] : p \in parts(c)}, {f[p] : p \in parts(d)})
  BY <1>9, <1>10, WeighedPairsGrow
<1>13. {f[p] : p \in parts(c)} = {p[1] + p[2] : p \in parts(c)} /\ {f[p] : p \in parts(d)} = {p[1] + p[2] : p \in parts(d)}
  BY <1>11
<1>14. NoCheaper({p[1] + p[2] : p \in parts(c)}, {p[1] + p[2] : p \in parts(d)})
  BY <1>12, <1>13
<1> QED BY <1>2, <1>3, <1>14, ScaledGrows

------------------------------------------------------------------------------
(* What Google and the other clouds quote from it.                          *)

\* The first of several tries that has a price.
LEMMA FirstAnswerGrows ==
  ASSUME NEW n \in Nat, NEW t, NEW u, DOMAIN t = 1 .. n, DOMAIN u = 1 .. n,
         \A i \in 1 .. n : NoCheaper(t[i], u[i])
  PROVE  NoCheaper(FirstAnswer(t), FirstAnswer(u))
<1> DEFINE priced == {i \in 1 .. n : t[i] # NoPrice}
<1>1. {i \in DOMAIN t : t[i] # NoPrice} = priced /\ {i \in DOMAIN u : u[i] # NoPrice} = priced
  BY DEF NoCheaper, NoPrice
<1>2. priced \in SUBSET Nat
  OBVIOUS
<1>3. \A i \in priced : i \in 1 .. n
  OBVIOUS
<1> HIDE DEF priced
<1>4. CASE priced = {}
  BY <1>1, <1>4, NoneGrows DEF FirstAnswer
<1>5. CASE priced # {}
  <2>1. Min(priced) \in priced
    BY <1>2, <1>5, MinIsLeast
  <2>2. FirstAnswer(t) = t[Min(priced)] /\ FirstAnswer(u) = u[Min(priced)]
    BY <1>1, <1>5 DEF FirstAnswer
  <2> QED BY <1>3, <2>1, <2>2
<1> QED BY <1>4, <1>5

\* The first price of the rows that are not committed to.
LEMMA OnDemandRises ==
  ASSUME NEW c, NEW d, Costlier(c, d), NEW gb \in Nat
  PROVE  \A region, want, unwanted : NoCheaper(OnDemand(c, region, want, unwanted), OnDemand(d, region, want, unwanted))
BY SMT, FoundFirstRises DEF OnDemand

\* Phrase after phrase, here and then everywhere.
LEMMA PhraseMajorRises ==
  ASSUME NEW c, NEW d, Costlier(c, d), NEW region, NEW phrases, Len(phrases) \in Nat, NEW unwanted
  PROVE  NoCheaper(PhraseMajor(c, region, phrases, unwanted), PhraseMajor(d, region, phrases, unwanted))
<1> DEFINE n == 2 * Len(phrases)
           try(k) == [i \in 1 .. n |-> OnDemand(k, IF i % 2 = 1 THEN region ELSE Everywhere, phrases[(i + 1) \div 2], unwanted)]
<1>1. n \in Nat /\ DOMAIN try(c) = 1 .. n /\ DOMAIN try(d) = 1 .. n
  OBVIOUS
<1>2. \A i \in 1 .. n : NoCheaper(try(c)[i], try(d)[i])
  BY OnDemandRises
<1>3. PhraseMajor(c, region, phrases, unwanted) = FirstAnswer(try(c))
  BY DEF PhraseMajor
<1>4. PhraseMajor(d, region, phrases, unwanted) = FirstAnswer(try(d))
  BY DEF PhraseMajor
<1> HIDE DEF n, try
<1> QED BY <1>1, <1>2, <1>3, <1>4, FirstAnswerGrows

\* All the phrases here and then everywhere.
LEMMA RegionMajorRises ==
  ASSUME NEW c, NEW d, Costlier(c, d), NEW region, NEW phrases, Len(phrases) \in Nat, NEW unwanted
  PROVE  NoCheaper(RegionMajor(c, region, phrases, unwanted), RegionMajor(d, region, phrases, unwanted))
<1> DEFINE n == 2 * Len(phrases)
           try(k) == [i \in 1 .. n |-> OnDemand(k, IF i <= Len(phrases) THEN region ELSE Everywhere,
                                                phrases[((i - 1) % Len(phrases)) + 1], unwanted)]
<1>1. n \in Nat /\ DOMAIN try(c) = 1 .. n /\ DOMAIN try(d) = 1 .. n
  OBVIOUS
<1>2. \A i \in 1 .. n : NoCheaper(try(c)[i], try(d)[i])
  BY OnDemandRises
<1>3. RegionMajor(c, region, phrases, unwanted) = FirstAnswer(try(c))
  BY DEF RegionMajor
<1>4. RegionMajor(d, region, phrases, unwanted) = FirstAnswer(try(d))
  BY DEF RegionMajor
<1> HIDE DEF n, try
<1> QED BY <1>1, <1>2, <1>3, <1>4, FirstAnswerGrows

\* Google Cloud: what is not a database.
LEMMA GCPRises ==
  ASSUME NEW c, NEW d, Costlier(c, d), NEW gb \in Nat
  PROVE  /\ NoCheaper(Quote("gcp_machine", c, gb),
                      Quote("gcp_machine", d, gb))
         /\ NoCheaper(Quote("gcp_disk", c, gb), Quote("gcp_disk", d, gb))
         /\ NoCheaper(Quote("gke", c, gb), Quote("gke", d, gb))
         /\ PairsNoCheaper(Quote("gcp_nat", c, gb), Quote("gcp_nat", d, gb))
         /\ NoCheaper(Quote("gcp_lb", c, gb), Quote("gcp_lb", d, gb))
         /\ NoCheaper(Quote("gcp_egress", c, gb), Quote("gcp_egress", d, gb))
         /\ NoCheaper(Quote("gcp_logging", c, gb), Quote("gcp_logging", d, gb))
         /\ NoCheaper(Quote("gcp_dns", c, gb), Quote("gcp_dns", d, gb))
<1>1. NoCheaper(Quote("gcp_machine", c, gb),
                Quote("gcp_machine", d, gb))
  <2> DEFINE shape == GCPShape("N2", "highmem", 2)
             cpu(k) == GCPRate(k, "N2", "CPU", Here)
             ram(k) == GCPRate(k, "N2", "RAM", Here)
             f == [p \in Nat |-> (p * shape.mem) \div 10]
             rams(k) == {(p * shape.mem) \div 10 : p \in ram(k)}
  <2>1. shape.cpu = 2 /\ shape.mem = 160
    BY SMT DEF GCPShape
  <2>2. GCPMachine(c, "N2", shape, Here) = Plus(Scaled(cpu(c), shape.cpu), rams(c))
    BY SMT DEF Quote, GCPMachine
  <2>3. GCPMachine(d, "N2", shape, Here) = Plus(Scaled(cpu(d), shape.cpu), rams(d))
    BY SMT DEF Quote, GCPMachine
  <2>4. NoCheaper(cpu(c), cpu(d)) /\ NoCheaper(ram(c), ram(d))
    BY SMT, OnDemandRises DEF GCPRate
  <2> HIDE DEF cpu, ram, shape
  <2>5. ram(c) \subseteq Nat /\ ram(d) \subseteq Nat
    BY <2>4 DEF NoCheaper, Spans
  <2>6. f \in [Nat -> Nat] /\ \A x, y \in Nat : x <= y => f[x] <= f[y]
    <3>1. \A x \in Nat : (x * 160) \div 10 = 16 * x
      BY SMT
    <3>2. f = [p \in Nat |-> (p * 160) \div 10]
      BY <2>1
    <3> HIDE DEF f
    <3>3. \A x \in Nat : f[x] = 16 * x
      BY SMT, <3>1, <3>2
    <3> QED BY SMT, <3>2, <3>3
  <2>7. \A p \in ram(c) \union ram(d) : f[p] = (p * shape.mem) \div 10
    BY <2>5
  <2> HIDE DEF f
  <2>8. rams(c) = {f[p] : p \in ram(c)} /\ rams(d) = {f[p] : p \in ram(d)}
    BY <2>7
  <2> HIDE DEF rams
  <2>9. NoCheaper(rams(c), rams(d))
    BY <2>4, <2>6, <2>8, GrowsThrough
  <2>10. NoCheaper(Scaled(cpu(c), shape.cpu), Scaled(cpu(d), shape.cpu))
    BY <2>1, <2>4, ScaledGrows
  <2>11. NoCheaper(GCPMachine(c, "N2", shape, Here), GCPMachine(d, "N2", shape, Here))
    BY <2>2, <2>3, <2>9, <2>10, PlusGrows
  <2>12. Quote("gcp_machine", c, gb) = GCPMachine(c, "N2", shape, Here)
    BY SMT DEF Quote, shape
  <2>13. Quote("gcp_machine", d, gb) = GCPMachine(d, "N2", shape, Here)
    BY SMT DEF Quote, shape
  <2> QED BY <2>11, <2>12, <2>13
<1>2. NoCheaper(Quote("gcp_disk", c, gb), Quote("gcp_disk", d, gb))
  BY SMT, OnDemandRises DEF Quote, BlockStorage, GCPDisk
<1>3. NoCheaper(Quote("gke", c, gb), Quote("gke", d, gb))
  BY SMT, OnDemandRises, MonthlyGrows DEF Quote, GCPGKEControlPlane
<1>4. PairsNoCheaper(Quote("gcp_nat", c, gb), Quote("gcp_nat", d, gb))
  <2>1. \A unit : NoCheaper(GCPNATRate(c, Here, unit), GCPNATRate(d, Here, unit))
    <3> TAKE unit
    <3> DEFINE phrases == <<{"cloud_nat", unit}, {"public_nat", unit}, {"nat", unit}>>
    <3>1. Len(phrases) \in Nat
      OBVIOUS
    <3>2. GCPNATRate(c, Here, unit) = PhraseMajor(c, Here, phrases, {"private"})
      BY DEF GCPNATRate
    <3>3. GCPNATRate(d, Here, unit) = PhraseMajor(d, Here, phrases, {"private"})
      BY DEF GCPNATRate
    <3> HIDE DEF phrases
    <3> QED BY SMT, <3>1, <3>2, <3>3, PhraseMajorRises
  <2>2. NoCheaper({44000}, {44000}) /\ NoCheaper({45000}, {45000})
    BY SMT, ListGrows
  <2> QED BY SMT, <2>1, <2>2, OrElseGrows, BothGrow DEF Quote, GCPCloudNAT
<1>5. ASSUME NEW region, NEW phrases, Len(phrases) \in Nat, NEW unwanted, NEW list \in Nat
      PROVE  NoCheaper(OrElse(RegionMajor(c, region, phrases, unwanted), {list}),
                       OrElse(RegionMajor(d, region, phrases, unwanted), {list}))
  BY SMT, RegionMajorRises, ListGrows, OrElseGrows
<1>6. NoCheaper(Quote("gcp_lb", c, gb), Quote("gcp_lb", d, gb))
  <2> DEFINE phrases == <<{"forwarding", "rule"}, {"load_balancing", "forwarding"}, {"external", "forwarding"},
                          {"network_load_balancing"}, {"http", "load_balancing"}>>
             unwanted == {"data_processing", "ingress", "outgoing"}
             prices(k) == OrElse(RegionMajor(k, Here, phrases, unwanted), {25000})
  <2>1. Len(phrases) \in Nat
    OBVIOUS
  <2>2. Quote("gcp_lb", c, gb) = Monthly(prices(c)) /\ Quote("gcp_lb", d, gb) = Monthly(prices(d))
    BY SMT DEF Quote, GCPLoadBalancer, GCPListed
  <2> HIDE DEF phrases, unwanted
  <2>3. NoCheaper(prices(c), prices(d))
    BY SMT, <1>5, <2>1
  <2> HIDE DEF prices
  <2> QED BY <2>2, <2>3, MonthlyGrows
<1>7. NoCheaper(Quote("gcp_egress", c, gb), Quote("gcp_egress", d, gb))
  <2> DEFINE phrases == <<{"network_internet_egress"}, {"internet", "egress"}, {"egress", "worldwide"}, {"network_egress"}>>
             unwanted == {"china", "australia"}
             prices(k) == OrElse(RegionMajor(k, Here, phrases, unwanted), {120000})
  <2>1. Len(phrases) \in Nat
    OBVIOUS
  <2>2. Quote("gcp_egress", c, gb) = prices(c) /\ Quote("gcp_egress", d, gb) = prices(d)
    BY SMT DEF Quote, GCPEgress, GCPListed
  <2> HIDE DEF phrases, unwanted
  <2>3. NoCheaper(prices(c), prices(d))
    BY SMT, <1>5, <2>1
  <2> HIDE DEF prices
  <2> QED BY <2>2, <2>3
<1>8. NoCheaper(Quote("gcp_logging", c, gb), Quote("gcp_logging", d, gb))
  <2> DEFINE phrases == <<{"log_volume"}, {"logging", "ingestion"}, {"logging", "storage"}, {"log", "ingestion"}>>
             prices(k) == OrElse(RegionMajor(k, Everywhere, phrases, {}), {500000})
  <2>1. Len(phrases) \in Nat
    OBVIOUS
  <2>2. Quote("gcp_logging", c, gb) = prices(c) /\ Quote("gcp_logging", d, gb) = prices(d)
    BY SMT DEF Quote, GCPLogging, GCPListed
  <2> HIDE DEF phrases
  <2>3. NoCheaper(prices(c), prices(d))
    BY SMT, <1>5, <2>1
  <2> HIDE DEF prices
  <2> QED BY <2>2, <2>3
<1>9. NoCheaper(Quote("gcp_dns", c, gb), Quote("gcp_dns", d, gb))
  <2> DEFINE phrases == <<{"managed_zone"}, {"managed", "zone"}, {"hosted_zone"}, {"dns_zone"}, {"zone_management"}>>
             unwanted == {"queries", "lookup"}
             prices(k) == OrElse(RegionMajor(k, Everywhere, phrases, unwanted), {500000})
  <2>1. Len(phrases) \in Nat
    OBVIOUS
  <2>2. Quote("gcp_dns", c, gb) = prices(c) /\ Quote("gcp_dns", d, gb) = prices(d)
    BY SMT DEF Quote, GCPDNSZone, GCPListed
  <2> HIDE DEF phrases, unwanted
  <2>3. NoCheaper(prices(c), prices(d))
    BY SMT, <1>5, <2>1
  <2> HIDE DEF prices
  <2> QED BY <2>2, <2>3
<1> QED BY <1>1, <1>2, <1>3, <1>4, <1>6, <1>7, <1>8, <1>9

\* Its database.
LEMMA GCPDatabaseRises ==
  ASSUME NEW c, NEW d, Costlier(c, d), NEW gb \in Nat
  PROVE  NoCheaper(Quote("gcp_pg", c, gb), Quote("gcp_pg", d, gb))
<1> DEFINE shape == CloudSQLShape(gb)
           rates(k) == Both(GCPCloudSQLRate(k, Here, "vcpu"), GCPCloudSQLRate(k, Here, "ram"))
           live(k) == {HoursAMonth * (r[1] * shape.cpu + (r[2] * shape.mem) \div 4) : r \in rates(k)}
           list == 1000000 * CloudSQLList(gb)
           compute(k) == OrElse(live(k), {list})
           disk == 170000 * gb
           f == [r \in Nat \X Nat |-> HoursAMonth * (r[1] * shape.cpu + (r[2] * shape.mem) \div 4)]
<1>1. Quote("gcp_pg", c, gb) = Scaled(Plus(compute(c), {disk}), 2)
  BY SMT DEF Quote, ManagedPostgres, GCPCloudSQLPostgres
<1>2. Quote("gcp_pg", d, gb) = Scaled(Plus(compute(d), {disk}), 2)
  BY SMT DEF Quote, ManagedPostgres, GCPCloudSQLPostgres
<1>3. list \in Nat /\ disk \in Nat
  <2>1. CloudSQLList(gb) \in Nat
    BY SMT, FittingAmongFour DEF CloudSQLList
  <2> QED BY SMT, <2>1
<1>4. \/ (shape.cpu = 1 /\ shape.mem = 15) \/ (shape.cpu = 2 /\ shape.mem = 30)
      \/ (shape.cpu = 4 /\ shape.mem = 60) \/ (shape.cpu = 8 /\ shape.mem = 120)
  <2> DEFINE a == [cpu |-> 1, mem |-> 15]
             b == [cpu |-> 2, mem |-> 30]
             s == [cpu |-> 4, mem |-> 60]
             l == [cpu |-> 8, mem |-> 120]
  <2>1. shape = Fitting(gb, <<25, 100, 500>>, <<a, b, s, l>>)
    BY DEF CloudSQLShape
  <2> HIDE DEF a, b, s, l, shape
  <2>2. shape \in {a, b, s, l}
    BY SMT, <2>1, FittingAmongFour
  <2>3. a.cpu = 1 /\ a.mem = 15 /\ b.cpu = 2 /\ b.mem = 30
    BY DEF a, b
  <2>4. s.cpu = 4 /\ s.mem = 60 /\ l.cpu = 8 /\ l.mem = 120
    BY DEF s, l
  <2> QED BY <2>2, <2>3, <2>4
<1> HIDE DEF list, disk, shape
<1>5. \A resource : NoCheaper(GCPCloudSQLRate(c, Here, resource), GCPCloudSQLRate(d, Here, resource))
  <2> TAKE resource
  <2> DEFINE phrases == <<{"postgresql", resource, "running"}, {"cloud_sql", "postgresql", resource}>>
             unwanted == {"mysql", "sql_server", "enterprise_plus", "replica", "ha"}
  <2>1. Len(phrases) \in Nat
    OBVIOUS
  <2>2. GCPCloudSQLRate(c, Here, resource) = PhraseMajor(c, Here, phrases, unwanted)
    BY DEF GCPCloudSQLRate
  <2>3. GCPCloudSQLRate(d, Here, resource) = PhraseMajor(d, Here, phrases, unwanted)
    BY DEF GCPCloudSQLRate
  <2> HIDE DEF phrases, unwanted
  <2> QED BY SMT, <2>1, <2>2, <2>3, PhraseMajorRises
<1>6. PairsNoCheaper(rates(c), rates(d))
  BY SMT, <1>5, BothGrow
<1> HIDE DEF rates
<1>7. f \in [Nat \X Nat -> Nat] /\ \A x, y \in Nat \X Nat : x[1] <= y[1] /\ x[2] <= y[2] => f[x] <= f[y]
  <2>1. CASE shape.cpu = 1 /\ shape.mem = 15
    BY SMT, <2>1 DEF HoursAMonth
  <2>2. CASE shape.cpu = 2 /\ shape.mem = 30
    BY SMT, <2>2 DEF HoursAMonth
  <2>3. CASE shape.cpu = 4 /\ shape.mem = 60
    BY SMT, <2>3 DEF HoursAMonth
  <2>4. CASE shape.cpu = 8 /\ shape.mem = 120
    BY SMT, <2>4 DEF HoursAMonth
  <2> QED BY <1>4, <2>1, <2>2, <2>3, <2>4
<1>8. \A r \in rates(c) \union rates(d) : f[r] = HoursAMonth * (r[1] * shape.cpu + (r[2] * shape.mem) \div 4)
  BY <1>6 DEF PairsNoCheaper, PairSpans
<1> HIDE DEF f
<1>9. live(c) = {f[r] : r \in rates(c)} /\ live(d) = {f[r] : r \in rates(d)}
  BY <1>8
<1> HIDE DEF live
<1>10. NoCheaper(live(c), live(d))
  BY <1>6, <1>7, <1>9, WeighedPairsGrow
<1>11. NoCheaper(Plus(compute(c), {disk}), Plus(compute(d), {disk}))
  <2>1. NoCheaper(compute(c), compute(d)) /\ NoCheaper({disk}, {disk})
    BY SMT, <1>3, <1>10, ListGrows, OrElseGrows
  <2> HIDE DEF compute
  <2> QED BY SMT, <2>1, PlusGrows
<1> HIDE DEF compute
<1>12. NoCheaper(Scaled(Plus(compute(c), {disk}), 2), Scaled(Plus(compute(d), {disk}), 2))
  BY SMT, <1>11, ScaledGrows
<1> QED BY <1>1, <1>2, <1>12

\* A sum of multiples of three rates.
Mixed(R, k, m, n) == {HoursAMonth * (k * r[1] + m * r[2]) + n * r[3] : r \in R}

\* It grows with them.
LEMMA ThreeGrow ==
  ASSUME NEW P, NEW Q, NoCheaper(P, Q), NEW V, NEW W, NoCheaper(V, W), NEW X, NEW Y, NoCheaper(X, Y),
         NEW k \in Nat, NEW m \in Nat, NEW n \in Nat
  PROVE  NoCheaper(Mixed(P \X V \X X, k, m, n), Mixed(Q \X W \X Y, k, m, n))
<1> DEFINE t(A, B, C) == {HoursAMonth * (k * r[1] + m * r[2]) + n * r[3] : r \in A \X B \X C}
           u(A, B, C) == Plus(Monthly(Plus(Scaled(A, k), Scaled(B, m))), Volume(C, n))
<1>1. \A A, B, C : t(A, B, C) = u(A, B, C)
  <2> TAKE A, B, C
  <2>1. ASSUME NEW x \in t(A, B, C) PROVE x \in u(A, B, C)
    <3>1. PICK r \in A \X B \X C : x = HoursAMonth * (k * r[1] + m * r[2]) + n * r[3]
      OBVIOUS
    <3>2. k * r[1] + m * r[2] \in Plus(Scaled(A, k), Scaled(B, m))
      BY <3>1 DEF Plus, Scaled
    <3> QED BY <3>1, <3>2 DEF Plus, Monthly, Volume
  <2>2. ASSUME NEW x \in u(A, B, C) PROVE x \in t(A, B, C)
    <3>1. PICK y \in Plus(Scaled(A, k), Scaled(B, m)), p \in C : x = HoursAMonth * y + n * p
      BY DEF Plus, Monthly, Volume
    <3>2. PICK a \in A, b \in B : y = k * a + m * b
      BY DEF Plus, Scaled
    <3>3. <<a, b, p>> \in A \X B \X C
      OBVIOUS
    <3>4. <<a, b, p>>[1] = a /\ <<a, b, p>>[2] = b /\ <<a, b, p>>[3] = p
      OBVIOUS
    <3> QED BY <3>1, <3>2, <3>3, <3>4
  <2> QED BY <2>1, <2>2
<1> HIDE DEF t
<1>2. NoCheaper(u(P, V, X), u(Q, W, Y))
  <2>1. NoCheaper(Plus(Scaled(P, k), Scaled(V, m)), Plus(Scaled(Q, k), Scaled(W, m)))
    BY ScaledGrows, PlusGrows
  <2> QED BY <2>1, MonthlyGrows, VolumeGrows, PlusGrows
<1> HIDE DEF u
<1>3. NoCheaper(t(P, V, X), t(Q, W, Y))
  BY <1>1, <1>2
<1> QED BY <1>3 DEF t, Mixed

\* The first rate of IBM, in the currency or in dollars.
LEMMA IBMRateRises ==
  ASSUME NEW R, NEW S, Raised(R, S), NEW metric, NEW currency
  PROVE  NoCheaper(IBMRate(R, metric, currency), IBMRate(S, metric, currency))
<1> DEFINE in(T, x) == {r \in T : metric \in r.has /\ x \in r.has}
<1>1. \A x : Raised(in(R, x), in(S, x))
  <2> TAKE x
  <2>1. in(R, x) \in SUBSET R /\ in(S, x) \in SUBSET S
    OBVIOUS
  <2>2. \A r \in R, s \in S : SameOffer(r, s) => (r \in in(R, x) <=> s \in in(S, x))
    BY DEF SameOffer
  <2> HIDE DEF in
  <2> QED BY <2>1, <2>2, RaisedKept
<1>2. IBMRate(R, metric, currency) = OrElse(First(in(R, currency)), First(in(R, "USD")))
  BY DEF IBMRate
<1>3. IBMRate(S, metric, currency) = OrElse(First(in(S, currency)), First(in(S, "USD")))
  BY DEF IBMRate
<1> HIDE DEF in
<1>4. NoCheaper(First(in(R, currency)), First(in(S, currency))) /\ NoCheaper(First(in(R, "USD")), First(in(S, "USD")))
  BY SMT, <1>1, FirstRises
<1> QED BY <1>2, <1>3, <1>4, OrElseGrows

\* The two rates of its database.
LEMMA IBMRatesRise ==
  ASSUME NEW c, NEW d, Costlier(c, d)
  PROVE  PairsNoCheaper(IBMPostgresRates(c, Here, "USD"), IBMPostgresRates(d, Here, "USD"))
<1> DEFINE of(k, who, metric) == IBMRate(IBMOwn(k, Here, who), metric, "USD")
           either(k, metric) == OrElse(of(k, "child", metric), of(k, "parent", metric))
           parent(k) == Both(of(k, "parent", "memory_hour"), of(k, "parent", "disk_hour"))
           merged(k) == Both(either(k, "memory_hour"), either(k, "disk_hour"))
           list == {<<14800, 625>>}
<1>1. IBMPostgresRates(c, Here, "USD") = OrElse(OrElse(parent(c), merged(c)), list)
  BY DEF IBMPostgresRates
<1>2. IBMPostgresRates(d, Here, "USD") = OrElse(OrElse(parent(d), merged(d)), list)
  BY DEF IBMPostgresRates
<1>3. \A who, metric : NoCheaper(of(c, who, metric), of(d, who, metric))
  <2> TAKE who, metric
  <2>1. Raised(IBMOwn(c, Here, who), IBMOwn(d, Here, who))
    BY SMT, FoundRise, RowsOrElse DEF IBMOwn
  <2> QED BY <2>1, IBMRateRises
<1> HIDE DEF of
<1>4. \A metric : NoCheaper(either(c, metric), either(d, metric))
  BY SMT, <1>3, OrElseGrows
<1> HIDE DEF either
<1>5. PairsNoCheaper(parent(c), parent(d)) /\ PairsNoCheaper(merged(c), merged(d))
  BY SMT, <1>3, <1>4, BothGrow
<1>6. PairsNoCheaper(list, list)
  BY SMT, OnePairGrows
<1> HIDE DEF parent, merged, list
<1> QED BY <1>1, <1>2, <1>5, <1>6, OrElsePairs

\* The other clouds: what is not a database.
LEMMA OthersRise ==
  ASSUME NEW c, NEW d, Costlier(c, d), NEW gb \in Nat
  PROVE  /\ NoCheaper(Quote("hetzner_server", c, gb), Quote("hetzner_server", d, gb))
         /\ NoCheaper(Quote("hetzner_lb", c, gb), Quote("hetzner_lb", d, gb))
         /\ NoCheaper(Quote("do_server", c, gb), Quote("do_server", d, gb))
         /\ NoCheaper(Quote("linode_server", c, gb), Quote("linode_server", d, gb))
         /\ NoCheaper(Quote("oci_machine", c, gb), Quote("oci_machine", d, gb))
         /\ NoCheaper(Quote("ibm_machine", c, gb), Quote("ibm_machine", d, gb))
<1>1. NoCheaper(Quote("hetzner_server", c, gb), Quote("hetzner_server", d, gb))
  <2>1. Rows(c, Everywhere, {"cx22"}, {}) = {} <=> Rows(d, Everywhere, {"cx22"}, {}) = {}
    BY SMT, FoundRise DEF Raised
  <2> QED BY SMT, <2>1, FoundFirstOfRises DEF Quote, HetznerServer
<1>2. NoCheaper(Quote("hetzner_lb", c, gb), Quote("hetzner_lb", d, gb))
  BY SMT, FoundCheapestRise DEF Quote, HetznerLoadBalancer
<1>3. NoCheaper(Quote("do_server", c, gb), Quote("do_server", d, gb))
  BY SMT, FoundFirstOfRises DEF Quote, DOServer
<1>4. NoCheaper(Quote("linode_server", c, gb), Quote("linode_server", d, gb))
  BY SMT, FoundFirstOfRises, FoundSomeRise, OrElseGrows DEF Quote, LinodeServer
<1>5. NoCheaper(Quote("oci_machine", c, gb), Quote("oci_machine", d, gb))
  <2> DEFINE cpu(k) == Cheapest(Rows(k, Everywhere, {"compute", "E4", "standard", "ocpu"}, {} \union {"gpu", "vmware"}))
             mem(k) == Cheapest(Rows(k, Everywhere, {"compute", "E4", "standard", "gb"}, {"ocpu"} \union {"gpu", "vmware"}))
             all(k) == Cheapest(Rows(k, Everywhere, {"compute", "E4", "standard", "hour"}, {"ocpu", "gb"} \union {"gpu", "vmware"}))
             sum(k) == Plus(cpu(k), Scaled(OrElse(mem(k), {0}), 16))
  <2>1. Quote("oci_machine", c, gb) = IF cpu(c) # NoPrice THEN sum(c) ELSE all(c)
    BY SMT DEF Quote, OCIMachine
  <2>2. Quote("oci_machine", d, gb) = IF cpu(d) # NoPrice THEN sum(d) ELSE all(d)
    BY SMT DEF Quote, OCIMachine
  <2>3. NoCheaper(cpu(c), cpu(d)) /\ NoCheaper(mem(c), mem(d)) /\ NoCheaper(all(c), all(d))
    BY SMT, FoundCheapestRise
  <2> HIDE DEF cpu, mem, all
  <2>4. NoCheaper(sum(c), sum(d))
    BY SMT, <2>3, ListGrows, OrElseGrows, ScaledGrows, PlusGrows
  <2> HIDE DEF sum
  <2>5. cpu(c) = NoPrice <=> cpu(d) = NoPrice
    BY <2>3 DEF NoCheaper, NoPrice
  <2> QED BY <2>1, <2>2, <2>3, <2>4, <2>5
<1>6. NoCheaper(Quote("ibm_machine", c, gb), Quote("ibm_machine", d, gb))
  <2> DEFINE rate(k) == IBMRate(IBMMetrics(k, Here), "instance_hour", "USD")
  <2>1. Raised(IBMMetrics(c, Here), IBMMetrics(d, Here))
    BY SMT, FoundRise, RowsOrElse DEF IBMMetrics, IBMOwn
  <2>2. NoCheaper(rate(c), rate(d))
    BY <2>1, IBMRateRises
  <2>3. Quote("ibm_machine", c, gb) = OrElse(rate(c), {92000}) /\ Quote("ibm_machine", d, gb) = OrElse(rate(d), {92000})
    BY SMT DEF Quote, IBMMachine
  <2> HIDE DEF rate
  <2> QED BY SMT, <2>2, <2>3, ListGrows, OrElseGrows
<1> QED BY <1>1, <1>2, <1>3, <1>4, <1>5, <1>6

\* Their databases.
LEMMA OtherDatabasesRise ==
  ASSUME NEW c, NEW d, Costlier(c, d), NEW gb \in Nat
  PROVE  /\ NoCheaper(Quote("do_pg", c, gb), Quote("do_pg", d, gb))
         /\ NoCheaper(Quote("linode_pg", c, gb), Quote("linode_pg", d, gb))
         /\ NoCheaper(Quote("oci_pg", c, gb), Quote("oci_pg", d, gb))
         /\ NoCheaper(Quote("ibm_pg", c, gb), Quote("ibm_pg", d, gb))
<1>1. ASSUME NEW size, NEW n \in Nat PROVE NoCheaper(DOPostgres(c, size, {n}), DOPostgres(d, size, {n}))
  BY SMT, FoundFirstRises, ListGrows, OrElseGrows DEF DOPostgres
<1>2. ASSUME NEW class, NEW n \in Nat PROVE NoCheaper(LinodePostgres(c, class, {n}), LinodePostgres(d, class, {n}))
  BY SMT, FoundFirstRises, ListGrows, OrElseGrows DEF LinodePostgres
<1>3. NoCheaper(Quote("oci_pg", c, gb), Quote("oci_pg", d, gb))
  <2> DEFINE shape == OCIPostgresShape(gb)
             rows(k, what) == Cheapest(Rows(k, Everywhere, {"postgres", what}, {}))
             cpu(k) == rows(k, "ocpu")
             disk(k) == rows(k, "storage")
             mem(k) == OrElse(rows(k, "memory"), {0})
             sum(R) == Mixed(R, shape.cpu, shape.mem, gb)
  <2>1. shape.cpu \in Nat /\ shape.mem \in Nat
    <3> DEFINE a == [cpu |-> 2, mem |-> 16]
               b == [cpu |-> 4, mem |-> 32]
               l == [cpu |-> 8, mem |-> 64]
    <3>1. shape = Fitting(gb, <<50, 200>>, <<a, b, l>>)
      BY DEF OCIPostgresShape
    <3> HIDE DEF a, b, l, shape
    <3>2. shape \in {a, b, l}
      BY SMT, <3>1, FittingAmongThree
    <3>3. a.cpu = 2 /\ a.mem = 16 /\ b.cpu = 4 /\ b.mem = 32 /\ l.cpu = 8 /\ l.mem = 64
      BY DEF a, b, l
    <3> QED BY <3>2, <3>3
  <2>2. Quote("oci_pg", c, gb) = Scaled(sum(OCIPostgresRates(c)), 3)
    BY SMT DEF Quote, ManagedPostgres, OCIPostgres, Mixed
  <2>3. Quote("oci_pg", d, gb) = Scaled(sum(OCIPostgresRates(d)), 3)
    BY SMT DEF Quote, ManagedPostgres, OCIPostgres, Mixed
  <2>4. OCIPostgresRates(c) = IF cpu(c) = NoPrice \/ disk(c) = NoPrice THEN {71700} \X {5000} \X {25500}
                              ELSE cpu(c) \X mem(c) \X disk(c)
    BY DEF OCIPostgresRates
  <2>5. OCIPostgresRates(d) = IF cpu(d) = NoPrice \/ disk(d) = NoPrice THEN {71700} \X {5000} \X {25500}
                              ELSE cpu(d) \X mem(d) \X disk(d)
    BY DEF OCIPostgresRates
  <2>6. NoCheaper(cpu(c), cpu(d)) /\ NoCheaper(disk(c), disk(d)) /\ NoCheaper(mem(c), mem(d))
    BY SMT, FoundCheapestRise, ListGrows, OrElseGrows
  <2> HIDE DEF rows, cpu, disk, mem, shape
  <2>7. NoCheaper(sum(cpu(c) \X mem(c) \X disk(c)), sum(cpu(d) \X mem(d) \X disk(d)))
    BY <2>1, <2>6, ThreeGrow
  <2>8. NoCheaper(sum({71700} \X {5000} \X {25500}), sum({71700} \X {5000} \X {25500}))
    <3>1. \A x, y, z \in Nat : NoCheaper(sum({x} \X {y} \X {z}), sum({x} \X {y} \X {z}))
      BY <2>1, ListGrows, ThreeGrow
    <3> HIDE DEF sum
    <3> QED BY SMT, <3>1
  <2> HIDE DEF sum
  <2>9. cpu(c) = NoPrice <=> cpu(d) = NoPrice
    BY <2>6 DEF NoCheaper, NoPrice
  <2>10. disk(c) = NoPrice <=> disk(d) = NoPrice
    BY <2>6 DEF NoCheaper, NoPrice
  <2>11. NoCheaper(sum(OCIPostgresRates(c)), sum(OCIPostgresRates(d)))
    BY SMT, <2>4, <2>5, <2>7, <2>8, <2>9, <2>10
  <2>12. NoCheaper(Scaled(sum(OCIPostgresRates(c)), 3), Scaled(sum(OCIPostgresRates(d)), 3))
    BY SMT, <2>11, ScaledGrows
  <2> QED BY <2>2, <2>3, <2>12
<1>4. NoCheaper(Quote("ibm_pg", c, gb), Quote("ibm_pg", d, gb))
  <2> DEFINE shape == IBMPostgresShape(gb)
             f == [r \in Nat \X Nat |-> HoursAMonth * (shape.mem * r[1] + shape.disk * r[2])]
             rates(k) == IBMPostgresRates(k, Here, "USD")
             sum(k) == {HoursAMonth * (shape.mem * r[1] + shape.disk * r[2]) : r \in rates(k)}
  <2>1. shape.mem \in Nat /\ shape.disk \in Nat
    <3> DEFINE a == [mem |-> 4, disk |-> 5]
               b == [mem |-> 8, disk |-> gb]
               s == [mem |-> 16, disk |-> gb]
               l == [mem |-> 32, disk |-> gb]
    <3>1. shape = Fitting(gb, <<25, 100, 500>>, <<a, b, s, l>>)
      BY DEF IBMPostgresShape
    <3> HIDE DEF a, b, s, l, shape
    <3>2. shape \in {a, b, s, l}
      BY SMT, <3>1, FittingAmongFour
    <3>3. a.mem = 4 /\ a.disk = 5 /\ b.mem = 8 /\ b.disk = gb
      BY DEF a, b
    <3>4. s.mem = 16 /\ s.disk = gb /\ l.mem = 32 /\ l.disk = gb
      BY DEF s, l
    <3> QED BY <3>2, <3>3, <3>4
  <2>2. Quote("ibm_pg", c, gb) = Scaled(sum(c), 3)
    BY SMT DEF Quote, ManagedPostgres, IBMPostgres
  <2>3. Quote("ibm_pg", d, gb) = Scaled(sum(d), 3)
    BY SMT DEF Quote, ManagedPostgres, IBMPostgres
  <2> HIDE DEF shape
  <2>4. PairsNoCheaper(rates(c), rates(d))
    BY IBMRatesRise
  <2> HIDE DEF rates
  <2>5. f \in [Nat \X Nat -> Nat] /\ \A x, y \in Nat \X Nat : x[1] <= y[1] /\ x[2] <= y[2] => f[x] <= f[y]
    <3>1. \A r \in Nat \X Nat : shape.mem * r[1] \in Nat /\ shape.disk * r[2] \in Nat
      BY <2>1
    <3>2. \A x, y \in Nat \X Nat : x[1] <= y[1] /\ x[2] <= y[2] =>
            shape.mem * x[1] <= shape.mem * y[1] /\ shape.disk * x[2] <= shape.disk * y[2]
      BY <2>1, MoreCostsMore
    <3> QED BY SMT, <3>1, <3>2 DEF HoursAMonth
  <2>6. \A r \in rates(c) \union rates(d) : f[r] = HoursAMonth * (shape.mem * r[1] + shape.disk * r[2])
    BY <2>4 DEF PairsNoCheaper, PairSpans
  <2> HIDE DEF f
  <2>7. sum(c) = {f[r] : r \in rates(c)} /\ sum(d) = {f[r] : r \in rates(d)}
    BY <2>6
  <2> HIDE DEF sum
  <2>8. NoCheaper(sum(c), sum(d))
    BY <2>4, <2>5, <2>7, WeighedPairsGrow
  <2>9. NoCheaper(Scaled(sum(c), 3), Scaled(sum(d), 3))
    BY SMT, <2>8, ScaledGrows
  <2> QED BY <2>2, <2>3, <2>9
<1>5. NoCheaper(Quote("do_pg", c, gb), Quote("do_pg", d, gb))
  BY SMT, <1>1 DEF Quote, ManagedPostgres
<1>6. NoCheaper(Quote("linode_pg", c, gb), Quote("linode_pg", d, gb))
  BY SMT, <1>2 DEF Quote, ManagedPostgres
<1> QED BY <1>3, <1>4, <1>5, <1>6

------------------------------------------------------------------------------
(* Every lookup, and the invariant of a session of lookups.                 *)

\* Whatever is looked up, a catalogue with prices that are not lower quotes
\* no less; with Aurora as long as no amount is taken for a rate of requests.
LEMMA QuoteRises ==
  ASSUME NEW f \in AllLookups, NEW c, NEW d, Costlier(c, d), NEW gb \in Nat,
         f = "aurora" => \A s \in c.rows \union d.rows : s.usd <= 1000000
  PROVE  /\ f \in Pairs => PairsNoCheaper(Quote(f, c, gb), Quote(f, d, gb))
         /\ f \notin Pairs => NoCheaper(Quote(f, c, gb), Quote(f, d, gb))
<1>1. f \in WorldWide => /\ f \in Pairs => PairsNoCheaper(Quote(f, c, gb), Quote(f, d, gb))
                         /\ f \notin Pairs => NoCheaper(Quote(f, c, gb), Quote(f, d, gb))
  BY SMT, AWSRises, GCPRises, OthersRise DEF WorldWide, Pairs
<1>2. f \in {"rds", "rds_storage", "route53", "aurora"} => NoCheaper(Quote(f, c, gb), Quote(f, d, gb))
  BY SMT, AWSRises, AWSDatabasesRise
<1>3. f \in {"azure_nat", "azure_lb"} => PairsNoCheaper(Quote(f, c, gb), Quote(f, d, gb))
  BY SMT, AzureRises
<1>4. f \in {"azure_vm", "aks", "azure_ip", "azure_logs", "azure_dns", "azure_egress", "azure_disk", "azure_pg"}
        => NoCheaper(Quote(f, c, gb), Quote(f, d, gb))
  BY SMT, AzureRises, AzureDatabaseRises
<1>5. f \in {"gcp_logging", "gcp_dns", "gcp_pg"} => NoCheaper(Quote(f, c, gb), Quote(f, d, gb))
  BY SMT, GCPRises, GCPDatabaseRises
<1>6. f \in {"hetzner_server", "hetzner_lb", "do_server", "do_pg", "linode_pg", "oci_machine", "oci_pg",
             "ibm_machine", "ibm_pg"}
        => NoCheaper(Quote(f, c, gb), Quote(f, d, gb))
  BY SMT, OthersRise, OtherDatabasesRise
<1> QED BY SMT, <1>1, <1>2, <1>3, <1>4, <1>5, <1>6 DEF AllLookups, Pairs

\* One of a lookup's entries, in a region, at an amount that may be published.
OfferedBy(f, r) ==
  \E i \in DOMAIN Words(f), region \in Regions(f), usd \in Published[f] : r = RowOf(f, i, region, usd)

\* A row of the lookup of the session.
IsOffered(r) == OfferedBy(lookup, r)

\* What is always true of the catalogue of a session: it has rows of its
\* lookup, each at its place in the answer and no two at one, and none when it
\* cannot be read.
QuoteInv ==
  /\ lookup \in Lookups
  /\ cat = [up |-> cat.up, rows |-> cat.rows] /\ cat.up \in BOOLEAN
  /\ IsFiniteSet(cat.rows)
  /\ \A r \in cat.rows : IsOffered(r)
  /\ \A r, s \in cat.rows : r.pos = s.pos => r = s
  /\ ~ cat.up => cat.rows = {}

\* A row that gets another price is still a row of the lookup, at its place.
LEMMA RepricedIsOffered ==
  ASSUME NEW r, IsOffered(r), NEW usd \in Published[lookup]
  PROVE  IsOffered([r EXCEPT !.usd = usd]) /\ [r EXCEPT !.usd = usd].pos = r.pos
<1>1. PICK i \in DOMAIN Words(lookup), region \in Regions(lookup), was \in Published[lookup] :
        r = RowOf(lookup, i, region, was)
  BY DEF IsOffered, OfferedBy
<1>2. [r EXCEPT !.usd = usd] = RowOf(lookup, i, region, usd)
  BY <1>1 DEF RowOf
<1>3. RowOf(lookup, i, region, usd).pos = RowOf(lookup, i, region, was).pos
  BY DEF RowOf
<1> QED BY <1>1, <1>2, <1>3 DEF IsOffered, OfferedBy

\* The invariant of the catalogue is one.
LEMMA AlwaysQuoted == QuotationsSpec => []QuoteInv
<1>1. QuotationsInit => QuoteInv
  BY FS_EmptySet DEF QuotationsInit, QuoteInv
<1>2. QuoteInv /\ [QuotationsNext]_quotationVars => QuoteInv'
  <2> SUFFICES ASSUME QuoteInv, [QuotationsNext]_quotationVars PROVE QuoteInv'
    OBVIOUS
  <2>1. CASE Offer
    <3>1. PICK i \in DOMAIN Words(lookup), region \in Regions(lookup), usd \in Published[lookup] :
            LET row == RowOf(lookup, i, region, usd)
            IN /\ cat.up /\ \A r \in cat.rows : r.pos # row.pos
               /\ cat' = [cat EXCEPT !.rows = @ \union {row}]
               /\ UNCHANGED lookup
      BY <2>1 DEF Offer
    <3> DEFINE row == RowOf(lookup, i, region, usd)
    <3>2. cat'.rows = cat.rows \union {row} /\ cat'.up = cat.up /\ cat' = [up |-> cat'.up, rows |-> cat'.rows]
      BY <3>1 DEF QuoteInv
    <3>3. IsOffered(row)
      BY DEF IsOffered, OfferedBy
    <3> HIDE DEF row
    <3>4. IsFiniteSet(cat'.rows)
      BY <3>2, FS_AddElement DEF QuoteInv
    <3>5. \A r \in cat'.rows : IsOffered(r)
      BY <3>2, <3>3 DEF QuoteInv
    <3>6. \A r, s \in cat'.rows : r.pos = s.pos => r = s
      BY <3>1, <3>2 DEF QuoteInv, row
    <3>7. lookup' = lookup /\ cat'.up
      BY <3>1, <3>2
    <3> QED BY <3>2, <3>4, <3>5, <3>6, <3>7 DEF QuoteInv, IsOffered, OfferedBy
  <2>2. CASE Reprice
    <3>1. PICK r \in cat.rows, usd \in Published[lookup] :
            cat' = [cat EXCEPT !.rows = (@ \ {r}) \union {[r EXCEPT !.usd = usd]}]
      BY <2>2 DEF Reprice
    <3> DEFINE new == [r EXCEPT !.usd = usd]
    <3>2. /\ cat'.rows = (cat.rows \ {r}) \union {new} /\ cat'.up = cat.up
          /\ cat' = [up |-> cat'.up, rows |-> cat'.rows]
      BY <3>1 DEF QuoteInv
    <3>3. IsOffered(new) /\ new.pos = r.pos
      BY RepricedIsOffered DEF QuoteInv
    <3> HIDE DEF new
    <3>4. IsFiniteSet(cat'.rows)
      <4>1. IsFiniteSet(cat.rows \ {r})
        BY FS_RemoveElement DEF QuoteInv
      <4> QED BY <3>2, <4>1, FS_AddElement
    <3>5. \A t \in cat'.rows : IsOffered(t)
      BY <3>2, <3>3 DEF QuoteInv
    <3>6. \A t, s \in cat'.rows : t.pos = s.pos => t = s
      BY <3>2, <3>3 DEF QuoteInv
    <3>7. lookup' = lookup /\ cat'.up
      BY <2>2, <3>1, <3>2 DEF Reprice, QuoteInv
    <3> QED BY <3>2, <3>4, <3>5, <3>6, <3>7 DEF QuoteInv, IsOffered, OfferedBy
  <2>3. CASE Withdraw
    <3>1. PICK r \in cat.rows : cat' = [cat EXCEPT !.rows = @ \ {r}]
      BY <2>3 DEF Withdraw
    <3>2. /\ cat'.rows = cat.rows \ {r} /\ cat'.up = cat.up
          /\ cat' = [up |-> cat'.up, rows |-> cat'.rows] /\ lookup' = lookup
      BY <2>3, <3>1 DEF QuoteInv, Withdraw
    <3>3. IsFiniteSet(cat'.rows)
      BY <3>2, FS_RemoveElement DEF QuoteInv
    <3> QED BY <3>2, <3>3 DEF QuoteInv, IsOffered, OfferedBy
  <2>4. CASE Outage
    BY <2>4, FS_EmptySet DEF Outage, QuoteInv
  <2>5. CASE UNCHANGED quotationVars
    BY <2>5 DEF quotationVars, QuoteInv, IsOffered, OfferedBy
  <2> QED BY <2>1, <2>2, <2>3, <2>4, <2>5 DEF QuotationsNext
<1> QED BY <1>1, <1>2, PTL DEF QuotationsSpec

\* The rows of a lookup are the entries of a list.
LEMMA WordsAreListed == \A f \in AllLookups : DOMAIN Words(f) \in SUBSET (Nat \ {0})
BY SMT DEF AllLookups, WorldWide, Words

\* What is offered has a place, a tier and an amount.
LEMMA OfferedAreRows ==
  ASSUME NEW f \in Lookups, NEW R, IsFiniteSet(R), \A r \in R : OfferedBy(f, r)
  PROVE  AreRows(R)
<1> SUFFICES ASSUME NEW r \in R PROVE r.usd \in Nat /\ r.pos \in Int /\ r.tier \in Int
  BY DEF AreRows
<1>1. PICK i \in DOMAIN Words(f), region \in Regions(f), usd \in Published[f] : r = RowOf(f, i, region, usd)
  BY DEF OfferedBy
<1>2. i \in Nat /\ usd \in Nat
  BY <1>1, WordsAreListed, LookupsAssumption, PublishedAssumption
<1> QED BY <1>1, <1>2 DEF RowOf

\* It is a record of five fields.
LEMMA OfferedFields ==
  ASSUME NEW f, NEW r, OfferedBy(f, r)
  PROVE  /\ r = [has |-> r.has, at |-> r.at, pos |-> r.pos, tier |-> r.tier, usd |-> r.usd]
         /\ r.usd \in Published[f]
BY DEF OfferedBy, RowOf

\* The sizes that are asked for are numbers.
LEMMA SizesAskedAre == SizesAsked \in SUBSET Nat
<1>1. Min(Sizes) \in Sizes
  BY SizesAssumption, MinIsLeast
<1> QED BY <1>1, SizesAssumption DEF SizesAsked

\* A quote with a least and a greatest rate that are not lower is not less.
LEMMA NoCheaperIsNotLess ==
  ASSUME NEW P, NEW Q,
         /\ lookup \in Pairs => PairsNoCheaper(P, Q)
         /\ lookup \notin Pairs => NoCheaper(P, Q)
  PROVE  NotLess(P, Q)
<1> SUFFICES ASSUME P # {}, Q # {}, NEW i \in IF lookup \in Pairs THEN {1, 2} ELSE {1}
             PROVE  Min(Rates(P, i)) <= Min(Rates(Q, i)) /\ Max(Rates(P, i)) <= Max(Rates(Q, i))
  BY DEF NotLess, NoPrice
<1>1. CASE lookup \notin Pairs
  <2>1. Rates(P, i) = P /\ Rates(Q, i) = Q
    BY <1>1 DEF Rates
  <2>2. PICK a \in P, b \in P, c \in Q, d \in Q : Spans(P, a, b) /\ Spans(Q, c, d) /\ a <= c /\ b <= d
    BY <1>1 DEF NoCheaper
  <2>3. Min(P) = a /\ Max(P) = b /\ Min(Q) = c /\ Max(Q) = d
    BY <2>2, SpanIsMinMax
  <2> QED BY <2>1, <2>2, <2>3
<1>2. CASE lookup \in Pairs
  <2>1. PICK a \in P, b \in P, c \in Q, d \in Q :
          /\ PairSpans(P, a, b) /\ PairSpans(Q, c, d)
          /\ a[1] <= c[1] /\ b[1] <= d[1] /\ a[2] <= c[2] /\ b[2] <= d[2]
    BY <1>2 DEF PairsNoCheaper
  <2>2. Rates(P, i) = {q[i] : q \in P} /\ Rates(Q, i) = {q[i] : q \in Q}
    BY <1>2 DEF Rates
  <2>3. i = 1 \/ i = 2
    BY <1>2
  <2>4. Spans({q[i] : q \in P}, a[i], b[i]) /\ Spans({q[i] : q \in Q}, c[i], d[i])
    BY <2>1, <2>3 DEF PairSpans, Spans
  <2>5. /\ Min(Rates(P, i)) = a[i] /\ Max(Rates(P, i)) = b[i]
        /\ Min(Rates(Q, i)) = c[i] /\ Max(Rates(Q, i)) = d[i]
    BY <2>2, <2>4, SpanIsMinMax
  <2> QED BY <2>1, <2>3, <2>5
<1> QED BY <1>1, <1>2

\* No rate of Aurora's storage is taken for one of a million requests.
RatesBelowADollar == \A usd \in Published["aurora"] : usd <= 1000000

\* A row that gets dearer never makes a quote cheaper, whatever the vendors
\* publish, as long as Aurora's rates stay at a dollar or below (every lookup
\* of internal/pricing; of a rate above a dollar the code thinks that it is
\* that of a million requests and drops it).
THEOREM DearerQuotesNoLess == RatesBelowADollar => (QuotationsSpec => DearerIsNotCheaper)
<1> SUFFICES ASSUME RatesBelowADollar PROVE QuotationsSpec => DearerIsNotCheaper
  OBVIOUS
<1> DEFINE Kept ==
      lookup' = lookup
     /\ (\E r \in cat.rows, s \in cat'.rows :
           /\ r.usd > 0 /\ s.usd >= r.usd /\ s = [r EXCEPT !.usd = s.usd]
           /\ cat'.rows = (cat.rows \ {r}) \union {s})
     => \A gb \in SizesAsked : NotLess(Quote(lookup, cat, gb), Quote(lookup, cat', gb))
<1>1. ASSUME QuoteInv, QuoteInv', [QuotationsNext]_quotationVars PROVE Kept
  <2> SUFFICES ASSUME lookup' = lookup, NEW gb \in SizesAsked, NEW r \in cat.rows, NEW s \in cat'.rows,
                      r.usd > 0, s.usd >= r.usd, s = [r EXCEPT !.usd = s.usd],
                      cat'.rows = (cat.rows \ {r}) \union {s}
               PROVE  NotLess(Quote(lookup, cat, gb), Quote(lookup, cat', gb))
    OBVIOUS
  <2> DEFINE d == cat'
  <2>1. lookup \in AllLookups /\ lookup \in Lookups /\ gb \in Nat
    BY <1>1, LookupsAssumption, SizesAskedAre DEF QuoteInv
  <2>2. AreRows(cat.rows)
    BY <1>1, OfferedAreRows DEF QuoteInv, IsOffered
  <2>3. AreRows(d.rows)
    BY <1>1, OfferedAreRows DEF QuoteInv, IsOffered
  <2>4. cat.up /\ d.up
    BY <1>1 DEF QuoteInv
  <2>5. \A t \in d.rows : t.usd \in Published[lookup]
    BY <1>1, OfferedFields DEF QuoteInv, IsOffered
  <2>6. \A t \in cat.rows : t.usd \in Published[lookup]
    BY <1>1, OfferedFields DEF QuoteInv, IsOffered
  <2>7. r = [has |-> r.has, at |-> r.at, pos |-> r.pos, tier |-> r.tier, usd |-> r.usd]
    BY <1>1, OfferedFields DEF QuoteInv, IsOffered
  <2> HIDE DEF d
  <2>8. Raised(cat.rows, d.rows)
    <3>1. d.rows = (cat.rows \ {r}) \union {s} /\ s \in d.rows
      BY DEF d
    <3>2. SameOffer(r, s)
      <4> DEFINE x == s.usd
      <4>1. s = [r EXCEPT !.usd = x] /\ r.usd > 0 /\ x >= r.usd /\ s.usd = x
        OBVIOUS
      <4> HIDE DEF x
      <4>2. s = [has |-> r.has, at |-> r.at, pos |-> r.pos, tier |-> r.tier, usd |-> x]
        BY <2>7, <4>1
      <4>3. s.has = r.has /\ s.at = r.at /\ s.pos = r.pos /\ s.tier = r.tier
        BY <4>2
      <4>4. r.usd \in Nat /\ s.usd \in Nat
        BY <2>2, <2>3, <3>1 DEF AreRows
      <4> QED BY <4>1, <4>3, <4>4 DEF SameOffer
    <3>3. \A t \in cat.rows : SameOffer(t, t)
      BY <2>2 DEF SameOffer, AreRows
    <3> QED BY <2>2, <2>3, <3>1, <3>2, <3>3 DEF Raised
  <2>9. Costlier(cat, d)
    BY <2>4, <2>8, <1>1 DEF Costlier, QuoteInv, d
  <2>10. lookup = "aurora" => \A t \in cat.rows \union d.rows : t.usd <= 1000000
    BY SMT, <2>5, <2>6 DEF RatesBelowADollar
  <2>11. /\ lookup \in Pairs => PairsNoCheaper(Quote(lookup, cat, gb), Quote(lookup, d, gb))
         /\ lookup \notin Pairs => NoCheaper(Quote(lookup, cat, gb), Quote(lookup, d, gb))
    BY SMT, <2>1, <2>9, <2>10, QuoteRises
  <2>12. NotLess(Quote(lookup, cat, gb), Quote(lookup, d, gb))
    BY <2>11, NoCheaperIsNotLess
  <2> QED BY <2>12 DEF d
<1>2. QuoteInv /\ QuoteInv' /\ [QuotationsNext]_quotationVars => [Kept]_quotationVars
  BY <1>1
<1>3. QuotationsSpec => [][QuotationsNext]_quotationVars
  BY DEF QuotationsSpec
<1> QED BY <1>2, <1>3, AlwaysQuoted, PTL DEF DearerIsNotCheaper

------------------------------------------------------------------------------
(* What is quoted for a region with offers of its own.                      *)

\* Among rows with places there is a first one.
LEMMA FirstIsThere ==
  ASSUME NEW R, R # {}, \A r \in R : r.pos \in Nat
  PROVE  FirstOf(R) # {}
<1> DEFINE P == {r.pos : r \in R}
<1>1. P \in SUBSET Nat /\ P # {}
  OBVIOUS
<1> HIDE DEF P
<1>2. Min(P) \in P /\ \A p \in P : Min(P) <= p
  BY <1>1, MinIsLeast
<1>3. PICK r \in R : r.pos = Min(P)
  BY <1>2 DEF P
<1>4. r \in FirstOf(R)
  BY <1>2, <1>3 DEF FirstOf, P
<1> QED BY <1>4

\* What is looked for here is found in the rows that are here.
LEMMA LocalRows ==
  ASSUME QuoteInv
  PROVE  /\ Local.rows \in SUBSET cat.rows /\ Local.up = cat.up
         /\ \A want, unwanted : Rows(cat, Here, want, unwanted) = Rows(Local, Here, want, unwanted)
<1>1. Local.rows = {r \in cat.rows : Here \in r.at} /\ Local.up = cat.up
  BY DEF Local, QuoteInv
<1> QED BY <1>1 DEF Rows

\* When a phrase finds a price here, what is everywhere does not matter.
LEMMA FoundHere ==
  ASSUME QuoteInv, NEW phrases, NEW n \in Nat, Len(phrases) = n, NEW unwanted,
         NEW j \in 1 .. n, OnDemand(Local, Here, phrases[j], unwanted) # NoPrice
  PROVE  RegionMajor(cat, Here, phrases, unwanted) = RegionMajor(Local, Here, phrases, unwanted)
<1> DEFINE try(k) == [i \in 1 .. 2 * n |-> OnDemand(k, IF i <= n THEN Here ELSE Everywhere,
                                                    phrases[((i - 1) % n) + 1], unwanted)]
           priced(k) == {i \in 1 .. 2 * n : try(k)[i] # NoPrice}
<1>1. RegionMajor(cat, Here, phrases, unwanted) = FirstAnswer(try(cat))
  BY DEF RegionMajor
<1>2. RegionMajor(Local, Here, phrases, unwanted) = FirstAnswer(try(Local))
  BY DEF RegionMajor
<1>3. \A i \in 1 .. n : try(cat)[i] = try(Local)[i]
  BY SMT, LocalRows DEF OnDemand
<1>4. j \in 1 .. 2 * n /\ j <= n /\ ((j - 1) % n) + 1 = j
  OBVIOUS
<1>5. try(Local)[j] = OnDemand(Local, Here, phrases[j], unwanted)
  BY SMT, <1>4
<1>6. DOMAIN try(cat) = 1 .. 2 * n /\ DOMAIN try(Local) = 1 .. 2 * n
  OBVIOUS
<1> HIDE DEF try
<1>7. j \in priced(cat) /\ j \in priced(Local)
  BY <1>3, <1>4, <1>5
<1>8. priced(cat) \in SUBSET Nat /\ priced(Local) \in SUBSET Nat
  OBVIOUS
<1>9. \A i \in 1 .. n : i \in priced(cat) <=> i \in priced(Local)
  BY <1>3, <1>4
<1>10. FirstAnswer(try(cat)) = try(cat)[Min(priced(cat))] /\ FirstAnswer(try(Local)) = try(Local)[Min(priced(Local))]
  BY <1>6, <1>7 DEF FirstAnswer
<1>11. \A i \in priced(cat) \union priced(Local) : i >= 1
  OBVIOUS
<1> HIDE DEF priced
<1>12. /\ Min(priced(cat)) \in priced(cat) /\ Min(priced(cat)) <= j
       /\ \A i \in priced(cat) : Min(priced(cat)) <= i
  BY <1>7, <1>8, MinIsLeast
<1>13. /\ Min(priced(Local)) \in priced(Local) /\ Min(priced(Local)) <= j
       /\ \A i \in priced(Local) : Min(priced(Local)) <= i
  BY <1>7, <1>8, MinIsLeast
<1>14. Min(priced(cat)) \in 1 .. n /\ Min(priced(Local)) \in 1 .. n
  BY <1>4, <1>8, <1>11, <1>12, <1>13
<1>15. Min(priced(cat)) = Min(priced(Local))
  BY <1>8, <1>9, <1>12, <1>13, <1>14
<1> QED BY <1>1, <1>2, <1>3, <1>10, <1>14, <1>15

\* A priced row here with the words of a phrase gives it a price.
LEMMA PhraseIsPriced ==
  ASSUME QuoteInv, NEW r \in Local.rows, r.usd > 0, NEW phrase, {"ondemand"} \union phrase \subseteq r.has,
         NEW unwanted, unwanted \cap r.has = {}
  PROVE  OnDemand(Local, Here, phrase, unwanted) # NoPrice
<1> DEFINE R == Positive(Rows(Local, Here, {"ondemand"} \union phrase, unwanted))
<1>1. Local.rows = {s \in cat.rows : Here \in s.at}
  BY DEF Local, QuoteInv
<1>2. r \in R
  BY <1>1 DEF Rows, Positive
<1>3. \A s \in R : s \in cat.rows
  BY <1>1 DEF Rows, Positive
<1>4. \A s \in cat.rows : s.pos \in Nat
  <2> TAKE s \in cat.rows
  <2>1. PICK i \in DOMAIN Words(lookup), region \in Regions(lookup), usd \in Published[lookup] :
          s = RowOf(lookup, i, region, usd)
    BY DEF QuoteInv, IsOffered, OfferedBy
  <2>2. i \in Nat \ {0}
    BY <2>1, WordsAreListed, LookupsAssumption DEF QuoteInv
  <2> QED BY <2>1, <2>2 DEF RowOf
<1>5. OnDemand(Local, Here, phrase, unwanted) = Some(FirstOf(R))
  BY DEF OnDemand, First
<1> HIDE DEF R
<1>6. FirstOf(R) # {}
  BY <1>2, <1>3, <1>4, FirstIsThere
<1> QED BY <1>5, <1>6 DEF Some, NoPrice

\* A price here is found by one of the phrases of Google's load balancer.
LEMMA RuleIsQuotedHere ==
  ASSUME QuoteInv, lookup = "gcp_lb", Positive(Local.rows) # {}, NEW gb
  PROVE  Quote("gcp_lb", cat, gb) = Quote("gcp_lb", Local, gb)
<1> DEFINE phrases == <<{"forwarding", "rule"}, {"load_balancing", "forwarding"}, {"external", "forwarding"},
                        {"network_load_balancing"}, {"http", "load_balancing"}>>
           unwanted == {"data_processing", "ingress", "outgoing"}
<1>1. PICK r \in Local.rows : r.usd > 0
  BY DEF Positive
<1>2. r \in cat.rows
  BY LocalRows
<1>3. PICK i \in DOMAIN Words("gcp_lb"), region \in Regions("gcp_lb"), usd \in Published["gcp_lb"] :
        r = RowOf("gcp_lb", i, region, usd)
  BY <1>2 DEF QuoteInv, IsOffered, OfferedBy
<1>4. Words("gcp_lb") = <<{"ondemand", "http", "load_balancing"}, {"ondemand", "forwarding", "rule"}>>
  BY SMT DEF Words
<1>5. r.has = {"ondemand", "http", "load_balancing"} \/ r.has = {"ondemand", "forwarding", "rule"}
  BY SMT, <1>3, <1>4 DEF RowOf
<1>6. /\ Len(phrases) = 5 /\ phrases[1] = {"forwarding", "rule"} /\ phrases[5] = {"http", "load_balancing"}
  BY SMT
<1>7. unwanted \cap r.has = {}
  BY SMT, <1>5
<1>8. \E j \in 1 .. 5 : {"ondemand"} \union phrases[j] \subseteq r.has
  BY SMT, <1>5, <1>6
<1>9. Quote("gcp_lb", cat, gb) = Monthly(OrElse(RegionMajor(cat, Here, phrases, unwanted), {25000}))
  BY SMT DEF Quote, GCPLoadBalancer, GCPListed
<1>10. Quote("gcp_lb", Local, gb) = Monthly(OrElse(RegionMajor(Local, Here, phrases, unwanted), {25000}))
  BY SMT DEF Quote, GCPLoadBalancer, GCPListed
<1> HIDE DEF phrases, unwanted
<1>11. PICK j \in 1 .. 5 : OnDemand(Local, Here, phrases[j], unwanted) # NoPrice
  BY SMT, <1>1, <1>7, <1>8, PhraseIsPriced
<1>12. RegionMajor(cat, Here, phrases, unwanted) = RegionMajor(Local, Here, phrases, unwanted)
  <2>1. 5 \in Nat /\ Len(phrases) = 5
    BY SMT, <1>6
  <2> QED BY <1>11, <2>1, FoundHere
<1> QED BY SMT, <1>9, <1>10, <1>12

\* And of its egress.
LEMMA EgressIsQuotedHere ==
  ASSUME QuoteInv, lookup = "gcp_egress", Positive(Local.rows) # {}, NEW gb
  PROVE  Quote("gcp_egress", cat, gb) = Quote("gcp_egress", Local, gb)
<1> DEFINE phrases == <<{"network_internet_egress"}, {"internet", "egress"}, {"egress", "worldwide"}, {"network_egress"}>>
           unwanted == {"china", "australia"}
<1>1. PICK r \in Local.rows : r.usd > 0
  BY DEF Positive
<1>2. r \in cat.rows
  BY LocalRows
<1>3. PICK i \in DOMAIN Words("gcp_egress"), region \in Regions("gcp_egress"), usd \in Published["gcp_egress"] :
        r = RowOf("gcp_egress", i, region, usd)
  BY <1>2 DEF QuoteInv, IsOffered, OfferedBy
<1>4. Words("gcp_egress") = <<{"ondemand", "egress", "worldwide"}, {"ondemand", "internet", "egress"}>>
  BY SMT DEF Words
<1>5. r.has = {"ondemand", "egress", "worldwide"} \/ r.has = {"ondemand", "internet", "egress"}
  BY SMT, <1>3, <1>4 DEF RowOf
<1>6. /\ Len(phrases) = 4 /\ phrases[2] = {"internet", "egress"} /\ phrases[3] = {"egress", "worldwide"}
  BY SMT
<1>7. unwanted \cap r.has = {}
  BY SMT, <1>5
<1>8. \E j \in 1 .. 4 : {"ondemand"} \union phrases[j] \subseteq r.has
  BY SMT, <1>5, <1>6
<1>9. Quote("gcp_egress", cat, gb) = OrElse(RegionMajor(cat, Here, phrases, unwanted), {120000})
  BY SMT DEF Quote, GCPEgress, GCPListed
<1>10. Quote("gcp_egress", Local, gb) = OrElse(RegionMajor(Local, Here, phrases, unwanted), {120000})
  BY SMT DEF Quote, GCPEgress, GCPListed
<1> HIDE DEF phrases, unwanted
<1>11. PICK j \in 1 .. 4 : OnDemand(Local, Here, phrases[j], unwanted) # NoPrice
  BY SMT, <1>1, <1>7, <1>8, PhraseIsPriced
<1>12. RegionMajor(cat, Here, phrases, unwanted) = RegionMajor(Local, Here, phrases, unwanted)
  <2>1. 4 \in Nat /\ Len(phrases) = 4
    BY SMT, <1>6
  <2> QED BY <1>11, <2>1, FoundHere
<1> QED BY SMT, <1>9, <1>10, <1>12

\* Where a region has offers of its own, the quote is that of a catalogue with
\* only this region in it, whatever the vendors publish and wherever
\* (ec2InstancePrice, ebsPrice, the Fargate rates, and the rows of Google that
\* are read with a region).
THEOREM QuotesAreLocal == QuotationsSpec => []QuotedWhereItRuns
<1>1. QuoteInv => QuotedWhereItRuns
  <2> SUFFICES ASSUME QuoteInv, lookup \in Regional, NEW gb \in SizesAsked,
                      lookup \in {"gcp_lb", "gcp_egress"} => Positive(Local.rows) # {}
               PROVE  Quote(lookup, cat, gb) = Quote(lookup, Local, gb)
    BY DEF QuotedWhereItRuns
  <2>1. \A want, unwanted : Rows(cat, Here, want, unwanted) = Rows(Local, Here, want, unwanted)
    BY LocalRows
  <2>2. CASE lookup = "ec2"
    BY SMT, <2>1, <2>2 DEF Quote, AWSEC2
  <2>3. CASE lookup = "ebs"
    BY SMT, <2>1, <2>3 DEF Quote, BlockStorage, AWSEBS
  <2>4. CASE lookup = "fargate"
    BY SMT, <2>1, <2>4 DEF Quote, AWSFargate
  <2>5. CASE lookup = "gcp_machine"
    <3>1. \A resource : GCPRate(cat, "N2", resource, Here) = GCPRate(Local, "N2", resource, Here)
      BY SMT, <2>1 DEF GCPRate, OnDemand
    <3> DEFINE shape == GCPShape("N2", "highmem", 2)
               sum(A, B) == Plus(Scaled(A, shape.cpu), {(p * shape.mem) \div 10 : p \in B})
               of(k) == sum(GCPRate(k, "N2", "CPU", Here), GCPRate(k, "N2", "RAM", Here))
    <3>2. Quote("gcp_machine", cat, gb) = of(cat) /\ Quote("gcp_machine", Local, gb) = of(Local)
      BY SMT DEF Quote, GCPMachine
    <3> HIDE DEF sum
    <3>3. of(cat) = of(Local)
      BY <3>1
    <3> QED BY <2>5, <3>2, <3>3
  <2>6. CASE lookup = "gcp_disk"
    BY SMT, <2>1, <2>6 DEF Quote, BlockStorage, GCPDisk, OnDemand
  <2>7. CASE lookup = "gke"
    BY SMT, <2>1, <2>7 DEF Quote, GCPGKEControlPlane, OnDemand
  <2>8. CASE lookup = "gcp_lb"
    BY SMT, <2>8, RuleIsQuotedHere
  <2>9. CASE lookup = "gcp_egress"
    BY SMT, <2>9, EgressIsQuotedHere
  <2> QED BY <2>2, <2>3, <2>4, <2>5, <2>6, <2>7, <2>8, <2>9 DEF Regional
<1> QED BY <1>1, AlwaysQuoted, PTL

------------------------------------------------------------------------------
(* What a database of a size costs: one number.                             *)

\* No number, or one.
AtMostOne(P) == P = {} \/ \E x \in Nat : P = {x}

\* Of one number the least and the greatest are that one.
LEMMA OneIsBoth ==
  ASSUME NEW x \in Nat, NEW y \in Nat, x <= y
  PROVE  Max({x}) <= Min({y})
<1>1. Spans({x}, x, x) /\ Spans({y}, y, y)
  BY DEF Spans
<1>2. Max({x}) = x /\ Min({y}) = y
  BY <1>1, SpanIsMinMax
<1> QED BY <1>2

\* Of rows at different places one is the first.
LEMMA FirstIsOne ==
  ASSUME QuoteInv, NEW R \in SUBSET cat.rows
  PROVE  AtMostOne(First(R))
<1> DEFINE F == FirstOf(Positive(R))
<1>1. AreRows(cat.rows)
  BY OfferedAreRows DEF QuoteInv, IsOffered
<1>2. \A r, s \in F : r = s
  BY <1>1 DEF QuoteInv, AreRows, FirstOf, Positive
<1>3. \A r \in F : r.usd \in Nat
  BY <1>1 DEF AreRows, FirstOf, Positive
<1>4. First(R) = Some(F)
  BY DEF First
<1> HIDE DEF F
<1>5. CASE F = {}
  BY <1>4, <1>5 DEF Some, AtMostOne
<1>6. CASE F # {}
  <2>1. PICK r \in F : TRUE
    BY <1>6
  <2>2. Some(F) = {r.usd}
    BY <1>2, <2>1 DEF Some
  <2> QED BY <1>3, <1>4, <2>1, <2>2 DEF AtMostOne
<1> QED BY <1>5, <1>6

\* The cheapest is one.
LEMMA CheapestIsOne ==
  ASSUME QuoteInv, NEW R \in SUBSET cat.rows
  PROVE  AtMostOne(Cheapest(R))
<1> DEFINE P == Some(Positive(R))
<1>1. P \in SUBSET Nat
  <2>1. AreRows(cat.rows)
    BY OfferedAreRows DEF QuoteInv, IsOffered
  <2> QED BY <2>1 DEF AreRows, Some, Positive
<1>2. CASE Positive(R) = {}
  BY <1>2 DEF Cheapest, NoPrice, AtMostOne
<1>3. CASE Positive(R) # {}
  <2>1. P # {} /\ Cheapest(R) = {Min(P)}
    BY <1>3 DEF Cheapest, Some
  <2> HIDE DEF P
  <2>2. Min(P) \in Nat
    BY <1>1, <2>1, MinIsLeast
  <2> QED BY <2>1, <2>2 DEF AtMostOne
<1> QED BY <1>2, <1>3

\* One or the other.
LEMMA OneOrElse ==
  ASSUME NEW P, AtMostOne(P), NEW n \in Nat PROVE \E x \in Nat : OrElse(P, {n}) = {x}
BY DEF AtMostOne, OrElse, NoPrice

\* The first answer is one.
LEMMA AnswerIsOne ==
  ASSUME NEW n \in Nat, NEW t, DOMAIN t = 1 .. n, \A i \in 1 .. n : AtMostOne(t[i])
  PROVE  AtMostOne(FirstAnswer(t))
<1> DEFINE priced == {i \in DOMAIN t : t[i] # NoPrice}
<1>1. priced \in SUBSET Nat /\ priced \in SUBSET (1 .. n)
  OBVIOUS
<1>2. FirstAnswer(t) = IF priced = {} THEN NoPrice ELSE t[Min(priced)]
  BY DEF FirstAnswer
<1> HIDE DEF priced
<1>3. CASE priced = {}
  BY <1>2, <1>3 DEF AtMostOne, NoPrice
<1>4. CASE priced # {}
  <2>1. Min(priced) \in 1 .. n
    BY <1>1, <1>4, MinIsLeast
  <2> QED BY <1>2, <1>4, <2>1
<1> QED BY <1>3, <1>4

\* What is found is part of the catalogue.
LEMMA FoundAreRows == \A region, want, unwanted : Rows(cat, region, want, unwanted) \in SUBSET cat.rows
BY DEF Rows

\* Two different words.
LEMMA TwoWords ==
  ASSUME NEW a, NEW b, a # b PROVE Cardinality({a, b}) = 2
<1>1. IsFiniteSet({a}) /\ Cardinality({a}) = 1
  BY FS_Singleton
<1>2. {a, b} = {a} \union {b} /\ b \notin {a}
  OBVIOUS
<1>3. Cardinality({a} \union {b}) = 1 + 1
  BY <1>1, <1>2, FS_AddElement
<1> QED BY <1>2, <1>3

\* Three different words.
LEMMA ThreeWords ==
  ASSUME NEW a, NEW b, NEW e, a # b, a # e, b # e PROVE Cardinality({a, b, e}) = 3
<1>1. IsFiniteSet({a}) /\ Cardinality({a}) = 1
  BY FS_Singleton
<1>2. {a, b} = {a} \union {b} /\ {a, b, e} = {a, b} \union {e} /\ b \notin {a} /\ e \notin {a, b}
  OBVIOUS
<1>3. IsFiniteSet({a, b}) /\ Cardinality({a, b}) = 2
  <2>1. IsFiniteSet({a} \union {b}) /\ Cardinality({a} \union {b}) = 1 + 1
    BY <1>1, <1>2, FS_AddElement
  <2> QED BY <1>2, <2>1
<1>4. Cardinality({a, b} \union {e}) = 2 + 1
  BY <1>2, <1>3, FS_AddElement
<1> QED BY <1>2, <1>4

\* A vendor whose classes are all priced: there is a row for each entry of the
\* answer, and with as many words they are priced upwards.
PricedAs(row, n) ==
  /\ row \in [1 .. n -> cat.rows] /\ cat.rows = {row[i] : i \in 1 .. n}
  /\ \A i \in 1 .. n : /\ row[i].has = Words(lookup)[i] /\ row[i].at = {Here, Everywhere}
                       /\ row[i].pos = 2 * i
                       /\ row[i].usd \in Nat /\ row[i].usd > 0 /\ row[i].usd \in Published[lookup]
  /\ \A i, j \in 1 .. n :
       i < j /\ Cardinality(Words(lookup)[i]) = Cardinality(Words(lookup)[j]) => row[i].usd <= row[j].usd

\* A catalogue that prices upwards is one of these, when it has rows.
LEMMA EveryClass ==
  ASSUME QuoteInv, Ascending, lookup \notin WorldWide, cat.rows # {},
         NEW n \in Nat, DOMAIN Words(lookup) = 1 .. n, Len(Words(lookup)) = n
  PROVE  \E row : PricedAs(row, n)
<1>1. Regions(lookup) = {Here}
  BY DEF Regions
<1>2. \A r \in cat.rows : \E i \in 1 .. n :
        r.has = Words(lookup)[i] /\ r.at = {Here, Everywhere} /\ r.pos = 2 * i /\ r.usd \in Published[lookup]
  <2> TAKE r \in cat.rows
  <2>1. PICK i \in 1 .. n, usd \in Published[lookup] : r = RowOf(lookup, i, Here, usd)
    BY <1>1 DEF QuoteInv, IsOffered, OfferedBy
  <2>2. r.has = Words(lookup)[i] /\ r.at = {Here, Everywhere} /\ r.pos = 2 * i /\ r.usd = usd
    BY <2>1 DEF RowOf
  <2> QED BY <2>1, <2>2
<1>3. \A r \in cat.rows : r.usd \in Nat /\ r.usd > 0
  BY PublishedAssumption, <1>2 DEF QuoteInv, Ascending
<1>4. \A r, s \in cat.rows : r.pos = s.pos => r = s
  BY DEF QuoteInv
<1> DEFINE place == [r \in cat.rows |-> CHOOSE i \in 1 .. n : r.pos = 2 * i]
<1>5. \A r \in cat.rows : place[r] \in 1 .. n /\ r.pos = 2 * place[r]
  BY <1>2
<1>6. place \in [cat.rows -> 1 .. n] /\ DOMAIN place = cat.rows
  BY <1>5
<1> HIDE DEF place
<1>7. place \in Injection(cat.rows, 1 .. n)
  BY <1>4, <1>5, <1>6 DEF Injection, IsInjective
<1>8. IsFiniteSet(1 .. n) /\ Cardinality(1 .. n) = n
  BY FS_Interval
<1>9. \A i \in 1 .. n : \E r \in cat.rows : place[r] = i
  <2>1. Cardinality(cat.rows) = n
    BY DEF Ascending
  <2>2. place \in Surjection(cat.rows, 1 .. n)
    BY <1>7, <1>8, <2>1, FS_Injection
  <2> QED BY <1>6, <2>2 DEF Surjection
<1> DEFINE row == [i \in 1 .. n |-> CHOOSE r \in cat.rows : place[r] = i]
<1>10. \A i \in 1 .. n : row[i] \in cat.rows /\ place[row[i]] = i
  BY <1>9
<1>11. row \in [1 .. n -> cat.rows]
  BY <1>10
<1> HIDE DEF row
<1>12. \A r \in cat.rows : r = row[place[r]]
  <2> TAKE r \in cat.rows
  <2>1. row[place[r]] \in cat.rows /\ place[row[place[r]]] = place[r]
    BY <1>5, <1>10
  <2>2. row[place[r]].pos = r.pos
    BY <1>5, <2>1
  <2> QED BY <1>4, <2>1, <2>2
<1>13. cat.rows = {row[i] : i \in 1 .. n}
  BY <1>5, <1>10, <1>12
<1>14. \A i \in 1 .. n : row[i].pos = 2 * i
  BY <1>5, <1>10
<1>15. \A i \in 1 .. n : row[i].has = Words(lookup)[i] /\ row[i].at = {Here, Everywhere} /\ row[i].usd \in Published[lookup]
  <2> TAKE i \in 1 .. n
  <2>1. PICK j \in 1 .. n : /\ row[i].has = Words(lookup)[j] /\ row[i].at = {Here, Everywhere}
                            /\ row[i].pos = 2 * j /\ row[i].usd \in Published[lookup]
    BY <1>2, <1>10
  <2>2. i = j
    BY <1>14, <2>1
  <2> QED BY <2>1, <2>2
<1>16. \A i, j \in 1 .. n :
         i < j /\ Cardinality(Words(lookup)[i]) = Cardinality(Words(lookup)[j]) => row[i].usd <= row[j].usd
  <2> TAKE i, j \in 1 .. n
  <2>1. HAVE i < j /\ Cardinality(Words(lookup)[i]) = Cardinality(Words(lookup)[j])
  <2>2. row[i] \in cat.rows /\ row[j] \in cat.rows /\ Cardinality(row[i].has) = Cardinality(row[j].has)
    BY <1>10, <1>15, <2>1
  <2>3. row[i].pos < row[j].pos
    BY <1>14, <2>1
  <2> QED BY <2>2, <2>3 DEF Ascending
<1> QED BY <1>3, <1>10, <1>11, <1>13, <1>14, <1>15, <1>16 DEF PricedAs

------------------------------------------------------------------------------
(* Google, Oracle and IBM price processors, memory and storage apart.       *)

\* A price that is one number for each of two sizes, and no less for the larger.
CostsMore(f, small, large) ==
  \E x, y \in Nat : Quote(f, cat, small) = {x} /\ Quote(f, cat, large) = {y} /\ x <= y

\* The first price of phrase after phrase is one.
LEMMA PhraseIsOne ==
  ASSUME QuoteInv, NEW region, NEW phrases, Len(phrases) \in Nat, NEW unwanted
  PROVE  AtMostOne(PhraseMajor(cat, region, phrases, unwanted))
<1> DEFINE n == 2 * Len(phrases)
           try == [i \in 1 .. n |-> OnDemand(cat, IF i % 2 = 1 THEN region ELSE Everywhere, phrases[(i + 1) \div 2], unwanted)]
<1>1. n \in Nat /\ DOMAIN try = 1 .. n
  OBVIOUS
<1>2. \A where, want : AtMostOne(OnDemand(cat, where, want, unwanted))
  BY FoundAreRows, FirstIsOne DEF OnDemand
<1>3. \A i \in 1 .. n : AtMostOne(try[i])
  BY <1>2
<1>4. PhraseMajor(cat, region, phrases, unwanted) = FirstAnswer(try)
  BY DEF PhraseMajor
<1> HIDE DEF n, try
<1> QED BY <1>1, <1>3, <1>4, AnswerIsOne

\* More of something costs more at any rate.
LEMMA MoreOfIt ==
  ASSUME NEW a \in Nat, NEW b \in Nat, a <= b, NEW rate \in Nat
  PROVE  a * rate \in Nat /\ b * rate \in Nat /\ a * rate <= b * rate
<1>1. rate * a <= rate * b
  BY MoreCostsMore
<1>2. a * rate = rate * a /\ b * rate = rate * b
  OBVIOUS
<1> QED BY <1>1, <1>2

\* Twice the sum of a cost and another.
LEMMA TwiceTheSum ==
  ASSUME NEW m \in Nat, NEW g \in Nat
  PROVE  Scaled(Plus({m}, {g}), 2) = {2 * (m + g)}
<1>1. Plus({m}, {g}) = {m + g}
  BY DEF Plus
<1> QED BY <1>1 DEF Scaled

\* Google: the shape grows with the size, and so do the processors, the
\* memory and the list.
LEMMA GoogleCostsMore ==
  ASSUME QuoteInv, NEW small \in Nat, NEW large \in Nat, small < large
  PROVE  CostsMore("gcp_pg", small, large)
<1> DEFINE cpu(gb) == CloudSQLShape(gb).cpu
           mem(gb) == CloudSQLShape(gb).mem
           list(gb) == 1000000 * CloudSQLList(gb)
           rates == Both(GCPCloudSQLRate(cat, Here, "vcpu"), GCPCloudSQLRate(cat, Here, "ram"))
           live(gb) == {HoursAMonth * (r[1] * cpu(gb) + (r[2] * mem(gb)) \div 4) : r \in rates}
           total(A, gb) == Scaled(Plus(OrElse(A, {list(gb)}), {170000 * gb}), 2)
<1>1. Quote("gcp_pg", cat, small) = total(live(small), small)
  BY SMT DEF Quote, ManagedPostgres, GCPCloudSQLPostgres
<1>9. Quote("gcp_pg", cat, large) = total(live(large), large)
  BY SMT DEF Quote, ManagedPostgres, GCPCloudSQLPostgres
<1>2. ASSUME NEW gb \in Nat
      PROVE  /\ cpu(gb) = IF gb <= 25 THEN 1 ELSE IF gb <= 100 THEN 2 ELSE IF gb <= 500 THEN 4 ELSE 8
             /\ mem(gb) = IF gb <= 25 THEN 15 ELSE IF gb <= 100 THEN 30 ELSE IF gb <= 500 THEN 60 ELSE 120
  <2> DEFINE a == [cpu |-> 1, mem |-> 15]
             b == [cpu |-> 2, mem |-> 30]
             s == [cpu |-> 4, mem |-> 60]
             l == [cpu |-> 8, mem |-> 120]
  <2>1. CloudSQLShape(gb) = Fitting(gb, <<25, 100, 500>>, <<a, b, s, l>>)
    BY DEF CloudSQLShape
  <2>2. a.cpu = 1 /\ a.mem = 15 /\ b.cpu = 2 /\ b.mem = 30
    OBVIOUS
  <2>3. s.cpu = 4 /\ s.mem = 60 /\ l.cpu = 8 /\ l.mem = 120
    OBVIOUS
  <2> HIDE DEF a, b, s, l
  <2>4. CloudSQLShape(gb) = IF gb <= 25 THEN a ELSE IF gb <= 100 THEN b ELSE IF gb <= 500 THEN s ELSE l
    BY SMT, <2>1, FittingAmongFour
  <2> QED BY SMT, <2>2, <2>3, <2>4
<1>3. /\ cpu(small) \in Nat /\ cpu(large) \in Nat /\ cpu(small) <= cpu(large)
      /\ mem(small) \in Nat /\ mem(large) \in Nat /\ mem(small) <= mem(large)
  BY SMT, <1>2
<1>4. list(small) \in Nat /\ list(large) \in Nat /\ list(small) <= list(large)
  <2>1. \A gb \in Nat : CloudSQLList(gb) = IF gb <= 25 THEN 50 ELSE IF gb <= 100 THEN 99 ELSE IF gb <= 500 THEN 198 ELSE 396
    BY SMT, FittingAmongFour DEF CloudSQLList
  <2> QED BY SMT, <2>1
<1> HIDE DEF cpu, mem, list
<1>5. \A resource : AtMostOne(GCPCloudSQLRate(cat, Here, resource))
  <2> TAKE resource
  <2> DEFINE phrases == <<{"postgresql", resource, "running"}, {"cloud_sql", "postgresql", resource}>>
             unwanted == {"mysql", "sql_server", "enterprise_plus", "replica", "ha"}
  <2>1. Len(phrases) \in Nat
    OBVIOUS
  <2>2. GCPCloudSQLRate(cat, Here, resource) = PhraseMajor(cat, Here, phrases, unwanted)
    BY DEF GCPCloudSQLRate
  <2> HIDE DEF phrases, unwanted
  <2> QED BY <2>1, <2>2, PhraseIsOne
<1> DEFINE g == 170000 * small
           h == 170000 * large
<1>6. g \in Nat /\ h \in Nat /\ g <= h
  BY SMT
<1>7. CASE rates = {}
  <2>1. live(small) = {} /\ live(large) = {}
    BY <1>7
  <2> HIDE DEF live, rates
  <2>2. OrElse(live(small), {list(small)}) = {list(small)} /\ OrElse(live(large), {list(large)}) = {list(large)}
    BY <2>1 DEF OrElse, NoPrice
  <2>3. total(live(small), small) = Scaled(Plus({list(small)}, {g}), 2)
    BY <2>2
  <2>4. total(live(large), large) = Scaled(Plus({list(large)}, {h}), 2)
    BY <2>2
  <2> HIDE DEF total, g, h
  <2>5. /\ Scaled(Plus({list(small)}, {g}), 2) = {2 * (list(small) + g)}
        /\ Scaled(Plus({list(large)}, {h}), 2) = {2 * (list(large) + h)}
    BY <1>4, <1>6, TwiceTheSum
  <2>6. /\ 2 * (list(small) + g) \in Nat /\ 2 * (list(large) + h) \in Nat
        /\ 2 * (list(small) + g) <= 2 * (list(large) + h)
    BY <1>4, <1>6
  <2> QED BY <1>1, <1>9, <2>3, <2>4, <2>5, <2>6 DEF CostsMore
<1>8. CASE rates # {}
  <2>1. PICK p \in Nat, q \in Nat : rates = {<<p, q>>}
    <3>1. PICK p \in Nat : GCPCloudSQLRate(cat, Here, "vcpu") = {p}
      BY <1>5, <1>8 DEF AtMostOne, Both
    <3>2. PICK q \in Nat : GCPCloudSQLRate(cat, Here, "ram") = {q}
      BY <1>5, <1>8 DEF AtMostOne, Both
    <3>3. rates = {<<p, q>>}
      BY <3>1, <3>2 DEF Both
    <3> QED BY <3>3
  <2> HIDE DEF rates
  <2> DEFINE cost(gb) == HoursAMonth * (p * cpu(gb) + (q * mem(gb)) \div 4)
  <2>2. live(small) = {cost(small)} /\ live(large) = {cost(large)}
    BY <2>1
  <2>3. cost(small) \in Nat /\ cost(large) \in Nat /\ cost(small) <= cost(large)
    <3> DEFINE a == p * cpu(small)
               b == p * cpu(large)
               v == q * mem(small)
               w == q * mem(large)
    <3>1. a \in Nat /\ b \in Nat /\ a <= b /\ v \in Nat /\ w \in Nat /\ v <= w
      BY <1>3, MoreCostsMore
    <3> HIDE DEF a, b, v, w
    <3>2. v \div 4 \in Nat /\ w \div 4 \in Nat /\ v \div 4 <= w \div 4
      BY SMT, <3>1
    <3>3. /\ HoursAMonth * (a + v \div 4) \in Nat /\ HoursAMonth * (b + w \div 4) \in Nat
          /\ HoursAMonth * (a + v \div 4) <= HoursAMonth * (b + w \div 4)
      BY SMT, <3>1, <3>2 DEF HoursAMonth
    <3> QED BY <3>3 DEF a, b, v, w
  <2> HIDE DEF live, cost
  <2>4. OrElse(live(small), {list(small)}) = {cost(small)} /\ OrElse(live(large), {list(large)}) = {cost(large)}
    BY <2>2 DEF OrElse, NoPrice
  <2>5. total(live(small), small) = Scaled(Plus({cost(small)}, {g}), 2)
    BY <2>4
  <2>6. total(live(large), large) = Scaled(Plus({cost(large)}, {h}), 2)
    BY <2>4
  <2> HIDE DEF total, g, h
  <2>7. /\ Scaled(Plus({cost(small)}, {g}), 2) = {2 * (cost(small) + g)}
        /\ Scaled(Plus({cost(large)}, {h}), 2) = {2 * (cost(large) + h)}
    BY <1>6, <2>3, TwiceTheSum
  <2>8. /\ 2 * (cost(small) + g) \in Nat /\ 2 * (cost(large) + h) \in Nat
        /\ 2 * (cost(small) + g) <= 2 * (cost(large) + h)
    BY <1>6, <2>3
  <2> QED BY <1>1, <1>9, <2>5, <2>6, <2>7, <2>8 DEF CostsMore
<1> QED BY <1>7, <1>8

\* The rates of Oracle are one for each of the three.
LEMMA OracleRatesAreOne ==
  ASSUME QuoteInv
  PROVE  \E p, q, s \in Nat : OCIPostgresRates(cat) = {<<p, q, s>>}
<1> DEFINE rows(what) == Cheapest(Rows(cat, Everywhere, {"postgres", what}, {}))
           cpu == rows("ocpu")
           disk == rows("storage")
           mem == OrElse(rows("memory"), {0})
<1>1. OCIPostgresRates(cat) = IF cpu = NoPrice \/ disk = NoPrice THEN {71700} \X {5000} \X {25500}
                              ELSE cpu \X mem \X disk
  BY DEF OCIPostgresRates
<1>2. \A what : AtMostOne(rows(what))
  BY FoundAreRows, CheapestIsOne
<1> HIDE DEF rows
<1>3. \E q \in Nat : mem = {q}
  BY <1>2, OneOrElse
<1>4. AtMostOne(cpu) /\ AtMostOne(disk)
  BY <1>2
<1> HIDE DEF cpu, disk, mem
<1>5. CASE cpu = NoPrice \/ disk = NoPrice
  <2>1. \A x, y, z \in Nat : {x} \X {y} \X {z} = {<<x, y, z>>}
    OBVIOUS
  <2>2. 71700 \in Nat /\ 5000 \in Nat /\ 25500 \in Nat
    BY SMT
  <2>3. {71700} \X {5000} \X {25500} = {<<71700, 5000, 25500>>}
    BY SMT, <2>1
  <2> QED BY SMT, <1>1, <1>5, <2>2, <2>3
<1>6. CASE cpu # NoPrice /\ disk # NoPrice
  <2>1. PICK p \in Nat, q \in Nat, s \in Nat : cpu = {p} /\ mem = {q} /\ disk = {s}
    BY <1>3, <1>4, <1>6 DEF AtMostOne, NoPrice
  <2>2. {p} \X {q} \X {s} = {<<p, q, s>>}
    OBVIOUS
  <2>3. OCIPostgresRates(cat) = {<<p, q, s>>}
    BY <1>1, <1>6, <2>1, <2>2
  <2> QED BY <2>3
<1> QED BY <1>5, <1>6

\* Oracle: processors, memory and storage grow with the size.
LEMMA OracleCostsMore ==
  ASSUME QuoteInv, NEW small \in Nat, NEW large \in Nat, small < large
  PROVE  CostsMore("oci_pg", small, large)
<1> DEFINE cpu(gb) == OCIPostgresShape(gb).cpu
           mem(gb) == OCIPostgresShape(gb).mem
           rates == OCIPostgresRates(cat)
           sum(gb) == {HoursAMonth * (cpu(gb) * r[1] + mem(gb) * r[2]) + gb * r[3] : r \in rates}
<1>1. Quote("oci_pg", cat, small) = Scaled(sum(small), 3)
  BY SMT DEF Quote, ManagedPostgres, OCIPostgres
<1>2. Quote("oci_pg", cat, large) = Scaled(sum(large), 3)
  BY SMT DEF Quote, ManagedPostgres, OCIPostgres
<1>3. ASSUME NEW gb \in Nat
      PROVE  /\ cpu(gb) = IF gb <= 50 THEN 2 ELSE IF gb <= 200 THEN 4 ELSE 8
             /\ mem(gb) = IF gb <= 50 THEN 16 ELSE IF gb <= 200 THEN 32 ELSE 64
  <2> DEFINE a == [cpu |-> 2, mem |-> 16]
             b == [cpu |-> 4, mem |-> 32]
             l == [cpu |-> 8, mem |-> 64]
  <2>1. OCIPostgresShape(gb) = Fitting(gb, <<50, 200>>, <<a, b, l>>)
    BY DEF OCIPostgresShape
  <2>2. a.cpu = 2 /\ a.mem = 16 /\ b.cpu = 4 /\ b.mem = 32 /\ l.cpu = 8 /\ l.mem = 64
    OBVIOUS
  <2> HIDE DEF a, b, l
  <2>3. OCIPostgresShape(gb) = IF gb <= 50 THEN a ELSE IF gb <= 200 THEN b ELSE l
    BY <2>1, FittingAmongThree
  <2> QED BY <2>2, <2>3
<1>4. /\ cpu(small) \in Nat /\ cpu(large) \in Nat /\ cpu(small) <= cpu(large)
      /\ mem(small) \in Nat /\ mem(large) \in Nat /\ mem(small) <= mem(large)
  BY <1>3
<1> HIDE DEF cpu, mem
<1>5. PICK p \in Nat, q \in Nat, s \in Nat : rates = {<<p, q, s>>}
  BY OracleRatesAreOne
<1> HIDE DEF rates
<1> DEFINE cost(gb) == HoursAMonth * (cpu(gb) * p + mem(gb) * q) + gb * s
<1>6. sum(small) = {cost(small)} /\ sum(large) = {cost(large)}
  BY <1>5
<1>7. cost(small) \in Nat /\ cost(large) \in Nat /\ cost(small) <= cost(large)
  <2> DEFINE a == cpu(small) * p
             b == cpu(large) * p
             v == mem(small) * q
             w == mem(large) * q
             x == small * s
             y == large * s
  <2>1. a \in Nat /\ b \in Nat /\ a <= b
    BY <1>4, MoreOfIt
  <2>2. v \in Nat /\ w \in Nat /\ v <= w
    BY <1>4, MoreOfIt
  <2>3. x \in Nat /\ y \in Nat /\ x <= y
    BY MoreOfIt
  <2> HIDE DEF a, b, v, w, x, y
  <2>4. /\ HoursAMonth * (a + v) + x \in Nat /\ HoursAMonth * (b + w) + y \in Nat
        /\ HoursAMonth * (a + v) + x <= HoursAMonth * (b + w) + y
    BY SMT, <2>1, <2>2, <2>3 DEF HoursAMonth
  <2> QED BY <2>4 DEF a, b, v, w, x, y
<1> HIDE DEF sum, cost
<1>8. Scaled(sum(small), 3) = {3 * cost(small)} /\ Scaled(sum(large), 3) = {3 * cost(large)}
  BY <1>6 DEF Scaled
<1>9. 3 * cost(small) \in Nat /\ 3 * cost(large) \in Nat /\ 3 * cost(small) <= 3 * cost(large)
  BY <1>7
<1> QED BY <1>1, <1>2, <1>8, <1>9 DEF CostsMore

\* A rate of IBM is one.
LEMMA IBMRateIsOne ==
  ASSUME QuoteInv, NEW R \in SUBSET cat.rows, NEW metric
  PROVE  AtMostOne(IBMRate(R, metric, "USD"))
<1> DEFINE in == First({r \in R : metric \in r.has /\ "USD" \in r.has})
<1>1. IBMRate(R, metric, "USD") = OrElse(in, in)
  BY DEF IBMRate
<1>2. {r \in R : metric \in r.has /\ "USD" \in r.has} \in SUBSET cat.rows
  OBVIOUS
<1>3. AtMostOne(in)
  BY <1>2, FirstIsOne
<1> HIDE DEF in
<1> QED BY <1>1, <1>3 DEF OrElse

\* Two rates that are one each make a pair, or none.
LEMMA BothAreOne ==
  ASSUME NEW P, NEW Q, AtMostOne(P), AtMostOne(Q)
  PROVE  Both(P, Q) = {} \/ \E p, q \in Nat : Both(P, Q) = {<<p, q>>}
<1>1. CASE P = {} \/ Q = {}
  BY <1>1 DEF Both
<1>2. CASE P # {} /\ Q # {}
  <2>1. PICK p \in Nat, q \in Nat : P = {p} /\ Q = {q}
    BY <1>2 DEF AtMostOne
  <2>2. Both(P, Q) = {<<p, q>>}
    BY <2>1 DEF Both
  <2> QED BY <2>2
<1> QED BY <1>1, <1>2

\* The rates of IBM are one pair.
LEMMA IBMRatesAreOne ==
  ASSUME QuoteInv
  PROVE  \E p, q \in Nat : IBMPostgresRates(cat, Here, "USD") = {<<p, q>>}
<1> DEFINE of(who, metric) == IBMRate(IBMOwn(cat, Here, who), metric, "USD")
           either(metric) == OrElse(of("child", metric), of("parent", metric))
           parent == Both(of("parent", "memory_hour"), of("parent", "disk_hour"))
           merged == Both(either("memory_hour"), either("disk_hour"))
<1>1. IBMPostgresRates(cat, Here, "USD") = OrElse(OrElse(parent, merged), {<<14800, 625>>})
  BY DEF IBMPostgresRates
<1>2. \A who, metric : AtMostOne(of(who, metric))
  <2> TAKE who, metric
  <2>1. IBMOwn(cat, Here, who) \in SUBSET cat.rows
    BY FoundAreRows DEF IBMOwn, OrElse
  <2> QED BY <2>1, IBMRateIsOne
<1> HIDE DEF of
<1>3. \A metric : AtMostOne(either(metric))
  BY <1>2 DEF OrElse
<1> HIDE DEF either
<1>4. parent = {} \/ \E p, q \in Nat : parent = {<<p, q>>}
  BY <1>2, BothAreOne
<1>5. merged = {} \/ \E p, q \in Nat : merged = {<<p, q>>}
  BY <1>3, BothAreOne
<1> HIDE DEF parent, merged
<1>6. 14800 \in Nat /\ 625 \in Nat
  OBVIOUS
<1> QED BY <1>1, <1>4, <1>5, <1>6 DEF OrElse, NoPrice

\* IBM: memory and disk grow with the size.
LEMMA IBMCostsMore ==
  ASSUME QuoteInv, NEW small \in Nat, NEW large \in Nat, small < large
  PROVE  CostsMore("ibm_pg", small, large)
<1> DEFINE mem(gb) == IBMPostgresShape(gb).mem
           disk(gb) == IBMPostgresShape(gb).disk
           rates == IBMPostgresRates(cat, Here, "USD")
           sum(gb) == {HoursAMonth * (mem(gb) * r[1] + disk(gb) * r[2]) : r \in rates}
<1>1. Quote("ibm_pg", cat, small) = Scaled(sum(small), 3)
  BY SMT DEF Quote, ManagedPostgres, IBMPostgres
<1>2. Quote("ibm_pg", cat, large) = Scaled(sum(large), 3)
  BY SMT DEF Quote, ManagedPostgres, IBMPostgres
<1>3. ASSUME NEW gb \in Nat
      PROVE  /\ mem(gb) = IF gb <= 25 THEN 4 ELSE IF gb <= 100 THEN 8 ELSE IF gb <= 500 THEN 16 ELSE 32
             /\ disk(gb) = IF gb <= 25 THEN 5 ELSE gb
  <2> DEFINE a == [mem |-> 4, disk |-> 5]
             b == [mem |-> 8, disk |-> gb]
             s == [mem |-> 16, disk |-> gb]
             l == [mem |-> 32, disk |-> gb]
  <2>1. IBMPostgresShape(gb) = Fitting(gb, <<25, 100, 500>>, <<a, b, s, l>>)
    BY DEF IBMPostgresShape
  <2>2. a.mem = 4 /\ a.disk = 5 /\ b.mem = 8 /\ b.disk = gb
    OBVIOUS
  <2>3. s.mem = 16 /\ s.disk = gb /\ l.mem = 32 /\ l.disk = gb
    OBVIOUS
  <2> HIDE DEF a, b, s, l
  <2>4. IBMPostgresShape(gb) = IF gb <= 25 THEN a ELSE IF gb <= 100 THEN b ELSE IF gb <= 500 THEN s ELSE l
    BY SMT, <2>1, FittingAmongFour
  <2> QED BY SMT, <2>2, <2>3, <2>4
<1>4. /\ mem(small) \in Nat /\ mem(large) \in Nat /\ mem(small) <= mem(large)
      /\ disk(small) \in Nat /\ disk(large) \in Nat /\ disk(small) <= disk(large)
  BY SMT, <1>3
<1> HIDE DEF mem, disk
<1>5. PICK p \in Nat, q \in Nat : rates = {<<p, q>>}
  BY IBMRatesAreOne
<1> HIDE DEF rates
<1> DEFINE cost(gb) == HoursAMonth * (mem(gb) * p + disk(gb) * q)
<1>6. sum(small) = {cost(small)} /\ sum(large) = {cost(large)}
  BY <1>5
<1>7. cost(small) \in Nat /\ cost(large) \in Nat /\ cost(small) <= cost(large)
  <2> DEFINE a == mem(small) * p
             b == mem(large) * p
             v == disk(small) * q
             w == disk(large) * q
  <2>1. a \in Nat /\ b \in Nat /\ a <= b
    BY <1>4, MoreOfIt
  <2>2. v \in Nat /\ w \in Nat /\ v <= w
    BY <1>4, MoreOfIt
  <2> HIDE DEF a, b, v, w
  <2>3. /\ HoursAMonth * (a + v) \in Nat /\ HoursAMonth * (b + w) \in Nat
        /\ HoursAMonth * (a + v) <= HoursAMonth * (b + w)
    BY SMT, <2>1, <2>2 DEF HoursAMonth
  <2> QED BY <2>3 DEF a, b, v, w
<1> HIDE DEF sum, cost
<1>8. Scaled(sum(small), 3) = {3 * cost(small)} /\ Scaled(sum(large), 3) = {3 * cost(large)}
  BY <1>6 DEF Scaled
<1>9. 3 * cost(small) \in Nat /\ 3 * cost(large) \in Nat /\ 3 * cost(small) <= 3 * cost(large)
  BY <1>7
<1> QED BY <1>1, <1>2, <1>8, <1>9 DEF CostsMore

------------------------------------------------------------------------------
(* The others price classes: each has a row, or the list has them all.      *)

\* The entries with the words that are looked for.
Matching(want, unwanted, n) ==
  {i \in 1 .. n : want \subseteq Words(lookup)[i] /\ unwanted \cap Words(lookup)[i] = {}}

\* What is found, when one entry has them.
LEMMA OneFound ==
  ASSUME NEW n \in Nat, NEW row, PricedAs(row, n), NEW where \in {Here, Everywhere},
         NEW want, NEW unwanted, NEW j \in 1 .. n, Matching(want, unwanted, n) = {j}
  PROVE  /\ Cheapest(Rows(cat, where, want, unwanted)) = {row[j].usd}
         /\ First(Rows(cat, where, want, unwanted)) = {row[j].usd}
         /\ SomePriced(Rows(cat, where, want, unwanted)) = {row[j].usd}
<1> DEFINE R == Rows(cat, where, want, unwanted)
           usd == row[j].usd
<1>8. \A i \in 1 .. n : row[i] \in cat.rows /\ row[i].has = Words(lookup)[i] /\ where \in row[i].at
  BY DEF PricedAs
<1>9. \A r \in cat.rows : \E i \in 1 .. n : r = row[i]
  BY DEF PricedAs
<1>1. R = {row[j]}
  <2>1. row[j] \in R
    BY <1>8 DEF Rows, Matching
  <2>2. ASSUME NEW r \in R PROVE r = row[j]
    <3>1. PICK i \in 1 .. n : r = row[i]
      BY <1>9 DEF Rows
    <3> QED BY <1>8, <3>1 DEF Rows, Matching
  <2> QED BY <2>1, <2>2
<1>10. row[j].pos = 2 * j /\ usd \in Nat /\ usd > 0
  BY DEF PricedAs
<1>2. usd \in Nat /\ usd > 0 /\ Positive({row[j]}) = {row[j]}
  BY <1>10 DEF Positive
<1>3. row[j].pos \in Nat
  BY <1>10
<1>4. Some({row[j]}) = {usd}
  BY DEF Some
<1> HIDE DEF R
<1>5. SomePriced(R) = {usd}
  BY <1>1, <1>2, <1>4 DEF SomePriced
<1>6. First(R) = {usd}
  <2>1. FirstOf({row[j]}) = {row[j]}
    BY <1>3 DEF FirstOf
  <2> QED BY <1>1, <1>2, <1>4, <2>1 DEF First
<1>7. Cheapest(R) = {usd}
  <2>1. Min({usd}) = usd
    <3>1. Spans({usd}, usd, usd)
      BY <1>2 DEF Spans
    <3> HIDE DEF usd
    <3> QED BY <1>2, <3>1, SpanIsMinMax
  <2>2. Cheapest(R) = {Min(Some({row[j]}))}
    BY <1>1, <1>2 DEF Cheapest
  <2> QED BY <1>4, <2>1, <2>2
<1> QED BY <1>5, <1>6, <1>7 DEF R

\* And when none has.
LEMMA NoneFound ==
  ASSUME NEW R, R = {}
  PROVE  Cheapest(R) = NoPrice /\ First(R) = NoPrice /\ SomePriced(R) = NoPrice
<1>1. Positive(R) = {}
  BY DEF Positive
<1>2. Some({}) = {} /\ FirstOf({}) = {}
  BY DEF Some, FirstOf
<1> QED BY <1>1, <1>2 DEF Cheapest, First, SomePriced, NoPrice

\* Words that no entry has find nothing.
LEMMA NotListed ==
  ASSUME NEW n \in Nat, NEW row, PricedAs(row, n), NEW where, NEW want, NEW unwanted,
         Matching(want, unwanted, n) = {}
  PROVE  Rows(cat, where, want, unwanted) = {}
<1>1. \A r \in cat.rows : \E i \in 1 .. n : r = row[i]
  BY DEF PricedAs
<1>2. \A i \in 1 .. n : row[i].has = Words(lookup)[i]
  BY DEF PricedAs
<1> QED BY <1>1, <1>2 DEF Rows, Matching

\* The class of a database among four, and rates that go up with it.
ClassOf(gb) == IF gb <= 25 THEN 1 ELSE IF gb <= 100 THEN 2 ELSE IF gb <= 500 THEN 3 ELSE 4

\* Four rates that go up.
Climbs(p) == p \in [1 .. 4 -> Nat] /\ p[1] <= p[2] /\ p[2] <= p[3] /\ p[3] <= p[4]

\* A larger database is in no lower class.
LEMMA LargerClass ==
  ASSUME NEW small \in Nat, NEW large \in Nat, small < large
  PROVE  ClassOf(small) \in 1 .. 4 /\ ClassOf(large) \in 1 .. 4 /\ ClassOf(small) <= ClassOf(large)
BY DEF ClassOf

\* And its rate is no less.
LEMMA ClimbsThrough ==
  ASSUME NEW p, Climbs(p), NEW i \in 1 .. 4, NEW j \in 1 .. 4, i <= j
  PROVE  p[i] \in Nat /\ p[j] \in Nat /\ p[i] <= p[j]
<1>1. p[1] \in Nat /\ p[2] \in Nat /\ p[3] \in Nat /\ p[4] \in Nat
  BY DEF Climbs
<1>2. p[1] <= p[2] /\ p[2] <= p[3] /\ p[3] <= p[4]
  BY DEF Climbs
<1>3. (i = 1 \/ i = 2 \/ i = 3 \/ i = 4) /\ (j = 1 \/ j = 2 \/ j = 3 \/ j = 4)
  OBVIOUS
<1>4. p[i] \in Nat /\ p[j] \in Nat
  BY DEF Climbs
<1>5. CASE i = 1
  BY SMT, <1>1, <1>2, <1>3, <1>5
<1>6. CASE i = 2
  BY SMT, <1>1, <1>2, <1>3, <1>6
<1>7. CASE i = 3
  BY SMT, <1>1, <1>2, <1>3, <1>7
<1>8. CASE i = 4
  BY SMT, <1>1, <1>2, <1>3, <1>8
<1> QED BY <1>3, <1>4, <1>5, <1>6, <1>7, <1>8

\* What a class and its storage cost a month.
MonthOf(p, s, gb) == HoursAMonth * p[ClassOf(gb)] + gb * s[ClassOf(gb)]

\* Hours and gigabytes that both go up make a bill that does.
LEMMA ClassesCostMore ==
  ASSUME NEW p, Climbs(p), NEW s, Climbs(s), NEW small \in Nat, NEW large \in Nat, small < large
  PROVE  MonthOf(p, s, small) \in Nat /\ MonthOf(p, s, large) \in Nat /\ MonthOf(p, s, small) <= MonthOf(p, s, large)
<1> DEFINE i == ClassOf(small)
           j == ClassOf(large)
           x == small * s[i]
           y == large * s[i]
           z == large * s[j]
<1>1. i \in 1 .. 4 /\ j \in 1 .. 4 /\ i <= j
  BY LargerClass
<1> HIDE DEF i, j
<1>2. p[i] \in Nat /\ p[j] \in Nat /\ p[i] <= p[j]
  BY <1>1, ClimbsThrough
<1>3. s[i] \in Nat /\ s[j] \in Nat /\ s[i] <= s[j]
  BY <1>1, ClimbsThrough
<1>4. x \in Nat /\ y \in Nat /\ x <= y
  BY <1>3, MoreOfIt
<1>5. z \in Nat /\ y <= z
  BY <1>3, MoreCostsMore
<1> HIDE DEF x, y, z
<1>6. /\ HoursAMonth * p[i] + x \in Nat /\ HoursAMonth * p[j] + z \in Nat
      /\ HoursAMonth * p[i] + x <= HoursAMonth * p[j] + z
  BY SMT, <1>2, <1>4, <1>5 DEF HoursAMonth
<1> QED BY <1>6 DEF i, j, x, z, MonthOf

\* The bill of a class and its storage, from the two prices.
LEMMA BillIsSum ==
  ASSUME NEW a \in Nat, NEW b \in Nat, NEW gb \in Nat
  PROVE  Plus(Monthly({a}), Volume({b}, gb)) = {HoursAMonth * a + gb * b}
<1> DEFINE x == HoursAMonth * a
           y == gb * b
<1>1. Monthly({a}) = {x} /\ Volume({b}, gb) = {y}
  BY DEF Monthly, Volume
<1> HIDE DEF x, y
<1>2. Plus({x}, {y}) = {x + y}
  BY DEF Plus
<1> QED BY <1>1, <1>2 DEF x, y

\* The shape of a database is that of its class.
LEMMA ClassFits ==
  ASSUME NEW gb \in Nat, NEW a, NEW b, NEW c, NEW d
  PROVE  Fitting(gb, <<25, 100, 500>>, <<a, b, c, d>>) = <<a, b, c, d>>[ClassOf(gb)]
BY FittingAmongFour DEF ClassOf

\* Four prices that go up with the class.
PricesClimb(H) == \E p : Climbs(p) /\ \A i \in 1 .. 4 : H[i] = {p[i]}

\* When the four prices are in order.
LEMMA FourPrices ==
  ASSUME NEW H, NEW a \in Nat, NEW b \in Nat, NEW c \in Nat, NEW d \in Nat, a <= b, b <= c, c <= d,
         H[1] = {a}, H[2] = {b}, H[3] = {c}, H[4] = {d}
  PROVE  PricesClimb(H)
<1> DEFINE p == [i \in 1 .. 4 |-> IF i = 1 THEN a ELSE IF i = 2 THEN b ELSE IF i = 3 THEN c ELSE d]
<1>1. p[1] = a /\ p[2] = b /\ p[3] = c /\ p[4] = d /\ p \in [1 .. 4 -> Nat]
  OBVIOUS
<1> HIDE DEF p
<1>2. Climbs(p)
  BY <1>1 DEF Climbs
<1>3. \A i \in 1 .. 4 : i = 1 \/ i = 2 \/ i = 3 \/ i = 4
  OBVIOUS
<1>4. \A i \in 1 .. 4 : H[i] = {p[i]}
  BY <1>1, <1>3
<1> QED BY <1>2, <1>4 DEF PricesClimb

\* The list prices go up with the class.
LEMMA ListsClimb ==
  /\ RDSList["t3.small"] \in Nat /\ RDSList["t3.medium"] \in Nat /\ RDSList["m6i.large"] \in Nat
  /\ RDSList["m6i.xlarge"] \in Nat /\ AuroraList["r6g.large"] \in Nat /\ AuroraList["r6g.xlarge"] \in Nat
  /\ AzureFlexList["B1ms"] \in Nat /\ AzureFlexList["D2ds"] \in Nat /\ AzureFlexList["D4ds"] \in Nat
  /\ AzureFlexList["D8ds"] \in Nat
  /\ RDSList["t3.small"] <= RDSList["t3.medium"] /\ RDSList["t3.medium"] <= RDSList["m6i.large"]
  /\ RDSList["m6i.large"] <= RDSList["m6i.xlarge"] /\ AuroraList["r6g.large"] <= AuroraList["r6g.xlarge"]
  /\ AzureFlexList["B1ms"] <= AzureFlexList["D2ds"] /\ AzureFlexList["D2ds"] <= AzureFlexList["D4ds"]
  /\ AzureFlexList["D4ds"] <= AzureFlexList["D8ds"]
BY SMT, ListsSay

\* The largest classes are priced from the list alone, and the others below it.
BelowTheList ==
  /\ \A usd \in Published["rds"] : usd <= RDSList["m6i.xlarge"]
  /\ \A usd \in Published["azure_pg"] : usd <= 115000 /\ usd <= AzureFlexList["D8ds"]

\* The entries of the answer of RDS.
LEMMA RDSEntries ==
  ASSUME lookup = "rds"
  PROVE  /\ DOMAIN Words(lookup) = 1 .. 4 /\ Len(Words(lookup)) = 4 /\ lookup \notin WorldWide
         /\ Words(lookup)[1] = {"postgres", "single_az", "t3.small"}
         /\ Words(lookup)[2] = {"postgres", "single_az", "t3.medium"}
         /\ Words(lookup)[3] = {"postgres", "single_az", "m6i.large"}
         /\ Words(lookup)[4] = {"database_storage", "general_purpose", "gp3"}
<1>1. Words("rds") = <<{"postgres", "single_az", "t3.small"}, {"postgres", "single_az", "t3.medium"},
                      {"postgres", "single_az", "m6i.large"}, {"database_storage", "general_purpose", "gp3"}>>
  BY SMT DEF Words
<1>2. "rds" \notin WorldWide
  BY SMT DEF WorldWide
<1> QED BY SMT, <1>1, <1>2

\* An instance is looked for by its name.
RDSName == <<"t3.small", "t3.medium", "m6i.large", "m6i.xlarge">>

\* Its words.
RDSWords(i) == {RDSName[i]} \union {"postgres", "single_az"}

\* What its hour costs, found or from the list.
RDSHours ==
  [i \in 1 .. 4 |-> OrElse(Cheapest(Rows(cat, Here, RDSWords(i), {"licensed"})), {RDSList[RDSName[i]]})]

\* Which entries have the words that are looked for.
LEMMA RDSMatches ==
  ASSUME lookup = "rds"
  PROVE  /\ Matching(RDSWords(1), {"licensed"}, 4) = {1} /\ Matching(RDSWords(2), {"licensed"}, 4) = {2}
         /\ Matching(RDSWords(3), {"licensed"}, 4) = {3} /\ Matching(RDSWords(4), {"licensed"}, 4) = {}
         /\ Matching({"database_storage", "gp3"}, {}, 4) = {4}
<1>1. /\ RDSWords(1) = {"t3.small", "postgres", "single_az"} /\ RDSWords(2) = {"t3.medium", "postgres", "single_az"}
      /\ RDSWords(3) = {"m6i.large", "postgres", "single_az"} /\ RDSWords(4) = {"m6i.xlarge", "postgres", "single_az"}
  BY SMT DEF RDSWords, RDSName
<1>2. \A i \in 1 .. 4 : i = 1 \/ i = 2 \/ i = 3 \/ i = 4
  OBVIOUS
<1>3. \A i \in 1 .. 4 :
        /\ (RDSWords(1) \subseteq Words(lookup)[i] /\ {"licensed"} \cap Words(lookup)[i] = {}) <=> i = 1
        /\ (RDSWords(2) \subseteq Words(lookup)[i] /\ {"licensed"} \cap Words(lookup)[i] = {}) <=> i = 2
        /\ (RDSWords(3) \subseteq Words(lookup)[i] /\ {"licensed"} \cap Words(lookup)[i] = {}) <=> i = 3
        /\ ~ (RDSWords(4) \subseteq Words(lookup)[i])
        /\ ({"database_storage", "gp3"} \subseteq Words(lookup)[i] /\ {} \cap Words(lookup)[i] = {}) <=> i = 4
  BY SMT, <1>1, <1>2, RDSEntries
<1> QED BY <1>3 DEF Matching

\* Three words each, where three words are listed.
LEMMA RDSWordsAreThree ==
  ASSUME lookup = "rds"
  PROVE  /\ Cardinality(Words(lookup)[1]) = 3 /\ Cardinality(Words(lookup)[2]) = 3
         /\ Cardinality(Words(lookup)[3]) = 3
<1>1. /\ Cardinality({"postgres", "single_az", "t3.small"}) = 3
      /\ Cardinality({"postgres", "single_az", "t3.medium"}) = 3
      /\ Cardinality({"postgres", "single_az", "m6i.large"}) = 3
  <2>1. /\ "postgres" # "single_az" /\ "postgres" # "t3.small" /\ "single_az" # "t3.small"
        /\ "postgres" # "t3.medium" /\ "single_az" # "t3.medium"
        /\ "postgres" # "m6i.large" /\ "single_az" # "m6i.large"
    BY SMT
  <2>2. Cardinality({"postgres", "single_az", "t3.small"}) = 3
    BY <2>1, ThreeWords
  <2>3. Cardinality({"postgres", "single_az", "t3.medium"}) = 3
    BY <2>1, ThreeWords
  <2>4. Cardinality({"postgres", "single_az", "m6i.large"}) = 3
    BY <2>1, ThreeWords
  <2> QED BY <2>2, <2>3, <2>4
<1> QED BY <1>1, RDSEntries

\* The hours of the instances go up with the class.
LEMMA RDSHoursClimb ==
  ASSUME QuoteInv, Ascending, lookup = "rds", BelowTheList
  PROVE  PricesClimb(RDSHours)
<1> DEFINE rows(i) == Rows(cat, Here, RDSWords(i), {"licensed"})
           list(i) == RDSList[RDSName[i]]
<1>1. /\ RDSName[1] = "t3.small" /\ RDSName[2] = "t3.medium" /\ RDSName[3] = "m6i.large"
      /\ RDSName[4] = "m6i.xlarge"
  BY SMT DEF RDSName
<1>2. /\ list(1) \in Nat /\ list(2) \in Nat /\ list(3) \in Nat /\ list(4) \in Nat
      /\ list(1) <= list(2) /\ list(2) <= list(3) /\ list(3) <= list(4)
  BY <1>1, ListsClimb
<1>3. /\ RDSHours[1] = OrElse(Cheapest(rows(1)), {list(1)}) /\ RDSHours[2] = OrElse(Cheapest(rows(2)), {list(2)})
      /\ RDSHours[3] = OrElse(Cheapest(rows(3)), {list(3)}) /\ RDSHours[4] = OrElse(Cheapest(rows(4)), {list(4)})
  BY DEF RDSHours
<1>4. CASE cat.rows = {}
  <2>1. \A i : rows(i) = {}
    BY <1>4 DEF Rows
  <2> HIDE DEF rows, list
  <2>2. \A i : Cheapest(rows(i)) = NoPrice
    BY <2>1, NoneFound
  <2>3. /\ RDSHours[1] = {list(1)} /\ RDSHours[2] = {list(2)} /\ RDSHours[3] = {list(3)} /\ RDSHours[4] = {list(4)}
    BY <1>3, <2>2 DEF OrElse
  <2> QED BY <1>2, <2>3, FourPrices
<1>5. CASE cat.rows # {}
  <2>1. PICK row : PricedAs(row, 4)
    <3>1. 4 \in Nat /\ DOMAIN Words(lookup) = 1 .. 4 /\ Len(Words(lookup)) = 4 /\ lookup \notin WorldWide
      BY SMT, RDSEntries
    <3> QED BY <1>5, <3>1, EveryClass
  <2> DEFINE usd(i) == row[i].usd
  <2>2. \A i \in 1 .. 4 : usd(i) \in Nat /\ usd(i) > 0 /\ usd(i) \in Published["rds"]
    BY <2>1 DEF PricedAs
  <2>3. usd(1) <= usd(2) /\ usd(2) <= usd(3)
    BY <2>1, RDSWordsAreThree DEF PricedAs
  <2>4. usd(3) <= list(4)
    BY <1>1, <2>2 DEF BelowTheList
  <2>5. Here \in {Here, Everywhere}
    OBVIOUS
  <2> HIDE DEF list
  <2>6. Cheapest(rows(1)) = {usd(1)}
    BY <2>1, <2>5, RDSMatches, OneFound
  <2>7. Cheapest(rows(2)) = {usd(2)}
    BY <2>1, <2>5, RDSMatches, OneFound
  <2>8. Cheapest(rows(3)) = {usd(3)}
    BY <2>1, <2>5, RDSMatches, OneFound
  <2>9. Cheapest(rows(4)) = NoPrice
    BY <2>1, RDSMatches, NotListed, NoneFound
  <2> HIDE DEF rows, usd
  <2>10. /\ RDSHours[1] = {usd(1)} /\ RDSHours[2] = {usd(2)} /\ RDSHours[3] = {usd(3)} /\ RDSHours[4] = {list(4)}
    BY <1>3, <2>6, <2>7, <2>8, <2>9 DEF OrElse, NoPrice
  <2>11. usd(1) \in Nat /\ usd(2) \in Nat /\ usd(3) \in Nat
    BY <2>2
  <2> QED BY <1>2, <2>3, <2>4, <2>10, <2>11, FourPrices
<1> QED BY <1>4, <1>5

\* The gigabyte has one rate.
LEMMA RDSDiskIsOne ==
  ASSUME QuoteInv, Ascending, lookup = "rds"
  PROVE  \E k \in Nat : OrElse(AWSRDSGP3Storage(cat, Here), {115000}) = {k}
<1> DEFINE gp3 == Rows(cat, Here, {"database_storage", "gp3"}, {})
           any == Rows(cat, Here, {"database_storage", "general_purpose"}, {})
<1>1. AWSRDSGP3Storage(cat, Here) = OrElse(SomePriced(gp3), Cheapest(any))
  BY DEF AWSRDSGP3Storage, AWSRDSStorage
<1>2. 115000 \in Nat
  BY SMT
<1>3. CASE cat.rows = {}
  <2>1. gp3 = {} /\ any = {}
    BY <1>3 DEF Rows
  <2> HIDE DEF gp3, any
  <2>2. SomePriced(gp3) = {} /\ Cheapest(any) = {}
    BY <2>1, NoneFound DEF NoPrice
  <2>3. AWSRDSGP3Storage(cat, Here) = {}
    BY <1>1, <2>2 DEF OrElse
  <2> QED BY SMT, <1>2, <2>3 DEF OrElse, NoPrice
<1>4. CASE cat.rows # {}
  <2>1. PICK row : PricedAs(row, 4)
    <3>1. 4 \in Nat /\ DOMAIN Words(lookup) = 1 .. 4 /\ Len(Words(lookup)) = 4 /\ lookup \notin WorldWide
      BY SMT, RDSEntries
    <3> QED BY <1>4, <3>1, EveryClass
  <2>2. Here \in {Here, Everywhere}
    OBVIOUS
  <2>3. SomePriced(gp3) = {row[4].usd}
    BY <2>1, <2>2, RDSMatches, OneFound
  <2>4. row[4].usd \in Nat
    BY <2>1 DEF PricedAs
  <2> HIDE DEF gp3, any
  <2>5. AWSRDSGP3Storage(cat, Here) = {row[4].usd}
    BY <1>1, <2>3 DEF OrElse, NoPrice
  <2> QED BY SMT, <2>4, <2>5 DEF OrElse, NoPrice
<1> QED BY <1>3, <1>4

\* A constant rate climbs too.
LEMMA SameClimbs ==
  ASSUME NEW k \in Nat
  PROVE  Climbs([i \in 1 .. 4 |-> k]) /\ \A i \in 1 .. 4 : [j \in 1 .. 4 |-> k][i] = k
BY DEF Climbs

\* What a lookup returns from prices that climb costs more for a larger one.
LEMMA BillsCostMore ==
  ASSUME NEW f, NEW small \in Nat, NEW large \in Nat, small < large, NEW p, NEW s, Climbs(p), Climbs(s),
         NEW n \in Nat,
         Quote(f, cat, small) = {n * MonthOf(p, s, small)}, Quote(f, cat, large) = {n * MonthOf(p, s, large)}
  PROVE  CostsMore(f, small, large)
<1> DEFINE x == MonthOf(p, s, small)
           y == MonthOf(p, s, large)
<1>1. x \in Nat /\ y \in Nat /\ x <= y
  BY ClassesCostMore
<1> HIDE DEF x, y
<1>2. n * x \in Nat /\ n * y \in Nat /\ n * x <= n * y
  BY <1>1, MoreCostsMore
<1> QED BY <1>2 DEF CostsMore, x, y

\* RDS.
LEMMA RDSCostsMore ==
  ASSUME QuoteInv, Ascending, lookup = "rds", BelowTheList, NEW small \in Nat, NEW large \in Nat, small < large
  PROVE  CostsMore("rds", small, large)
<1> DEFINE name(gb) == Fitting(gb, <<25, 100, 500>>, RDSName)
           hour(i) == Cheapest(Rows(cat, Here, {i} \union {"postgres", "single_az"}, {"licensed"}))
           bill(gb) == Plus(Monthly(OrElse(hour(name(gb)), {RDSList[name(gb)]})),
                            Volume(OrElse(AWSRDSGP3Storage(cat, Here), {115000}), gb))
<1>1. Quote("rds", cat, small) = bill(small)
  BY SMT DEF Quote, ManagedPostgres, AWSRDSPostgres, AWSRDSPostgresHourly, RDSName
<1>2. Quote("rds", cat, large) = bill(large)
  BY SMT DEF Quote, ManagedPostgres, AWSRDSPostgres, AWSRDSPostgresHourly, RDSName
<1>3. PICK p : Climbs(p) /\ \A i \in 1 .. 4 : RDSHours[i] = {p[i]}
  BY RDSHoursClimb DEF PricesClimb
<1>4. PICK k \in Nat : OrElse(AWSRDSGP3Storage(cat, Here), {115000}) = {k}
  BY RDSDiskIsOne
<1> DEFINE s == [i \in 1 .. 4 |-> k]
<1>5. Climbs(s) /\ \A i \in 1 .. 4 : s[i] = k
  BY SameClimbs
<1>6. ASSUME NEW gb \in Nat PROVE bill(gb) = {1 * MonthOf(p, s, gb)}
  <2> DEFINE i == ClassOf(gb)
  <2>1. i \in 1 .. 4
    BY DEF ClassOf
  <2>2. name(gb) = RDSName[i]
    BY ClassFits DEF RDSName
  <2>3. RDSHours[i] = OrElse(hour(RDSName[i]), {RDSList[RDSName[i]]})
    BY <2>1 DEF RDSHours, RDSWords
  <2> HIDE DEF i, name, hour
  <2>4. bill(gb) = Plus(Monthly({p[i]}), Volume({k}, gb))
    BY SMT, <1>3, <1>4, <2>1, <2>2, <2>3
  <2>5. p[i] \in Nat
    BY <1>3, <2>1 DEF Climbs
  <2> HIDE DEF bill, s
  <2>6. bill(gb) = {HoursAMonth * p[i] + gb * k}
    BY <2>4, <2>5, BillIsSum
  <2>7. MonthOf(p, s, gb) = HoursAMonth * p[i] + gb * k
    BY <1>5, <2>1 DEF MonthOf, i
  <2> DEFINE v == HoursAMonth * p[i]
             w == gb * k
  <2>8. v \in Nat /\ w \in Nat
    BY <2>5 DEF HoursAMonth
  <2> HIDE DEF v, w
  <2>9. 1 * (v + w) = v + w
    BY <2>8
  <2> QED BY <2>6, <2>7, <2>9 DEF v, w
<1> HIDE DEF bill, s
<1>7. Quote("rds", cat, small) = {1 * MonthOf(p, s, small)}
  BY <1>1, <1>6
<1>8. Quote("rds", cat, large) = {1 * MonthOf(p, s, large)}
  BY <1>2, <1>6
<1> QED BY <1>3, <1>5, <1>7, <1>8, BillsCostMore

\* Aurora has two classes among the four, and its own names.
AuroraName == <<"r6g.large", "r6g.large", "r6g.xlarge", "r6g.xlarge">>

\* The words of one.
AuroraWords(i) == {AuroraName[i]} \union {"aurora"}

\* What its hour costs, found or from the list.
AuroraHours ==
  [i \in 1 .. 4 |-> OrElse(Cheapest(Rows(cat, Here, AuroraWords(i), {"licensed"})), {AuroraList[AuroraName[i]]})]

\* The entries of its answer, and which have the words that are looked for.
LEMMA AuroraEntries ==
  ASSUME lookup = "aurora"
  PROVE  /\ DOMAIN Words(lookup) = 1 .. 3 /\ Len(Words(lookup)) = 3 /\ lookup \notin WorldWide
         /\ Cardinality(Words(lookup)[1]) = Cardinality(Words(lookup)[2])
         /\ Matching(AuroraWords(1), {"licensed"}, 3) = {1} /\ Matching(AuroraWords(2), {"licensed"}, 3) = {1}
         /\ Matching(AuroraWords(3), {"licensed"}, 3) = {2} /\ Matching(AuroraWords(4), {"licensed"}, 3) = {2}
<1>1. Words("aurora") = <<{"aurora", "r6g.large"}, {"aurora", "r6g.xlarge"}, {"aurora", "storage"}>>
  BY SMT DEF Words
<1>2. "aurora" \notin WorldWide
  BY SMT DEF WorldWide
<1>3. /\ Words(lookup)[1] = {"aurora", "r6g.large"} /\ Words(lookup)[2] = {"aurora", "r6g.xlarge"}
      /\ Words(lookup)[3] = {"aurora", "storage"} /\ DOMAIN Words(lookup) = 1 .. 3 /\ Len(Words(lookup)) = 3
  BY SMT, <1>1
<1>4. /\ AuroraWords(1) = {"r6g.large", "aurora"} /\ AuroraWords(2) = {"r6g.large", "aurora"}
      /\ AuroraWords(3) = {"r6g.xlarge", "aurora"} /\ AuroraWords(4) = {"r6g.xlarge", "aurora"}
  BY SMT DEF AuroraWords, AuroraName
<1>5. \A i \in 1 .. 3 : i = 1 \/ i = 2 \/ i = 3
  OBVIOUS
<1>6. \A i \in 1 .. 3 :
        /\ (AuroraWords(1) \subseteq Words(lookup)[i] /\ {"licensed"} \cap Words(lookup)[i] = {}) <=> i = 1
        /\ (AuroraWords(3) \subseteq Words(lookup)[i] /\ {"licensed"} \cap Words(lookup)[i] = {}) <=> i = 2
  BY SMT, <1>3, <1>4, <1>5
<1>7. Cardinality({"aurora", "r6g.large"}) = Cardinality({"aurora", "r6g.xlarge"})
  <2>1. "aurora" # "r6g.large" /\ "aurora" # "r6g.xlarge"
    BY SMT
  <2> QED BY <2>1, TwoWords
<1>8. Matching(AuroraWords(1), {"licensed"}, 3) = {1} /\ Matching(AuroraWords(3), {"licensed"}, 3) = {2}
  BY <1>6 DEF Matching
<1>9. AuroraWords(1) = AuroraWords(2) /\ AuroraWords(3) = AuroraWords(4)
  BY <1>4
<1>10. Cardinality(Words(lookup)[1]) = Cardinality(Words(lookup)[2])
  BY <1>3, <1>7
<1> QED BY <1>2, <1>3, <1>8, <1>9, <1>10

\* The hours of its instances go up with the class.
LEMMA AuroraHoursClimb ==
  ASSUME QuoteInv, Ascending, lookup = "aurora"
  PROVE  PricesClimb(AuroraHours)
<1> DEFINE rows(i) == Rows(cat, Here, AuroraWords(i), {"licensed"})
           list(i) == AuroraList[AuroraName[i]]
<1>1. /\ AuroraName[1] = "r6g.large" /\ AuroraName[2] = "r6g.large" /\ AuroraName[3] = "r6g.xlarge"
      /\ AuroraName[4] = "r6g.xlarge"
  BY SMT DEF AuroraName
<1>2. /\ list(1) \in Nat /\ list(2) = list(1) /\ list(3) \in Nat /\ list(4) = list(3) /\ list(1) <= list(3)
  BY <1>1, ListsClimb
<1>3. /\ AuroraHours[1] = OrElse(Cheapest(rows(1)), {list(1)}) /\ AuroraHours[2] = OrElse(Cheapest(rows(2)), {list(2)})
      /\ AuroraHours[3] = OrElse(Cheapest(rows(3)), {list(3)}) /\ AuroraHours[4] = OrElse(Cheapest(rows(4)), {list(4)})
  BY DEF AuroraHours
<1>4. CASE cat.rows = {}
  <2>1. \A i : rows(i) = {}
    BY <1>4 DEF Rows
  <2> HIDE DEF rows, list
  <2>2. \A i : Cheapest(rows(i)) = NoPrice
    BY <2>1, NoneFound
  <2>3. /\ AuroraHours[1] = {list(1)} /\ AuroraHours[2] = {list(1)} /\ AuroraHours[3] = {list(3)} /\ AuroraHours[4] = {list(3)}
    BY <1>2, <1>3, <2>2 DEF OrElse
  <2>4. list(1) <= list(1) /\ list(3) <= list(3)
    BY <1>2
  <2> QED BY <1>2, <2>3, <2>4, FourPrices
<1>5. CASE cat.rows # {}
  <2>1. PICK row : PricedAs(row, 3)
    <3>1. 3 \in Nat /\ DOMAIN Words(lookup) = 1 .. 3 /\ Len(Words(lookup)) = 3 /\ lookup \notin WorldWide
      BY SMT, AuroraEntries
    <3> QED BY <1>5, <3>1, EveryClass
  <2> DEFINE usd(i) == row[i].usd
  <2>2. \A i \in 1 .. 3 : usd(i) \in Nat /\ usd(i) > 0
    BY <2>1 DEF PricedAs
  <2>3. usd(1) <= usd(2)
    BY <2>1, AuroraEntries DEF PricedAs
  <2>4. Here \in {Here, Everywhere}
    OBVIOUS
  <2> HIDE DEF list
  <2>5. Cheapest(rows(1)) = {usd(1)}
    BY <2>1, <2>4, AuroraEntries, OneFound
  <2>6. Cheapest(rows(2)) = {usd(1)}
    BY <2>1, <2>4, AuroraEntries, OneFound
  <2>7. Cheapest(rows(3)) = {usd(2)}
    BY <2>1, <2>4, AuroraEntries, OneFound
  <2>8. Cheapest(rows(4)) = {usd(2)}
    BY <2>1, <2>4, AuroraEntries, OneFound
  <2> HIDE DEF rows, usd
  <2>9. AuroraHours[1] = {usd(1)} /\ AuroraHours[2] = {usd(1)} /\ AuroraHours[3] = {usd(2)} /\ AuroraHours[4] = {usd(2)}
    BY <1>3, <2>5, <2>6, <2>7, <2>8 DEF OrElse, NoPrice
  <2>10. usd(1) \in Nat /\ usd(2) \in Nat /\ usd(1) <= usd(1) /\ usd(2) <= usd(2)
    BY <2>2
  <2> QED BY <2>3, <2>9, <2>10, FourPrices
<1> QED BY <1>4, <1>5

\* Aurora.
LEMMA AuroraCostsMore ==
  ASSUME QuoteInv, Ascending, lookup = "aurora", NEW small \in Nat, NEW large \in Nat, small < large
  PROVE  CostsMore("aurora", small, large)
<1> DEFINE name(gb) == Fitting(gb, <<100>>, <<"r6g.large", "r6g.xlarge">>)
           hour(i) == Cheapest(Rows(cat, Here, {i} \union {"aurora"}, {"licensed"}))
           disk == OrElse(AWSAuroraStorage(cat, Here), {100000})
           bill(gb) == Plus(Monthly(OrElse(hour(name(gb)), {AuroraList[name(gb)]})), Volume(disk, gb))
<1>1. Quote("aurora", cat, small) = bill(small)
  BY SMT DEF Quote, ManagedPostgres, AWSAuroraPostgres, AWSAuroraHourly, AWSRDSPostgresHourly
<1>2. Quote("aurora", cat, large) = bill(large)
  BY SMT DEF Quote, ManagedPostgres, AWSAuroraPostgres, AWSAuroraHourly, AWSRDSPostgresHourly
<1>3. PICK p : Climbs(p) /\ \A i \in 1 .. 4 : AuroraHours[i] = {p[i]}
  BY AuroraHoursClimb DEF PricesClimb
<1>4. PICK k \in Nat : disk = {k}
  <2> DEFINE R == Rows(cat, Here, {"aurora", "storage"}, {"iorequest"})
  <2>1. AWSAuroraStorage(cat, Here) = Cheapest({r \in R : r.usd <= 1000000})
    BY SMT DEF AWSAuroraStorage
  <2>2. {r \in R : r.usd <= 1000000} \in SUBSET cat.rows
    BY SMT DEF Rows
  <2>3. AtMostOne(AWSAuroraStorage(cat, Here))
    BY SMT, <2>1, <2>2, CheapestIsOne
  <2>4. 100000 \in Nat
    BY SMT
  <2> QED BY SMT, <2>3, <2>4, OneOrElse
<1> HIDE DEF disk
<1> DEFINE s == [i \in 1 .. 4 |-> k]
<1>5. Climbs(s) /\ \A i \in 1 .. 4 : s[i] = k
  BY SameClimbs
<1>6. ASSUME NEW gb \in Nat PROVE bill(gb) = {1 * MonthOf(p, s, gb)}
  <2> DEFINE i == ClassOf(gb)
  <2>1. i \in 1 .. 4
    BY DEF ClassOf
  <2>2. name(gb) = AuroraName[i]
    BY SMT, FittingOfTwo DEF AuroraName, ClassOf
  <2>3. AuroraHours[i] = OrElse(hour(AuroraName[i]), {AuroraList[AuroraName[i]]})
    BY <2>1 DEF AuroraHours, AuroraWords
  <2> HIDE DEF i, name, hour
  <2>4. bill(gb) = Plus(Monthly({p[i]}), Volume({k}, gb))
    BY <1>3, <1>4, <2>1, <2>2, <2>3
  <2>5. p[i] \in Nat
    BY <1>3, <2>1 DEF Climbs
  <2> HIDE DEF bill, s
  <2>6. bill(gb) = {HoursAMonth * p[i] + gb * k}
    BY <2>4, <2>5, BillIsSum
  <2>7. MonthOf(p, s, gb) = HoursAMonth * p[i] + gb * k
    BY <1>5, <2>1 DEF MonthOf, i
  <2> DEFINE v == HoursAMonth * p[i]
             w == gb * k
  <2>8. v \in Nat /\ w \in Nat
    BY <2>5 DEF HoursAMonth
  <2> HIDE DEF v, w
  <2>9. 1 * (v + w) = v + w
    BY <2>8
  <2> QED BY <2>6, <2>7, <2>9 DEF v, w
<1> HIDE DEF bill, s
<1>7. Quote("aurora", cat, small) = {1 * MonthOf(p, s, small)}
  BY <1>1, <1>6
<1>8. Quote("aurora", cat, large) = {1 * MonthOf(p, s, large)}
  BY <1>2, <1>6
<1> QED BY <1>3, <1>5, <1>7, <1>8, BillsCostMore

\* The shapes of Azure, and what is looked for: a shape and the storage.
AzureName == <<"B1ms", "D2ds", "D4ds", "D8ds">>

\* The words of a shape.
AzureWords(i) == {"flexible_server", AzureName[i], "hour"}

\* The price of its hour.
AzureHour(i) == Cheapest(Rows(cat, Here, AzureWords(i), {"windows"}))

\* The price of a gigabyte.
AzureDisk == Cheapest(Rows(cat, Here, {"flexible_server", "storage", "gb"}, {"backup", "iops"}))

\* The rates of a class: what is found, or both from the list.
AzureTaken(i, hour, gigabyte) ==
  \/ AzureHour(i) = {hour} /\ AzureDisk = {gigabyte}
  \/ /\ AzureHour(i) = NoPrice \/ AzureDisk = NoPrice
     /\ hour = AzureFlexList[AzureName[i]] /\ gigabyte = 115000

\* The entries of its answer, and which have the words that are looked for.
LEMMA AzureEntries ==
  ASSUME lookup = "azure_pg"
  PROVE  /\ DOMAIN Words(lookup) = 1 .. 4 /\ Len(Words(lookup)) = 4 /\ lookup \notin WorldWide
         /\ Cardinality(Words(lookup)[1]) = 3 /\ Cardinality(Words(lookup)[2]) = 3
         /\ Cardinality(Words(lookup)[3]) = 3
         /\ Matching(AzureWords(1), {"windows"}, 4) = {1} /\ Matching(AzureWords(2), {"windows"}, 4) = {2}
         /\ Matching(AzureWords(3), {"windows"}, 4) = {3} /\ Matching(AzureWords(4), {"windows"}, 4) = {}
         /\ Matching({"flexible_server", "storage", "gb"}, {"backup", "iops"}, 4) = {4}
<1>1. Words("azure_pg") = <<{"flexible_server", "B1ms", "hour"}, {"flexible_server", "D2ds", "hour"},
                           {"flexible_server", "D4ds", "hour"}, {"flexible_server", "storage", "gb"}>>
  BY SMT DEF Words
<1>2. "azure_pg" \notin WorldWide
  BY SMT DEF WorldWide
<1>3. /\ Words(lookup)[1] = {"flexible_server", "B1ms", "hour"} /\ Words(lookup)[2] = {"flexible_server", "D2ds", "hour"}
      /\ Words(lookup)[3] = {"flexible_server", "D4ds", "hour"} /\ Words(lookup)[4] = {"flexible_server", "storage", "gb"}
      /\ DOMAIN Words(lookup) = 1 .. 4 /\ Len(Words(lookup)) = 4
  BY SMT, <1>1
<1>4. /\ AzureWords(1) = {"flexible_server", "B1ms", "hour"} /\ AzureWords(2) = {"flexible_server", "D2ds", "hour"}
      /\ AzureWords(3) = {"flexible_server", "D4ds", "hour"} /\ AzureWords(4) = {"flexible_server", "D8ds", "hour"}
  BY SMT DEF AzureWords, AzureName
<1>5. \A i \in 1 .. 4 : i = 1 \/ i = 2 \/ i = 3 \/ i = 4
  OBVIOUS
<1>6. \A i \in 1 .. 4 :
        /\ (AzureWords(1) \subseteq Words(lookup)[i] /\ {"windows"} \cap Words(lookup)[i] = {}) <=> i = 1
        /\ (AzureWords(2) \subseteq Words(lookup)[i] /\ {"windows"} \cap Words(lookup)[i] = {}) <=> i = 2
        /\ (AzureWords(3) \subseteq Words(lookup)[i] /\ {"windows"} \cap Words(lookup)[i] = {}) <=> i = 3
        /\ ~ (AzureWords(4) \subseteq Words(lookup)[i])
  BY SMT, <1>3, <1>4, <1>5
<1>7. \A i \in 1 .. 4 :
        ({"flexible_server", "storage", "gb"} \subseteq Words(lookup)[i] /\ {"backup", "iops"} \cap Words(lookup)[i] = {}) <=> i = 4
  BY SMT, <1>3, <1>5
<1>8. \A i \in 1 .. 3 : Cardinality(Words(lookup)[i]) = 3
  <2>1. /\ "flexible_server" # "B1ms" /\ "flexible_server" # "hour" /\ "B1ms" # "hour"
        /\ "flexible_server" # "D2ds" /\ "D2ds" # "hour" /\ "flexible_server" # "D4ds" /\ "D4ds" # "hour"
    BY SMT
  <2>2. Cardinality({"flexible_server", "B1ms", "hour"}) = 3
    BY <2>1, ThreeWords
  <2>3. Cardinality({"flexible_server", "D2ds", "hour"}) = 3
    BY <2>1, ThreeWords
  <2>4. Cardinality({"flexible_server", "D4ds", "hour"}) = 3
    BY <2>1, ThreeWords
  <2>5. \A i \in 1 .. 3 : i = 1 \/ i = 2 \/ i = 3
    OBVIOUS
  <2> QED BY <1>3, <2>2, <2>3, <2>4, <2>5
<1> QED BY <1>2, <1>3, <1>6, <1>7, <1>8 DEF Matching

\* Four rates that climb.
LEMMA FourClimb ==
  ASSUME NEW a \in Nat, NEW b \in Nat, NEW c \in Nat, NEW d \in Nat, a <= b, b <= c, c <= d
  PROVE  PricesClimb(<<{a}, {b}, {c}, {d}>>)
<1> DEFINE H == <<{a}, {b}, {c}, {d}>>
<1>1. H[1] = {a} /\ H[2] = {b} /\ H[3] = {c} /\ H[4] = {d}
  OBVIOUS
<1> HIDE DEF H
<1>2. PricesClimb(H)
  BY <1>1, FourPrices
<1> QED BY <1>2 DEF H

\* Its rates go up with the class.
LEMMA AzureClimbs ==
  ASSUME QuoteInv, Ascending, lookup = "azure_pg", BelowTheList
  PROVE  \E p, s : Climbs(p) /\ Climbs(s) /\ \A i \in 1 .. 4 : AzureTaken(i, p[i], s[i])
<1> DEFINE list(i) == AzureFlexList[AzureName[i]]
           rate == 115000
<1>1. /\ AzureName[1] = "B1ms" /\ AzureName[2] = "D2ds" /\ AzureName[3] = "D4ds" /\ AzureName[4] = "D8ds"
  BY SMT DEF AzureName
<1>2. /\ list(1) \in Nat /\ list(2) \in Nat /\ list(3) \in Nat /\ list(4) \in Nat
      /\ list(1) <= list(2) /\ list(2) <= list(3) /\ list(3) <= list(4)
  BY SMT, <1>1, ListsClimb
<1>3. rate \in Nat /\ rate <= rate
  BY SMT
<1>4. \A i \in 1 .. 4 : i = 1 \/ i = 2 \/ i = 3 \/ i = 4
  OBVIOUS
<1>5. \A i, a, b : AzureHour(i) = {a} /\ AzureDisk = {b} => AzureTaken(i, a, b)
  BY SMT DEF AzureTaken
<1>6. \A i : AzureHour(i) = NoPrice => AzureTaken(i, list(i), rate)
  BY SMT DEF AzureTaken
<1>7. \A usd \in Published["azure_pg"] : usd <= rate /\ usd <= list(4)
  BY SMT, <1>1 DEF BelowTheList
<1> HIDE DEF list, rate
<1>8. CASE cat.rows = {}
  <2>1. \A i : AzureHour(i) = NoPrice
    <3>1. \A want, unwanted : Rows(cat, Here, want, unwanted) = {}
      BY <1>8 DEF Rows
    <3> QED BY <3>1, NoneFound DEF AzureHour
  <2>2. PICK p : Climbs(p) /\ p[1] = list(1) /\ p[2] = list(2) /\ p[3] = list(3) /\ p[4] = list(4)
    <3>1. PricesClimb(<<{list(1)}, {list(2)}, {list(3)}, {list(4)}>>)
      BY <1>2, FourClimb
    <3>2. PICK p : Climbs(p) /\ \A i \in 1 .. 4 : <<{list(1)}, {list(2)}, {list(3)}, {list(4)}>>[i] = {p[i]}
      BY <3>1 DEF PricesClimb
    <3>3. p[1] = list(1) /\ p[2] = list(2) /\ p[3] = list(3) /\ p[4] = list(4)
      BY <3>2
    <3> QED BY <3>2, <3>3
  <2>3. PICK s : Climbs(s) /\ s[1] = rate /\ s[2] = rate /\ s[3] = rate /\ s[4] = rate
    <3>1. PricesClimb(<<{rate}, {rate}, {rate}, {rate}>>)
      BY <1>3, FourClimb
    <3>2. PICK s : Climbs(s) /\ \A i \in 1 .. 4 : <<{rate}, {rate}, {rate}, {rate}>>[i] = {s[i]}
      BY <3>1 DEF PricesClimb
    <3>3. s[1] = rate /\ s[2] = rate /\ s[3] = rate /\ s[4] = rate
      BY <3>2
    <3> QED BY <3>2, <3>3
  <2>4. \A i \in 1 .. 4 : AzureTaken(i, p[i], s[i])
    BY <1>4, <1>6, <2>1, <2>2, <2>3
  <2> QED BY <2>2, <2>3, <2>4
<1>9. CASE cat.rows # {}
  <2>1. PICK row : PricedAs(row, 4)
    <3>1. 4 \in Nat /\ DOMAIN Words(lookup) = 1 .. 4 /\ Len(Words(lookup)) = 4 /\ lookup \notin WorldWide
      BY AzureEntries
    <3> QED BY <1>9, <3>1, EveryClass
  <2> DEFINE usd(i) == row[i].usd
  <2>2. \A i \in 1 .. 4 : usd(i) \in Nat /\ usd(i) > 0 /\ usd(i) \in Published["azure_pg"]
    BY <2>1 DEF PricedAs
  <2>3. usd(1) <= usd(2) /\ usd(2) <= usd(3)
    BY <2>1, AzureEntries DEF PricedAs
  <2>4. usd(3) <= list(4) /\ usd(4) <= rate /\ usd(4) <= usd(4)
    BY <1>7, <2>2
  <2>5. Here \in {Here, Everywhere}
    OBVIOUS
  <2>6. AzureHour(1) = {usd(1)}
    BY <2>1, <2>5, AzureEntries, OneFound DEF AzureHour
  <2>7. AzureHour(2) = {usd(2)}
    BY <2>1, <2>5, AzureEntries, OneFound DEF AzureHour
  <2>8. AzureHour(3) = {usd(3)}
    BY <2>1, <2>5, AzureEntries, OneFound DEF AzureHour
  <2>9. AzureHour(4) = NoPrice
    BY <2>1, AzureEntries, NotListed, NoneFound DEF AzureHour
  <2>10. AzureDisk = {usd(4)}
    BY <2>1, <2>5, AzureEntries, OneFound DEF AzureDisk
  <2>11. usd(1) \in Nat /\ usd(2) \in Nat /\ usd(3) \in Nat /\ usd(4) \in Nat
    BY <2>2
  <2> HIDE DEF usd
  <2>12. PICK p : Climbs(p) /\ p[1] = usd(1) /\ p[2] = usd(2) /\ p[3] = usd(3) /\ p[4] = list(4)
    <3>1. PricesClimb(<<{usd(1)}, {usd(2)}, {usd(3)}, {list(4)}>>)
      BY <1>2, <2>3, <2>4, <2>11, FourClimb
    <3>2. PICK p : Climbs(p) /\ \A i \in 1 .. 4 : <<{usd(1)}, {usd(2)}, {usd(3)}, {list(4)}>>[i] = {p[i]}
      BY <3>1 DEF PricesClimb
    <3>3. p[1] = usd(1) /\ p[2] = usd(2) /\ p[3] = usd(3) /\ p[4] = list(4)
      BY <3>2
    <3> QED BY <3>2, <3>3
  <2>13. PICK s : Climbs(s) /\ s[1] = usd(4) /\ s[2] = usd(4) /\ s[3] = usd(4) /\ s[4] = rate
    <3>1. PricesClimb(<<{usd(4)}, {usd(4)}, {usd(4)}, {rate}>>)
      BY <1>3, <2>4, <2>11, FourClimb
    <3>2. PICK s : Climbs(s) /\ \A i \in 1 .. 4 : <<{usd(4)}, {usd(4)}, {usd(4)}, {rate}>>[i] = {s[i]}
      BY <3>1 DEF PricesClimb
    <3>3. s[1] = usd(4) /\ s[2] = usd(4) /\ s[3] = usd(4) /\ s[4] = rate
      BY <3>2
    <3> QED BY <3>2, <3>3
  <2>14. /\ AzureTaken(1, p[1], s[1]) /\ AzureTaken(2, p[2], s[2]) /\ AzureTaken(3, p[3], s[3])
         /\ AzureTaken(4, p[4], s[4])
    BY <1>5, <1>6, <2>6, <2>7, <2>8, <2>9, <2>10, <2>12, <2>13
  <2>15. \A i \in 1 .. 4 : AzureTaken(i, p[i], s[i])
    BY <1>4, <2>14
  <2> QED BY <2>12, <2>13, <2>15
<1> QED BY <1>8, <1>9

\* Azure, but for a database of no size.
LEMMA AzureCostsMore ==
  ASSUME QuoteInv, Ascending, lookup = "azure_pg", BelowTheList,
         NEW small \in Nat, NEW large \in Nat, small < large, small > 0
  PROVE  CostsMore("azure_pg", small, large)
<1> DEFINE name(gb) == Fitting(gb, <<25, 100, 500>>, AzureName)
           hour(i) == Cheapest(Rows(cat, Here, {"flexible_server", i, "hour"}, {"windows"}))
           live(gb) == Both(Monthly(hour(name(gb))), Volume(AzureDisk, gb))
           list(gb) == {<<HoursAMonth * AzureFlexList[name(gb)], 115000 * gb>>}
           parts(gb) == IF live(gb) = NoPrice \/ gb = 0 THEN list(gb) ELSE live(gb)
           bill(gb) == Scaled({x[1] + x[2] : x \in parts(gb)}, 2)
<1>1. Quote("azure_pg", cat, small) = bill(small)
  BY SMT DEF Quote, ManagedPostgres, AzureFlexiblePostgres, AzureFlexCompute, AzureFlexStorage, AzureDisk, AzureName
<1>2. Quote("azure_pg", cat, large) = bill(large)
  BY SMT DEF Quote, ManagedPostgres, AzureFlexiblePostgres, AzureFlexCompute, AzureFlexStorage, AzureDisk, AzureName
<1>3. PICK p, s : Climbs(p) /\ Climbs(s) /\ \A i \in 1 .. 4 : AzureTaken(i, p[i], s[i])
  BY AzureClimbs
<1>4. ASSUME NEW gb \in Nat, gb > 0 PROVE bill(gb) = {2 * MonthOf(p, s, gb)}
  <2> DEFINE i == ClassOf(gb)
             v == HoursAMonth * p[i]
             w == gb * s[i]
  <2>1. i \in 1 .. 4
    BY DEF ClassOf
  <2>2. name(gb) = AzureName[i]
    BY ClassFits DEF AzureName
  <2>3. hour(name(gb)) = AzureHour(i)
    BY <2>2 DEF AzureHour, AzureWords
  <2>4. AzureTaken(i, p[i], s[i])
    BY <1>3, <2>1
  <2>5. p[i] \in Nat /\ s[i] \in Nat
    BY <1>3, <2>1 DEF Climbs
  <2>6. MonthOf(p, s, gb) = v + w
    BY DEF MonthOf
  <2>7. v \in Nat /\ w \in Nat
    BY <2>5 DEF HoursAMonth
  <2> HIDE DEF i, name, hour
  <2>8. CASE AzureHour(i) = {p[i]} /\ AzureDisk = {s[i]}
    <3>1. Monthly({p[i]}) = {v} /\ Volume({s[i]}, gb) = {w}
      BY DEF Monthly, Volume
    <3>2. live(gb) = {v} \X {w}
      BY SMT, <2>3, <2>8, <3>1 DEF Both
    <3>3. {v} \X {w} = {<<v, w>>}
      OBVIOUS
    <3> HIDE DEF v, w, live, list
    <3>4. live(gb) = {<<v, w>>} /\ live(gb) # NoPrice
      BY <3>2, <3>3 DEF NoPrice
    <3>5. parts(gb) = {<<v, w>>}
      BY <1>4, <3>4
    <3>6. {x[1] + x[2] : x \in {<<v, w>>}} = {v + w}
      OBVIOUS
    <3>7. Scaled({v + w}, 2) = {2 * (v + w)}
      BY DEF Scaled
    <3> HIDE DEF parts
    <3>8. bill(gb) = {2 * (v + w)}
      BY <3>5, <3>6, <3>7
    <3> HIDE DEF bill
    <3> QED BY <2>6, <3>8
  <2>9. CASE /\ AzureHour(i) = NoPrice \/ AzureDisk = NoPrice
             /\ p[i] = AzureFlexList[AzureName[i]] /\ s[i] = 115000
    <3>1. live(gb) = NoPrice
      BY SMT, <2>3, <2>9 DEF Both, Monthly, Volume, NoPrice
    <3>2. HoursAMonth * AzureFlexList[name(gb)] = v
      BY SMT, <2>2, <2>9
    <3>3. 115000 * gb = w
      BY SMT, <2>9
    <3> HIDE DEF v, w, live
    <3>4. parts(gb) = {<<v, w>>}
      BY SMT, <3>1, <3>2, <3>3
    <3> HIDE DEF list
    <3>5. {x[1] + x[2] : x \in {<<v, w>>}} = {v + w}
      OBVIOUS
    <3>6. Scaled({v + w}, 2) = {2 * (v + w)}
      BY DEF Scaled
    <3> HIDE DEF parts
    <3>7. bill(gb) = {2 * (v + w)}
      BY <3>4, <3>5, <3>6
    <3> HIDE DEF bill
    <3> QED BY <2>6, <3>7
  <2> QED BY SMT, <2>4, <2>8, <2>9 DEF AzureTaken
<1> HIDE DEF bill
<1>5. Quote("azure_pg", cat, small) = {2 * MonthOf(p, s, small)}
  BY <1>1, <1>4
<1>6. Quote("azure_pg", cat, large) = {2 * MonthOf(p, s, large)}
  <2>1. large > 0
    OBVIOUS
  <2> QED BY <1>2, <1>4, <2>1
<1> QED BY <1>3, <1>5, <1>6, BillsCostMore

\* DigitalOcean has a small and a large database, whatever the size.
DOPrice(size) == First(Rows(cat, Everywhere, {size, "pg", "one_node"}, {}))

\* The entries of its answer.
LEMMA DOEntries ==
  ASSUME lookup = "do_pg"
  PROVE  /\ DOMAIN Words(lookup) = 1 .. 2 /\ Len(Words(lookup)) = 2 /\ lookup \notin WorldWide
         /\ Cardinality(Words(lookup)[1]) = Cardinality(Words(lookup)[2])
         /\ Matching({"small", "pg", "one_node"}, {}, 2) = {1} /\ Matching({"large", "pg", "one_node"}, {}, 2) = {2}
<1>1. Words("do_pg") = <<{"small", "pg", "one_node"}, {"large", "pg", "one_node"}>>
  BY SMT DEF Words
<1>2. "do_pg" \notin WorldWide
  BY SMT DEF WorldWide
<1>3. /\ Words(lookup)[1] = {"small", "pg", "one_node"} /\ Words(lookup)[2] = {"large", "pg", "one_node"}
      /\ DOMAIN Words(lookup) = 1 .. 2 /\ Len(Words(lookup)) = 2
  BY SMT, <1>1
<1>4. \A i \in 1 .. 2 : i = 1 \/ i = 2
  OBVIOUS
<1>5. \A i \in 1 .. 2 : /\ ({"small", "pg", "one_node"} \subseteq Words(lookup)[i] /\ {} \cap Words(lookup)[i] = {}) <=> i = 1
                        /\ ({"large", "pg", "one_node"} \subseteq Words(lookup)[i] /\ {} \cap Words(lookup)[i] = {}) <=> i = 2
  BY SMT, <1>3, <1>4
<1>6. Cardinality({"small", "pg", "one_node"}) = Cardinality({"large", "pg", "one_node"})
  <2>1. "small" # "pg" /\ "small" # "one_node" /\ "pg" # "one_node" /\ "large" # "pg" /\ "large" # "one_node"
    BY SMT
  <2>2. Cardinality({"small", "pg", "one_node"}) = 3
    BY <2>1, ThreeWords
  <2>3. Cardinality({"large", "pg", "one_node"}) = 3
    BY <2>1, ThreeWords
  <2> QED BY <2>2, <2>3
<1> QED BY <1>2, <1>3, <1>5, <1>6 DEF Matching

\* One price or the other, the second no less.
LEMMA SmallOrLarge ==
  ASSUME NEW f, NEW small \in Nat, NEW large \in Nat, small < large,
         NEW x \in Nat, NEW y \in Nat, x <= y,
         Quote(f, cat, small) = IF small <= 25 THEN {x} ELSE {y},
         Quote(f, cat, large) = IF large <= 25 THEN {x} ELSE {y}
  PROVE  CostsMore(f, small, large)
<1>1. CASE large <= 25
  <2>1. small <= 25 /\ x <= x
    BY <1>1
  <2> QED BY <1>1, <2>1 DEF CostsMore
<1>2. CASE small <= 25 /\ ~ (large <= 25)
  BY <1>2 DEF CostsMore
<1>3. CASE ~ (small <= 25)
  <2>1. ~ (large <= 25) /\ y <= y
    BY <1>3
  <2> QED BY <1>3, <2>1 DEF CostsMore
<1> QED BY <1>1, <1>2, <1>3

\* DigitalOcean.
LEMMA DOCostsMore ==
  ASSUME QuoteInv, Ascending, lookup = "do_pg", NEW small \in Nat, NEW large \in Nat, small < large
  PROVE  CostsMore("do_pg", small, large)
<1> DEFINE least == OrElse(DOPrice("small"), {15000000})
           most == OrElse(DOPrice("large"), {60000000})
<1>1. Quote("do_pg", cat, small) = IF small <= 25 THEN least ELSE most
  BY SMT DEF Quote, ManagedPostgres, DOPostgres, SmallNode, DOPrice
<1>2. Quote("do_pg", cat, large) = IF large <= 25 THEN least ELSE most
  BY SMT DEF Quote, ManagedPostgres, DOPostgres, SmallNode, DOPrice
<1>3. \E x, y \in Nat : least = {x} /\ most = {y} /\ x <= y
  <2>1. CASE cat.rows = {}
    <3>1. \A want, unwanted : Rows(cat, Everywhere, want, unwanted) = {}
      BY <2>1 DEF Rows
    <3>2. \A size : DOPrice(size) = NoPrice
      BY <3>1, NoneFound DEF DOPrice
    <3>3. least = {15000000} /\ most = {60000000}
      BY SMT, <3>2 DEF OrElse
    <3>4. 15000000 \in Nat /\ 60000000 \in Nat /\ 15000000 <= 60000000
      BY SMT
    <3> QED BY SMT, <3>3, <3>4
  <2>2. CASE cat.rows # {}
    <3>1. PICK row : PricedAs(row, 2)
      <4>1. 2 \in Nat /\ DOMAIN Words(lookup) = 1 .. 2 /\ Len(Words(lookup)) = 2 /\ lookup \notin WorldWide
        BY DOEntries
      <4> QED BY <2>2, <4>1, EveryClass
    <3> DEFINE x == row[1].usd
               y == row[2].usd
    <3>2. x \in Nat /\ y \in Nat
      BY <3>1 DEF PricedAs
    <3>3. x <= y
      BY <3>1, DOEntries DEF PricedAs
    <3>4. DOPrice("small") = {x}
      BY <3>1, DOEntries, OneFound DEF DOPrice
    <3>5. DOPrice("large") = {y}
      BY <3>1, DOEntries, OneFound DEF DOPrice
    <3> HIDE DEF x, y
    <3>6. least = {x} /\ most = {y}
      BY SMT, <3>4, <3>5 DEF OrElse, NoPrice
    <3> HIDE DEF least, most
    <3> QED BY <3>2, <3>3, <3>6
  <2> QED BY <2>1, <2>2
<1> HIDE DEF least, most
<1>4. PICK x \in Nat, y \in Nat : least = {x} /\ most = {y} /\ x <= y
  BY <1>3
<1>5. Quote("do_pg", cat, small) = IF small <= 25 THEN {x} ELSE {y}
  BY <1>1, <1>4
<1>6. Quote("do_pg", cat, large) = IF large <= 25 THEN {x} ELSE {y}
  BY <1>2, <1>4
<1> QED BY <1>4, <1>5, <1>6, SmallOrLarge

\* Linode too, and it takes the price of another engine before the list.
LinodePrice(class, engine) == First(Rows(cat, Everywhere, {class, engine, "one_node"}, {}))

\* The entries of its answer.
LEMMA LinodeEntries ==
  ASSUME lookup = "linode_pg"
  PROVE  /\ DOMAIN Words(lookup) = 1 .. 3 /\ Len(Words(lookup)) = 3 /\ lookup \notin WorldWide
         /\ Cardinality(Words(lookup)[1]) = Cardinality(Words(lookup)[3])
         /\ Matching({"small", "postgresql", "one_node"}, {}, 3) = {1}
         /\ Matching({"large", "postgresql", "one_node"}, {}, 3) = {3}
<1>1. Words("linode_pg") = <<{"small", "postgresql", "one_node"}, {"small", "mysql", "one_node"},
                            {"large", "postgresql", "one_node"}>>
  BY SMT DEF Words
<1>2. "linode_pg" \notin WorldWide
  BY SMT DEF WorldWide
<1>3. /\ Words(lookup)[1] = {"small", "postgresql", "one_node"} /\ Words(lookup)[2] = {"small", "mysql", "one_node"}
      /\ Words(lookup)[3] = {"large", "postgresql", "one_node"} /\ DOMAIN Words(lookup) = 1 .. 3 /\ Len(Words(lookup)) = 3
  BY SMT, <1>1
<1>4. \A i \in 1 .. 3 : i = 1 \/ i = 2 \/ i = 3
  OBVIOUS
<1>5. \A i \in 1 .. 3 :
        /\ ({"small", "postgresql", "one_node"} \subseteq Words(lookup)[i] /\ {} \cap Words(lookup)[i] = {}) <=> i = 1
        /\ ({"large", "postgresql", "one_node"} \subseteq Words(lookup)[i] /\ {} \cap Words(lookup)[i] = {}) <=> i = 3
  BY SMT, <1>3, <1>4
<1>6. Cardinality({"small", "postgresql", "one_node"}) = Cardinality({"large", "postgresql", "one_node"})
  <2>1. /\ "small" # "postgresql" /\ "small" # "one_node" /\ "postgresql" # "one_node"
        /\ "large" # "postgresql" /\ "large" # "one_node"
    BY SMT
  <2>2. Cardinality({"small", "postgresql", "one_node"}) = 3
    BY <2>1, ThreeWords
  <2>3. Cardinality({"large", "postgresql", "one_node"}) = 3
    BY <2>1, ThreeWords
  <2> QED BY <2>2, <2>3
<1> QED BY <1>2, <1>3, <1>5, <1>6 DEF Matching

\* Linode.
LEMMA LinodeCostsMore ==
  ASSUME QuoteInv, Ascending, lookup = "linode_pg", NEW small \in Nat, NEW large \in Nat, small < large
  PROVE  CostsMore("linode_pg", small, large)
<1> DEFINE any(class) == OrElse(LinodePrice(class, "postgresql"), LinodePrice(class, "mysql"))
           least == OrElse(any("small"), {19000000})
           most == OrElse(any("large"), {90000000})
<1>1. Quote("linode_pg", cat, small) = IF small <= 25 THEN least ELSE most
  BY SMT DEF Quote, ManagedPostgres, LinodePostgres, SmallNode, LinodePrice
<1>2. Quote("linode_pg", cat, large) = IF large <= 25 THEN least ELSE most
  BY SMT DEF Quote, ManagedPostgres, LinodePostgres, SmallNode, LinodePrice
<1>3. \E x, y \in Nat : least = {x} /\ most = {y} /\ x <= y
  <2>1. CASE cat.rows = {}
    <3>1. \A want, unwanted : Rows(cat, Everywhere, want, unwanted) = {}
      BY <2>1 DEF Rows
    <3>2. \A class, engine : LinodePrice(class, engine) = NoPrice
      BY <3>1, NoneFound DEF LinodePrice
    <3>3. least = {19000000} /\ most = {90000000}
      BY SMT, <3>2 DEF OrElse
    <3>4. 19000000 \in Nat /\ 90000000 \in Nat /\ 19000000 <= 90000000
      BY SMT
    <3> QED BY SMT, <3>3, <3>4
  <2>2. CASE cat.rows # {}
    <3>1. PICK row : PricedAs(row, 3)
      <4>1. 3 \in Nat /\ DOMAIN Words(lookup) = 1 .. 3 /\ Len(Words(lookup)) = 3 /\ lookup \notin WorldWide
        BY LinodeEntries
      <4> QED BY <2>2, <4>1, EveryClass
    <3> DEFINE x == row[1].usd
               y == row[3].usd
    <3>2. x \in Nat /\ y \in Nat
      BY <3>1 DEF PricedAs
    <3>3. x <= y
      BY <3>1, LinodeEntries DEF PricedAs
    <3>4. LinodePrice("small", "postgresql") = {x}
      BY <3>1, LinodeEntries, OneFound DEF LinodePrice
    <3>5. LinodePrice("large", "postgresql") = {y}
      BY <3>1, LinodeEntries, OneFound DEF LinodePrice
    <3> HIDE DEF x, y
    <3>6. least = {x} /\ most = {y}
      BY SMT, <3>4, <3>5 DEF OrElse, NoPrice
    <3> HIDE DEF least, most
    <3> QED BY <3>2, <3>3, <3>6
  <2> QED BY <2>1, <2>2
<1> HIDE DEF least, most
<1>4. PICK x \in Nat, y \in Nat : least = {x} /\ most = {y} /\ x <= y
  BY <1>3
<1>5. Quote("linode_pg", cat, small) = IF small <= 25 THEN {x} ELSE {y}
  BY <1>1, <1>4
<1>6. Quote("linode_pg", cat, large) = IF large <= 25 THEN {x} ELSE {y}
  BY <1>2, <1>4
<1> QED BY <1>4, <1>5, <1>6, SmallOrLarge

------------------------------------------------------------------------------
\* THE PRICE OF A LARGER DATABASE: with classes that are priced upwards, and
\* where the vendor asks less for the smaller ones than the list does for the
\* largest, a larger database never costs less, at any vendor.
THEOREM LargerNeverCostsLess == BelowTheList => (QuotationsSpec => []LargerDatabaseCostsMore)
<1> SUFFICES ASSUME BelowTheList PROVE QuotationsSpec => []LargerDatabaseCostsMore
  OBVIOUS
<1>1. QuoteInv => LargerDatabaseCostsMore
  <2> SUFFICES ASSUME QuoteInv, lookup \in Databases, Ascending, NEW small \in Sizes, NEW large \in Sizes,
                      small < large, lookup = "azure_pg" => small > 0
               PROVE  Max(Quote(lookup, cat, small)) <= Min(Quote(lookup, cat, large))
    BY DEF LargerDatabaseCostsMore
  <2>1. small \in Nat /\ large \in Nat
    BY SizesAssumption
  <2>2. \/ lookup = "rds" \/ lookup = "aurora" \/ lookup = "azure_pg" \/ lookup = "gcp_pg" \/ lookup = "do_pg"
        \/ lookup = "linode_pg" \/ lookup = "oci_pg" \/ lookup = "ibm_pg"
    BY SMT DEF Databases
  <2>3. CostsMore(lookup, small, large)
    <3>1. CASE lookup = "rds"
      BY <2>1, <3>1, RDSCostsMore
    <3>2. CASE lookup = "aurora"
      BY <2>1, <3>2, AuroraCostsMore
    <3>3. CASE lookup = "azure_pg"
      BY <2>1, <3>3, AzureCostsMore
    <3>4. CASE lookup = "gcp_pg"
      BY <2>1, <3>4, GoogleCostsMore
    <3>5. CASE lookup = "do_pg"
      BY <2>1, <3>5, DOCostsMore
    <3>6. CASE lookup = "linode_pg"
      BY <2>1, <3>6, LinodeCostsMore
    <3>7. CASE lookup = "oci_pg"
      BY <2>1, <3>7, OracleCostsMore
    <3>8. CASE lookup = "ibm_pg"
      BY <2>1, <3>8, IBMCostsMore
    <3> QED BY <2>2, <3>1, <3>2, <3>3, <3>4, <3>5, <3>6, <3>7, <3>8
  <2>4. PICK x \in Nat, y \in Nat : Quote(lookup, cat, small) = {x} /\ Quote(lookup, cat, large) = {y} /\ x <= y
    BY <2>3 DEF CostsMore
  <2> QED BY <2>4, OneIsBoth
<1> QED BY <1>1, AlwaysQuoted, PTL
==============================================================================
