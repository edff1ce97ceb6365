-------------------------- MODULE BatchSchnorrProofs --------------------------
(***************************************************************************)
(* Theorems of BatchSchnorr for every prime group order, every challenge,  *)
(* all batches and capacities and every size of size_t: what a context     *)
(* owns, what its buffers hold, that valid signatures are accepted and one *)
(* bad signature is rejected whatever the coefficients.                    *)
(***************************************************************************)
EXTENDS BatchSchnorr, FiniteSetTheorems, WellFoundedInduction, TLAPS

Whole == heap = Blocks /\ scratch_size = ScratchBase + ctx * ScratchPerInput

(* What the context owns at each program point.                            *)
Owned ==
  /\ pc = "idle" => IF ctx = 0 THEN heap = {} ELSE Whole
  /\ pc = "create" => ctx # 0 /\ heap = {"ctx"} /\ CapacityAccepted(ctx)
  /\ pc = "create_check" => /\ ctx # 0 /\ "ctx" \in heap /\ heap \subseteq Blocks
                            /\ scratch_size = ScratchBase + ctx * ScratchPerInput
  /\ pc = "loop" => ctx # 0 /\ Whole

(* The loop runs over a batch that fits the context.                       *)
Looping ==
  /\ pc # "loop" => i = 0
  /\ pc = "loop" => n <= ctx /\ coefficients \in [1..(n - 1) -> Scalars]

IInv == TypeOK /\ Owned /\ Looping /\ NothingLeftOver

-----------------------------------------------------------------------------
(* Numbers *)

(* The sizes are those of size_t.                                          *)
LEMMA SizesNatural ==
  /\ SizeMax \in Nat \ {0} /\ ScratchBase \in Nat \ {0} /\ ScratchPerInput \in Nat \ {0}
  /\ ScratchBase < SizeMax /\ Capacities \subseteq Nat
BY SizeAssumption

(* A capacity that is accepted asks for a scratch space of its full size.  *)
LEMMA ScratchFits ==
  ASSUME NEW c \in Nat, CapacityAccepted(c)
  PROVE  ScratchSize(c) = ScratchBase + c * ScratchPerInput
<1>. DEFINE room == SizeMax - ScratchBase  q == room \div ScratchPerInput
            need == c * ScratchPerInput
<1>1. room \in Nat /\ need \in Nat
  BY SizesNatural
<1>2. q \in Nat /\ q * ScratchPerInput <= room
  BY <1>1, SizesNatural
<1>3. c <= q
  BY DEF CapacityAccepted
<1>4. need <= q * ScratchPerInput /\ q * ScratchPerInput \in Nat
  BY <1>2, <1>3, SizesNatural
<1>5. need <= room
  BY <1>1, <1>2, <1>4
<1>. HIDE DEF need
<1>6. ScratchBase + need \in Nat /\ ScratchBase + need < SizeMax + 1
  BY <1>1, <1>5, SizesNatural
<1>7. (ScratchBase + need) % (SizeMax + 1) = ScratchBase + need
  BY <1>6, SizesNatural
<1>. QED
  BY <1>7 DEF ScratchSize, need

(* What is reduced is a scalar ...                                         *)
LEMMA Remainder ==
  ASSUME NEW x \in Int
  PROVE  x % Order \in Scalars
BY OrderAssumption DEF Scalars

(* ... and a multiple of the order is reduced to zero.                     *)
LEMMA Multiple ==
  ASSUME NEW q \in Int
  PROVE  (Order * q) % Order = 0
BY OrderAssumption

(* Division with remainder.                                                *)
LEMMA Divided ==
  \A d \in Nat \ {0}, x \in Nat : x = d * (x \div d) + (x % d) /\ x \div d \in Int
OBVIOUS

(* The negatives of a coefficient and of its product with the challenge    *)
(* stay in that proportion.                                                *)
LEMMA Proportion ==
  ASSUME NEW a \in 1..(Order - 1), NEW e \in Scalars
  PROVE  /\ negate(a) # 0
         /\ (negate((a * e) % Order) - negate(a) * e) % Order = 0
<1>. DEFINE m == (a * e) % Order  q == (a * e) \div Order
<1>1. a \in Nat /\ e \in Nat /\ Order \in Nat /\ a * e \in Nat
  BY OrderAssumption DEF Scalars
<1>2. q \in Int /\ m \in 0..(Order - 1) /\ a * e = Order * q + m
  <2>1. Order \in Nat \ {0}
    BY OrderAssumption
  <2>2. a * e = Order * q + m /\ q \in Int
    BY <1>1, <2>1, Divided
  <2>3. m \in 0..(Order - 1)
    BY <1>1, Remainder DEF Scalars
  <2>. QED
    BY <2>2, <2>3
<1>3. negate(a) = Order - a
  BY OrderAssumption DEF negate
<1>4. (Order - a) * e = Order * e - a * e
  BY <1>1
<1>. HIDE DEF m, q
<1>5. CASE m = 0
  <2>1. negate(m) = 0
    BY <1>5, OrderAssumption DEF negate
  <2>2. 0 - (Order - a) * e = Order * (q - e)
    BY <1>1, <1>2, <1>4, <1>5
  <2>3. (Order * (q - e)) % Order = 0
    BY <1>1, <1>2, Multiple
  <2>. QED
    BY <1>1, <1>3, <2>1, <2>2, <2>3 DEF m
<1>6. CASE m # 0
  <2>1. negate(m) = Order - m
    BY <1>2, <1>6, OrderAssumption DEF negate
  <2>2. (Order - m) - (Order - a) * e = Order * (1 + q - e)
    BY <1>1, <1>2, <1>4
  <2>3. (Order * (1 + q - e)) % Order = 0
    BY <1>1, <1>2, Multiple
  <2>. QED
    BY <1>1, <1>3, <2>1, <2>2, <2>3 DEF m
<1>. QED
  BY <1>5, <1>6

-----------------------------------------------------------------------------
(* Sums *)

(* Any nonempty collection of finite sets of numbers has a smallest one.   *)
LEMMA MinimalSet ==
  ASSUME NEW C \in SUBSET FiniteSubsetsOf(Nat), C # {}
  PROVE  \E T \in C : \A U \in C : U \subseteq T => U = T
<1>. DEFINE R == StrictSubsetOrdering(Nat)
<1>1. IsWellFoundedOn(R, FiniteSubsetsOf(Nat))
  BY FS_StrictSubsetOrderingWellFounded
<1>. HIDE DEF R
<1>2. PICK T \in C : \A U \in C : <<U, T>> \notin R
  BY <1>1, WFMin
<1>3. ASSUME NEW U \in C, U \subseteq T, U # T PROVE FALSE
  <2>1. <<U, T>> \in R
    BY <1>3 DEF R, StrictSubsetOrdering, FiniteSubsetsOf
  <2>. QED
    BY <1>2, <2>1
<1>. QED
  BY <1>3

(* The sum of the products, in the order in which elements are chosen.     *)
Pick(S) == CHOOSE k \in S : TRUE

IsDot(f, s, p, S) ==
  f = [T \in SUBSET S |->
         IF T = {} THEN 0 ELSE s[Pick(T)] * p[Pick(T)] + f[T \ {Pick(T)}]]

Dot(s, p, S) == (CHOOSE f : IsDot(f, s, p, S))[S]

(* This is the sum that ecmult_multi_var computes.                         *)
LEMMA MultiIsDot ==
  \A g, c : ecmult_multi_var(g, c) = (g + Dot(scalars, points, 0..(c - 1))) % Order
BY DEF ecmult_multi_var, MapThenSumSet, MapThenFoldSet, Dot, IsDot, Pick

(* What is picked from a set is in it.                                     *)
LEMMA Picked == \A S : S # {} => Pick(S) \in S
BY DEF Pick

(* It depends on the products only ...                                     *)
LEMMA DotAgrees ==
  ASSUME NEW A, NEW B, NEW f, NEW g, NEW s, NEW p, NEW s2, NEW p2,
         IsDot(f, s, p, A), IsDot(g, s2, p2, B),
         NEW T \in FiniteSubsetsOf(Nat), T \subseteq A, T \subseteq B,
         \A k \in T : s[k] * p[k] = s2[k] * p2[k]
  PROVE  f[T] = g[T]
<1>. DEFINE C == {U \in FiniteSubsetsOf(Nat) : U \subseteq T /\ f[U] # g[U]}
<1>. SUFFICES ASSUME C # {} PROVE FALSE
  OBVIOUS
<1>1. PICK U \in C : \A V \in C : V \subseteq U => V = U
  <2>1. C \in SUBSET FiniteSubsetsOf(Nat)
    OBVIOUS
  <2>. HIDE DEF C
  <2>. QED
    BY <2>1, MinimalSet
<1>2. U \in SUBSET A /\ U \in SUBSET B /\ U \subseteq T
  OBVIOUS
<1>3. /\ f[U] = IF U = {} THEN 0 ELSE s[Pick(U)] * p[Pick(U)] + f[U \ {Pick(U)}]
      /\ g[U] = IF U = {} THEN 0 ELSE s2[Pick(U)] * p2[Pick(U)] + g[U \ {Pick(U)}]
  BY <1>2 DEF IsDot
<1>4. U # {}
  BY <1>3
<1>5. U \ {Pick(U)} \in FiniteSubsetsOf(Nat) /\ U \ {Pick(U)} # U
  BY <1>4, Picked, FS_RemoveElement DEF FiniteSubsetsOf
<1>6. f[U \ {Pick(U)}] = g[U \ {Pick(U)}]
  BY <1>1, <1>2, <1>5
<1>7. s[Pick(U)] * p[Pick(U)] = s2[Pick(U)] * p2[Pick(U)]
  BY <1>2, <1>4, Picked
<1>. QED
  BY <1>3, <1>6, <1>7

(* ... there is one for every finite set ...                               *)
LEMMA DotExists ==
  ASSUME NEW s, NEW p, NEW S \in FiniteSubsetsOf(Nat)
  PROVE  \E f : IsDot(f, s, p, S)
<1>. DEFINE C == {U \in FiniteSubsetsOf(Nat) : ~(\E f : IsDot(f, s, p, U))}
<1>. SUFFICES ASSUME C # {} PROVE FALSE
  OBVIOUS
<1>1. PICK T \in C : \A V \in C : V \subseteq T => V = T
  <2>1. C \in SUBSET FiniteSubsetsOf(Nat)
    OBVIOUS
  <2>. HIDE DEF C
  <2>. QED
    BY <2>1, MinimalSet
<1>2. \A V \in FiniteSubsetsOf(Nat) : V \subseteq T /\ V # T => \E f : IsDot(f, s, p, V)
  BY <1>1
<1>3. \A V \in SUBSET T : V \in FiniteSubsetsOf(Nat)
  BY FS_Subset DEF FiniteSubsetsOf
<1>. DEFINE F(V) == CHOOSE f : IsDot(f, s, p, V)
            h == [V \in SUBSET T |->
                    IF V = {} THEN 0 ELSE s[Pick(V)] * p[Pick(V)] + Dot(s, p, V \ {Pick(V)})]
<1>4. ASSUME NEW V \in SUBSET T, V # T PROVE h[V] = Dot(s, p, V)
  <2>1. IsDot(F(V), s, p, V)
    BY <1>2, <1>3, <1>4
  <2>2. Dot(s, p, V) = F(V)[V]
    BY DEF Dot
  <2>. HIDE DEF F
  <2>3. F(V)[V] = IF V = {} THEN 0 ELSE s[Pick(V)] * p[Pick(V)] + F(V)[V \ {Pick(V)}]
    BY <2>1 DEF IsDot
  <2>4. CASE V = {}
    BY <2>2, <2>3, <2>4
  <2>5. CASE V # {}
    <3>. DEFINE W == V \ {Pick(V)}
    <3>1. W \in SUBSET T /\ W # T
      BY <1>4
    <3>2. IsDot(F(W), s, p, W)
      BY <1>2, <1>3, <3>1 DEF F
    <3>3. F(V)[W] = F(W)[W]
      <4>1. W \in FiniteSubsetsOf(Nat) /\ W \subseteq V
        BY <1>3, <3>1
      <4>. HIDE DEF W
      <4>. QED
        BY <2>1, <3>2, <4>1, DotAgrees
    <3>4. Dot(s, p, W) = F(W)[W]
      BY DEF Dot, F
    <3>. QED
      BY <2>2, <2>3, <2>5, <3>3, <3>4
  <2>. QED
    BY <2>4, <2>5
<1>5. \A V \in SUBSET T : V # {} => h[V \ {Pick(V)}] = Dot(s, p, V \ {Pick(V)})
  <2>. SUFFICES ASSUME NEW V \in SUBSET T, V # {}
                PROVE  V \ {Pick(V)} \in SUBSET T /\ V \ {Pick(V)} # T
    BY <1>4
  <2>. QED
    BY Picked
<1>6. IsDot(h, s, p, T)
  BY <1>5 DEF IsDot
<1>. QED
  BY <1>1, <1>6

(* ... the first product chosen is added to the rest ...                   *)
LEMMA DotUnfolds ==
  ASSUME NEW s, NEW p, NEW S \in FiniteSubsetsOf(Nat)
  PROVE  Dot(s, p, S) = IF S = {} THEN 0 ELSE s[Pick(S)] * p[Pick(S)] + Dot(s, p, S \ {Pick(S)})
<1>. DEFINE F(V) == CHOOSE f : IsDot(f, s, p, V)  W == S \ {Pick(S)}
<1>1. \A V \in FiniteSubsetsOf(Nat) : IsDot(F(V), s, p, V)
  BY DotExists
<1>2. \A V : Dot(s, p, V) = F(V)[V]
  BY DEF Dot
<1>. HIDE DEF F
<1>3. F(S)[S] = IF S = {} THEN 0 ELSE s[Pick(S)] * p[Pick(S)] + F(S)[S \ {Pick(S)}]
  BY <1>1 DEF IsDot
<1>4. W \in FiniteSubsetsOf(Nat) /\ W \subseteq S
  BY FS_Subset DEF FiniteSubsetsOf
<1>. HIDE DEF W
<1>5. F(S)[W] = F(W)[W]
  BY <1>1, <1>4, DotAgrees
<1>. QED
  BY <1>2, <1>3, <1>5 DEF W

(* ... so that changing other entries leaves it alone ...                  *)
LEMMA DotSame ==
  ASSUME NEW s, NEW p, NEW s2, NEW p2, NEW S \in FiniteSubsetsOf(Nat),
         \A k \in S : s[k] * p[k] = s2[k] * p2[k]
  PROVE  Dot(s, p, S) = Dot(s2, p2, S)
<1>. DEFINE F == CHOOSE f : IsDot(f, s, p, S)  G == CHOOSE f : IsDot(f, s2, p2, S)
<1>1. IsDot(F, s, p, S) /\ IsDot(G, s2, p2, S)
  BY DotExists
<1>2. Dot(s, p, S) = F[S] /\ Dot(s2, p2, S) = G[S]
  BY DEF Dot
<1>. HIDE DEF F, G
<1>. QED
  BY <1>1, <1>2, DotAgrees

(* ... it is a number ...                                                  *)
LEMMA DotInteger ==
  ASSUME NEW s, NEW p, NEW S \in FiniteSubsetsOf(Nat), \A k \in S : s[k] * p[k] \in Int
  PROVE  Dot(s, p, S) \in Int
<1>. DEFINE C == {U \in FiniteSubsetsOf(Nat) : U \subseteq S /\ Dot(s, p, U) \notin Int}
<1>. SUFFICES ASSUME C # {} PROVE FALSE
  OBVIOUS
<1>1. PICK T \in C : \A V \in C : V \subseteq T => V = T
  <2>1. C \in SUBSET FiniteSubsetsOf(Nat)
    OBVIOUS
  <2>. HIDE DEF C
  <2>. QED
    BY <2>1, MinimalSet
<1>2. T # {}
  BY DotUnfolds
<1>3. T \ {Pick(T)} \in FiniteSubsetsOf(Nat) /\ T \ {Pick(T)} # T /\ Pick(T) \in S
  BY <1>2, Picked, FS_RemoveElement DEF FiniteSubsetsOf
<1>4. Dot(s, p, T \ {Pick(T)}) \in Int
  BY <1>1, <1>3
<1>5. Dot(s, p, T) = s[Pick(T)] * p[Pick(T)] + Dot(s, p, T \ {Pick(T)})
  BY <1>2, DotUnfolds
<1>. QED
  BY <1>3, <1>4, <1>5

(* ... and the order does not matter.                                      *)
LEMMA DotSplits ==
  ASSUME NEW s, NEW p, NEW S \in FiniteSubsetsOf(Nat), \A k \in S : s[k] * p[k] \in Int,
         NEW x \in S
  PROVE  Dot(s, p, S) = s[x] * p[x] + Dot(s, p, S \ {x})
<1>. DEFINE Splits(U) == \A y \in U : Dot(s, p, U) = s[y] * p[y] + Dot(s, p, U \ {y})
            C == {U \in FiniteSubsetsOf(Nat) : U \subseteq S /\ ~Splits(U)}
<1>. SUFFICES ASSUME C # {} PROVE FALSE
  OBVIOUS
<1>1. PICK T \in C : \A V \in C : V \subseteq T => V = T
  <2>1. C \in SUBSET FiniteSubsetsOf(Nat)
    OBVIOUS
  <2>. HIDE DEF C
  <2>. QED
    BY <2>1, MinimalSet
<1>2. PICK y \in T : Dot(s, p, T) # s[y] * p[y] + Dot(s, p, T \ {y})
  OBVIOUS
<1>. DEFINE c == Pick(T)  rest == Dot(s, p, (T \ {c}) \ {y})
<1>3. c \in T /\ c \in S /\ y \in S
  BY Picked
<1>4. /\ T \ {c} \in FiniteSubsetsOf(Nat) /\ T \ {y} \in FiniteSubsetsOf(Nat)
      /\ (T \ {c}) \ {y} \in FiniteSubsetsOf(Nat)
  BY FS_Subset DEF FiniteSubsetsOf
<1>5. Dot(s, p, T) = s[c] * p[c] + Dot(s, p, T \ {c})
  BY DotUnfolds
<1>6. c # y
  BY <1>2, <1>5
<1>7. Splits(T \ {c}) /\ Splits(T \ {y})
  BY <1>1, <1>3, <1>4
<1>8. Dot(s, p, T \ {c}) = s[y] * p[y] + rest
  BY <1>6, <1>7
<1>9. Dot(s, p, T \ {y}) = s[c] * p[c] + rest
  <2>1. (T \ {y}) \ {c} = (T \ {c}) \ {y}
    OBVIOUS
  <2>. QED
    BY <1>3, <1>6, <1>7, <2>1
<1>10. rest \in Int /\ s[c] * p[c] \in Int /\ s[y] * p[y] \in Int
  BY <1>3, <1>4, DotInteger
<1>. HIDE DEF rest, c
<1>. QED
  BY <1>2, <1>5, <1>8, <1>9, <1>10

-----------------------------------------------------------------------------
(* Remainders *)

(* Remainders modulo the order.                                            *)
LEMMA Reduced == \A x \in Int : \E q \in Int : x % Order = x - Order * q
<1>. SUFFICES ASSUME NEW x \in Int PROVE \E q \in Int : x % Order = x - Order * q
  OBVIOUS
<1>. DEFINE q == x \div Order
<1>1. x = Order * q + (x % Order) /\ q \in Int /\ x % Order \in Int
  BY OrderAssumption
<1>. HIDE DEF q
<1>2. Order * q \in Int
  BY <1>1, OrderAssumption
<1>3. x % Order = x - Order * q
  BY <1>1, <1>2
<1>. QED
  BY <1>1, <1>3

(* Reduced to zero are the multiples of the order only.                    *)
LEMMA Congruent ==
  ASSUME NEW x \in Int
  PROVE  x % Order = 0 <=> \E q \in Int : x = Order * q
<1>1. ASSUME NEW q \in Int, x = Order * q PROVE x % Order = 0
  BY <1>1, Multiple
<1>2. x = Order * (x \div Order) + (x % Order) /\ x \div Order \in Int
  BY OrderAssumption
<1>3. ASSUME x % Order = 0 PROVE x = Order * (x \div Order)
  BY <1>2, <1>3, OrderAssumption
<1>. QED
  BY <1>1, <1>2, <1>3

(* A sum stays a multiple of the order when a multiple is added.           *)
LEMMA Shifted ==
  ASSUME NEW x \in Int, NEW y \in Int, y % Order = 0
  PROVE  (x + y) % Order = 0 <=> x % Order = 0
<1>1. PICK q \in Int : y = Order * q
  BY Congruent
<1>2. ASSUME NEW k \in Int, x = Order * k PROVE x + y = Order * (k + q)
  BY <1>1, <1>2, OrderAssumption
<1>3. ASSUME NEW k \in Int, x + y = Order * k PROVE x = Order * (k - q)
  <2>1. x = Order * k - Order * q
    BY <1>1, <1>3, OrderAssumption
  <2>. QED
    BY <2>1, OrderAssumption
<1>4. \A k \in Int : k + q \in Int /\ k - q \in Int
  OBVIOUS
<1>. QED
  BY <1>2, <1>3, <1>4, Congruent

(* The least number of a nonempty set.                                     *)
LEMMA Least ==
  ASSUME NEW S \in SUBSET Nat, S # {}
  PROVE  \E x \in S : \A y \in S : x <= y
<1>. DEFINE C == {1..x : x \in S}
<1>1. \A x \in S : 1..x \in FiniteSubsetsOf(Nat)
  BY FS_Interval DEF FiniteSubsetsOf
<1>2. C \in SUBSET FiniteSubsetsOf(Nat) /\ C # {}
  BY <1>1
<1>3. PICK T \in C : \A U \in C : U \subseteq T => U = T
  <2>. HIDE DEF C
  <2>. QED
    BY <1>2, MinimalSet
<1>4. PICK x \in S : T = 1..x
  OBVIOUS
<1>5. ASSUME NEW y \in S, ~(x <= y) PROVE FALSE
  <2>1. 1..y \in C /\ 1..y \subseteq T /\ x \in T /\ x \notin 1..y
    BY <1>4, <1>5
  <2>. QED
    BY <1>3, <2>1
<1>. QED
  BY <1>5

(* Euclid's lemma: a scalar other than zero cancels.                       *)
LEMMA Cancels ==
  ASSUME NEW b \in 1..(Order - 1), NEW x \in Int, (b * x) % Order = 0
  PROVE  x % Order = 0
<1>. DEFINE S == {y \in 1..Order : (b * y) % Order = 0}
<1>0. Order \in Nat /\ Order > 2 /\ b \in Nat
  BY OrderAssumption
<1>1. Order \in S
  <2>1. b * Order = Order * b
    BY <1>0
  <2>. QED
    BY <1>0, <2>1, Multiple
<1>2. PICK d \in S : \A y \in S : d <= y
  <2>1. S \in SUBSET Nat
    BY <1>0
  <2>. HIDE DEF S
  <2>. QED
    BY <1>1, <2>1, Least
<1>3. d \in Nat /\ d >= 1 /\ d <= Order /\ (b * d) % Order = 0
  BY <1>0, <1>2
<1>4. ASSUME NEW z \in Int, (b * z) % Order = 0 PROVE z % d = 0
  <2>. DEFINE q == z \div d  r == z % d
  <2>1. q \in Int /\ r \in 0..(d - 1) /\ z = d * q + r
    BY <1>3
  <2>. HIDE DEF q, r
  <2>2. PICK k \in Int : b * z = Order * k
    <3>1. b * z \in Int
      BY <1>0
    <3>. QED
      BY <1>4, <3>1, Congruent
  <2>3. PICK l \in Int : b * d = Order * l
    BY <1>0, <1>3, Congruent
  <2>4. b * r = Order * (k - l * q)
    <3>1. b * z = b * d * q + b * r
      BY <1>0, <1>3, <2>1
    <3>2. b * d * q = Order * (l * q)
      BY <1>0, <2>1, <2>3
    <3>3. b * r = Order * k - Order * (l * q)
      <4>1. b * z = b * r + Order * (l * q)
        BY <3>1, <3>2, <1>0, <1>3, <2>1, <2>3
      <4>2. b * r \in Int /\ Order * (l * q) \in Int /\ Order * k \in Int
        BY <1>0, <1>3, <2>1
      <4>. QED
        BY <2>2, <4>1, <4>2
    <3>. DEFINE m == l * q
    <3>4. m \in Int
      BY <2>1
    <3>. HIDE DEF m
    <3>5. Order * (k - m) = Order * k - Order * m
      BY <1>0, <3>4
    <3>. QED
      BY <3>3, <3>5 DEF m
  <2>5. (b * r) % Order = 0
    BY <1>0, <2>1, <2>2, <2>3, <2>4, Multiple
  <2>6. ~(r \in S)
    BY <1>2, <1>3, <2>1
  <2>. QED
    BY <1>0, <1>3, <2>1, <2>5, <2>6 DEF r
<1>5. d = Order
  <2>1. Order % d = 0
    BY <1>0, <1>1, <1>4
  <2>2. d # 1
    <3>1. b * 1 = b /\ b % Order = b
      BY <1>0
    <3>. QED
      BY <1>3, <3>1
  <2>3. d # Order => d \in 2..(Order - 1)
    BY <1>0, <1>3, <2>2
  <2>. QED
    BY <2>1, <2>3, OrderAssumption
<1>. QED
  BY <1>4, <1>5

(* What the sum comes to when an input is stored: g and d are what the      *)
(* generator's scalar and the earlier entries contribute.                  *)
StoredSum(a, e, s, r, pk, g, d) ==
  ((g + a * s) % Order) + (negate(a) * r + (negate((a * e) % Order) * pk + d))

(* What an input adds to the sum: its coefficient times what is left of    *)
(* its own equation, and multiples of the order.                           *)
LEMMA Added ==
  ASSUME NEW a \in 1..(Order - 1), NEW e \in Scalars, NEW s \in Nat, NEW r \in Nat,
         NEW pk \in Nat, NEW g \in Int, NEW d \in Int
  PROVE  \E q \in Int :
           StoredSum(a, e, s, r, pk, g, d) = ((g + d) + a * (s - e * pk - r)) + Order * q
<1>0. Order \in Nat /\ Order > 2 /\ a \in Nat /\ e \in Nat
  BY OrderAssumption DEF Scalars
<1>1. PICK q1 \in Int : (g + a * s) % Order = (g + a * s) - Order * q1
  <2>. DEFINE y == g + a * s
  <2>1. y \in Int
    BY <1>0
  <2>. HIDE DEF y
  <2>2. \E q1 \in Int : y % Order = y - Order * q1
    BY <2>1, Reduced
  <2>. QED
    BY <2>2 DEF y
<1>2. PICK q2 \in Int : (a * e) % Order = a * e - Order * q2
  <2>1. a * e \in Int
    BY <1>0
  <2>. QED
    BY <2>1, Reduced
<1>3. PICK q3 \in Int : negate((a * e) % Order) = (Order - ((a * e) % Order)) - Order * q3
  <2>1. Order - ((a * e) % Order) \in Int
    BY <1>0, <1>2
  <2>. QED
    BY <2>1, Reduced DEF negate
<1>4. negate(a) = Order - a
  BY <1>0 DEF negate
<1>5. negate(a) * r = Order * r - a * r
  BY <1>0, <1>4
<1>6. negate((a * e) % Order) = Order * (1 + q2 - q3) - a * e
  <2>1. Order * (1 + q2 - q3) = (Order + Order * q2) - Order * q3
    BY <1>0
  <2>2. a * e \in Int /\ Order * q2 \in Int /\ Order * q3 \in Int
    BY <1>0
  <2>. QED
    BY <1>0, <1>2, <1>3, <2>1, <2>2
<1>7. negate((a * e) % Order) * pk = Order * ((1 + q2 - q3) * pk) - a * (e * pk)
  <2>. DEFINE u == 1 + q2 - q3
  <2>1. u \in Int
    OBVIOUS
  <2>. HIDE DEF u
  <2>2. (Order * u - a * e) * pk = Order * (u * pk) - a * (e * pk)
    BY <1>0, <2>1
  <2>. QED
    BY <1>6, <2>2 DEF u
<1>8. a * (s - e * pk - r) = a * s - a * (e * pk) - a * r
  <2>. DEFINE w == e * pk
  <2>1. w \in Int
    BY <1>0
  <2>. HIDE DEF w
  <2>2. a * (s - w - r) = a * s - a * w - a * r
    BY <1>0, <2>1
  <2>. QED
    BY <2>2 DEF w
<1>. DEFINE u == (1 + q2 - q3) * pk  q == r + u - q1
<1>9. u \in Int /\ q \in Int
  OBVIOUS
<1>10. Order * q = Order * r + Order * u - Order * q1
  <2>. HIDE DEF u
  <2>. QED
    BY <1>0, <1>9
<1>11. /\ a * s \in Int /\ a * (e * pk) \in Int /\ a * r \in Int
       /\ Order * r \in Int /\ Order * u \in Int /\ Order * q1 \in Int
  BY <1>0, <1>9
<1>. HIDE DEF u, q
<1>12. StoredSum(a, e, s, r, pk, g, d)
         = ((g + a * s) - Order * q1) + ((Order * r - a * r) + ((Order * u - a * (e * pk)) + d))
  BY <1>1, <1>5, <1>7 DEF u, StoredSum
<1>13. @ = ((g + d) + (a * s - a * (e * pk) - a * r)) + (Order * r + Order * u - Order * q1)
  BY <1>11
<1>. QED
  BY <1>8, <1>9, <1>10, <1>12, <1>13

-----------------------------------------------------------------------------
(* Every step keeps the invariant *)

(* No context, no block, no batch.                                         *)
LEMMA Initially == Init => IInv
BY OrderAssumption DEF Init, IInv, TypeOK, Owned, Looping, NothingLeftOver, Scalars, n, Blocks

(* The context's buffers and the batch are those of before.                *)
LEMMA KeepsTypes ==
  ASSUME TypeOK, UNCHANGED <<ctx, g_scalar, scalars, points, batch>>,
         pc' \in {"idle", "create", "create_check", "loop", "aborted"}, heap' \subseteq Blocks,
         i' \in 0..n, verdict' \in {-1, 0, 1}
  PROVE  TypeOK'
BY DEF TypeOK, n

(* Each failing allocation gives back what came before it.                 *)
LEMMA CreateStep ==
  ASSUME IInv, CreateRefused \/ CreateContext \/ CreateBuffers \/ ScratchAborts
                 \/ CreateReturns \/ Destroy
  PROVE  IInv'
<1>1. CASE CreateRefused
  BY <1>1 DEF CreateRefused, vars, IInv, TypeOK, Owned, Looping, NothingLeftOver, Whole, n,
              CapacityAccepted
<1>2. CASE CreateContext
  <2>1. PICK c \in Capacities :
          /\ CapacityAccepted(c) /\ ctx' = c
          /\ scalars' = [k \in 0..(2 * c - 1) |-> 0] /\ points' = [k \in 0..(2 * c - 1) |-> 0]
    BY <1>2 DEF CreateContext
  <2>2. /\ heap' = {"ctx"} /\ g_scalar' = 0 /\ pc' = "create" /\ pc = "idle"
        /\ UNCHANGED <<batch, i, verdict>>
    BY <1>2 DEF CreateContext
  <2>3. 0 \in Scalars /\ 0 \in XCoords
    BY OrderAssumption DEF Scalars, XCoords
  <2>4. TypeOK'
    BY <2>1, <2>2, <2>3 DEF IInv, TypeOK, Blocks, n
  <2>5. c # 0
    BY <2>1 DEF CapacityAccepted
  <2>. QED
    BY <2>1, <2>2, <2>4, <2>5 DEF IInv, Owned, Looping, NothingLeftOver, CapacityAccepted
<1>3. CASE CreateBuffers
  <2>1. /\ pc = "create" /\ pc' = "create_check" /\ scratch_size' = ScratchSize(ctx)
        /\ "ctx" \in heap' /\ heap' \subseteq Blocks
        /\ UNCHANGED <<ctx, g_scalar, scalars, points, batch, coefficients, i, verdict>>
    BY <1>3 DEF CreateBuffers, IInv, Owned, Blocks
  <2>2. ctx \in Nat /\ ctx # 0 /\ CapacityAccepted(ctx)
    BY <2>1, SizesNatural DEF IInv, TypeOK, Owned
  <2>3. TypeOK'
    BY <2>1, KeepsTypes DEF IInv, TypeOK
  <2>. QED
    BY <2>1, <2>2, <2>3, ScratchFits DEF IInv, Owned, Looping, NothingLeftOver
<1>4. CASE CreateReturns
  <2>1. /\ pc = "create_check" /\ pc' = "idle"
        /\ UNCHANGED <<scratch_size, g_scalar, scalars, points, batch, coefficients, i, verdict>>
    BY <1>4 DEF CreateReturns
  <2>2. CASE {"scalars", "points", "scratch"} \subseteq heap
    <3>1. UNCHANGED <<heap, ctx>> /\ heap = Blocks
      BY <1>4, <2>1, <2>2 DEF CreateReturns, IInv, Owned, Blocks
    <3>2. TypeOK'
      BY <2>1, <3>1, KeepsTypes DEF IInv, TypeOK
    <3>. QED
      BY <2>1, <3>1, <3>2 DEF IInv, Owned, Whole, Looping, NothingLeftOver
  <2>3. CASE ~({"scalars", "points", "scratch"} \subseteq heap)
    <3>1. heap' = {} /\ ctx' = 0
      BY <1>4, <2>1, <2>3 DEF CreateReturns, Destroyed, IInv, Owned, Blocks
    <3>. QED
      BY <2>1, <3>1 DEF IInv, TypeOK, Owned, Looping, NothingLeftOver, n
  <2>. QED
    BY <2>2, <2>3
<1>5. CASE Destroy
  <2>1. /\ pc = "idle" /\ heap = Blocks
        /\ heap' = Destroyed(heap) /\ ctx' = 0
        /\ UNCHANGED <<pc, scratch_size, g_scalar, scalars, points, batch, coefficients, i,
                       verdict>>
    BY <1>5 DEF Destroy, IInv, Owned, Whole
  <2>2. heap' = {}
    BY <2>1 DEF Destroyed, Blocks
  <2>. QED
    BY <2>1, <2>2 DEF IInv, TypeOK, Owned, Looping, NothingLeftOver, n
<1>6. CASE ScratchAborts
  <2>1. TypeOK'
    BY <1>6, KeepsTypes DEF ScratchAborts, IInv, TypeOK
  <2>. QED
    BY <1>6, <2>1 DEF ScratchAborts, IInv, Owned, Looping, NothingLeftOver
<1>. QED
  BY <1>1, <1>2, <1>3, <1>4, <1>5, <1>6

(* Verification starts on a context that is whole, or is refused.          *)
LEMMA VerifyStep ==
  ASSUME IInv, NEW b \in Batches, VerifyRefused(b) \/ VerifyStarts(b)
  PROVE  IInv'
<1>1. /\ pc = "idle" /\ batch' = b /\ UNCHANGED <<heap, ctx, scratch_size, scalars, points>>
      /\ i = 0
  BY DEF VerifyRefused, VerifyStarts, IInv, Looping
<1>2. Len(b) \in Nat
  BY BatchAssumption
<1>3. CASE VerifyRefused(b)
  <2>1. pc' = pc /\ i' = i /\ verdict' = 0 /\ g_scalar' = g_scalar
    BY <1>3 DEF VerifyRefused
  <2>. QED
    BY <1>1, <1>2, <2>1 DEF IInv, TypeOK, Owned, Whole, Looping, NothingLeftOver, n
<1>4. CASE VerifyStarts(b)
  <2>1. /\ pc' = "loop" /\ i' = 0 /\ verdict' = verdict /\ g_scalar' = 0 /\ ctx # 0
        /\ Len(b) \in 1..ctx /\ coefficients' \in [1..(Len(b) - 1) -> Scalars]
    BY <1>4 DEF VerifyStarts
  <2>2. 0 \in Scalars
    BY OrderAssumption DEF Scalars
  <2>3. TypeOK'
    BY <1>1, <1>2, <2>1, <2>2 DEF IInv, TypeOK, n
  <2>4. Owned'
    BY <1>1, <2>1 DEF IInv, Owned, Whole
  <2>5. Looping' /\ NothingLeftOver'
    BY <1>1, <2>1 DEF Looping, NothingLeftOver, n
  <2>. QED
    BY <2>3, <2>4, <2>5 DEF IInv
<1>. QED
  BY <1>3, <1>4

(* All ways out of the loop keep  the context for the next batch.          *)
LEMMA ReturnStep == ASSUME IInv, ParseFails \/ VerifyReturns \/ SumFails PROVE IInv'
<1>1. /\ pc = "loop" /\ pc' = "idle" /\ i' = 0 /\ verdict' \in {0, 1}
      /\ UNCHANGED <<heap, ctx, scratch_size, g_scalar, scalars, points, batch, coefficients>>
  BY DEF ParseFails, VerifyReturns, SumFails
<1>2. TypeOK'
  <2>1. n \in Nat
    BY BatchAssumption DEF IInv, TypeOK, n
  <2>. QED
    BY <1>1, <2>1, KeepsTypes DEF IInv, TypeOK
<1>. QED
  BY <1>1, <1>2 DEF IInv, Owned, Whole, Looping, NothingLeftOver

(* What an added input leaves in the context.                              *)
LEMMA AddFacts ==
  ASSUME IInv, AddInput
  PROVE  LET x == batch[i + 1]  a == coefficient(i)  e == Challenge[<<x.r, x.msg, x.pk>>]
         IN  /\ pc = "loop" /\ i \in Nat /\ i < n /\ i' = i + 1 /\ n \in Nat
             /\ UNCHANGED <<pc, heap, ctx, scratch_size, batch, coefficients, verdict>>
             /\ a \in 1..(Order - 1) /\ e \in Scalars /\ Parses(x)
             /\ x.r \in XCoords /\ x.pk \in XCoords /\ x.s \in Nat
             /\ g_scalar' = (g_scalar + a * x.s) % Order
             /\ ctx \in Nat /\ n <= ctx
             /\ points \in [0..(2 * ctx - 1) -> XCoords]
             /\ scalars \in [0..(2 * ctx - 1) -> Scalars]
             /\ points'  = [points EXCEPT ![2 * i] = x.r, ![2 * i + 1] = x.pk]
             /\ scalars' = [scalars EXCEPT ![2 * i] = negate(a),
                                           ![2 * i + 1] = negate((a * e) % Order)]
             /\ points'[2 * i] = x.r /\ points'[2 * i + 1] = x.pk
             /\ scalars'[2 * i] = negate(a) /\ scalars'[2 * i + 1] = negate((a * e) % Order)
<1>. DEFINE x == batch[i + 1]  a == coefficient(i)  e == Challenge[<<x.r, x.msg, x.pk>>]
            na == negate(a)  nae == negate((a * e) % Order)
<1>1. /\ pc = "loop" /\ i < n /\ i' = i + 1 /\ Parses(x)
      /\ g_scalar' = (g_scalar + a * x.s) % Order
      /\ points'  = [points EXCEPT ![2 * i] = x.r, ![2 * i + 1] = x.pk]
      /\ scalars' = [scalars EXCEPT ![2 * i] = na, ![2 * i + 1] = nae]
      /\ UNCHANGED <<pc, heap, ctx, scratch_size, batch, coefficients, verdict>>
  BY DEF AddInput
<1>2. batch \in Seq(Input) /\ n \in Nat /\ i \in Nat
  <2>1. batch \in Batches \cup {<<>>} /\ i \in 0..n
    BY DEF IInv, TypeOK
  <2>2. batch \in Seq(Input)
    <3>1. CASE batch \in Batches
      BY <3>1, BatchAssumption, Zenon
    <3>2. CASE batch = <<>>
      BY <3>2
    <3>. QED
      BY <2>1, <3>1, <3>2
  <2>. QED
    BY <2>1, <2>2 DEF n
<1>3. x \in Input
  BY <1>1, <1>2 DEF n
<1>4. /\ x.r \in XCoords /\ x.pk \in XCoords /\ x.s \in Nat /\ x.msg \in Messages
  BY <1>3, OrderAssumption DEF Input
<1>5. e \in Scalars
  BY <1>4, ChallengeAssumption
<1>6. a \in 1..(Order - 1)
  <2>1. coefficients \in [1..(n - 1) -> Scalars]
    BY <1>1 DEF IInv, Looping
  <2>. QED
    BY <1>1, <1>2, <2>1, OrderAssumption DEF coefficient, Scalars
<1>7. ctx \in Nat /\ ctx # 0 /\ n <= ctx
  BY <1>1, SizesNatural DEF IInv, TypeOK, Owned, Looping
<1>8. /\ scalars \in [0..(2 * ctx - 1) -> Scalars] /\ points \in [0..(2 * ctx - 1) -> XCoords]
      /\ 2 * i \in 0..(2 * ctx - 1) /\ 2 * i + 1 \in 0..(2 * ctx - 1)
  BY <1>1, <1>2, <1>7 DEF IInv, TypeOK
<1>. HIDE DEF x, a, e, na, nae
<1>9. /\ scalars'[2 * i] = na /\ scalars'[2 * i + 1] = nae
      /\ points'[2 * i] = x.r /\ points'[2 * i + 1] = x.pk
  BY <1>1, <1>2, <1>8
<1>. QED
  BY <1>1, <1>2, <1>4, <1>5, <1>6, <1>7, <1>8, <1>9 DEF x, a, e, na, nae

(* An input adds two entries and leaves the earlier ones alone.            *)
LEMMA AddStep == ASSUME IInv, AddInput PROVE IInv'
<1>. DEFINE x == batch[i + 1]  a == coefficient(i)  e == Challenge[<<x.r, x.msg, x.pk>>]
            na == negate(a)  nae == negate((a * e) % Order)
<1>1. /\ pc = "loop" /\ i \in Nat /\ i < n /\ i' = i + 1 /\ n \in Nat
      /\ UNCHANGED <<pc, heap, ctx, scratch_size, batch, coefficients, verdict>>
  BY AddFacts
<1>2. /\ a \in 1..(Order - 1) /\ e \in Scalars
      /\ x.r \in XCoords /\ x.pk \in XCoords /\ x.s \in Nat
      /\ g_scalar' = (g_scalar + a * x.s) % Order
  BY AddFacts
<1>3. /\ ctx \in Nat /\ n <= ctx
      /\ points \in [0..(2 * ctx - 1) -> XCoords] /\ scalars \in [0..(2 * ctx - 1) -> Scalars]
      /\ points'  = [points EXCEPT ![2 * i] = x.r, ![2 * i + 1] = x.pk]
      /\ scalars' = [scalars EXCEPT ![2 * i] = na, ![2 * i + 1] = nae]
      /\ points'[2 * i] = x.r /\ points'[2 * i + 1] = x.pk
      /\ scalars'[2 * i] = na /\ scalars'[2 * i + 1] = nae
  BY AddFacts
<1>4. na # 0 /\ (nae - na * e) % Order = 0
  BY <1>2, Proportion
<1>5. na \in Scalars /\ nae \in Scalars
  <2>1. Order - a \in Int /\ (a * e) % Order \in Int
    BY <1>2, OrderAssumption DEF Scalars
  <2>. QED
    BY <2>1, Remainder, OrderAssumption DEF negate
<1>6. g_scalar' \in Scalars
  <2>1. g_scalar + a * x.s \in Int
    BY <1>2, OrderAssumption DEF IInv, TypeOK, Scalars
  <2>. QED
    BY <1>2, <2>1, Remainder
<1>. HIDE DEF x, a, e, na, nae
<1>7. /\ scalars' \in [0..(2 * ctx - 1) -> Scalars]
       /\ points' \in [0..(2 * ctx - 1) -> XCoords]
  BY <1>2, <1>3, <1>5
<1>8. TypeOK'
  BY <1>1, <1>6, <1>7 DEF IInv, TypeOK, n
<1>9. Owned' /\ Looping'
  BY <1>1 DEF IInv, Owned, Whole, Looping, n
<1>10. NothingLeftOver'
  <2>. SUFFICES ASSUME NEW k \in 1..(i + 1)
       PROVE  /\ points'[2 * k - 2] = batch[k].r /\ points'[2 * k - 1] = batch[k].pk
              /\ scalars'[2 * k - 2] # 0
              /\ (scalars'[2 * k - 1] - scalars'[2 * k - 2]
                    * Challenge[<<batch[k].r, batch[k].msg, batch[k].pk>>]) % Order = 0
    BY <1>1 DEF NothingLeftOver
  <2>1. CASE k = i + 1
    <3>1. 2 * k - 2 = 2 * i /\ 2 * k - 1 = 2 * i + 1
      BY <1>1, <2>1
    <3>. QED
      BY <1>3, <1>4, <2>1, <3>1 DEF x, e
  <2>2. CASE k # i + 1
    <3>1. k \in 1..i
      BY <1>1, <2>2
    <3>2. /\ 2 * k - 2 \in 0..(2 * ctx - 1) /\ 2 * k - 1 \in 0..(2 * ctx - 1)
          /\ 2 * k - 2 \notin {2 * i, 2 * i + 1} /\ 2 * k - 1 \notin {2 * i, 2 * i + 1}
      BY <1>1, <1>3, <3>1
    <3>3. /\ points'[2 * k - 2] = points[2 * k - 2] /\ points'[2 * k - 1] = points[2 * k - 1]
          /\ scalars'[2 * k - 2] = scalars[2 * k - 2] /\ scalars'[2 * k - 1] = scalars[2 * k - 1]
      BY <1>3, <3>2
    <3>. QED
      BY <1>1, <3>1, <3>3 DEF IInv, NothingLeftOver
  <2>. QED
    BY <2>1, <2>2
<1>. QED
  BY <1>8, <1>9, <1>10 DEF IInv

-----------------------------------------------------------------------------
(* What the context owns and what its buffers hold, at each program point. *)
THEOREM Inductive == Spec => []IInv
<1>1. ASSUME IInv, [Next]_vars PROVE IInv'
  <2>1. CASE UNCHANGED vars
    BY <1>1, <2>1 DEF vars, IInv, TypeOK, Owned, Looping, NothingLeftOver, Whole, n,
                      CapacityAccepted
  <2>. QED
    BY <1>1, <2>1, CreateStep, VerifyStep, ReturnStep, AddStep DEF Next
<1>. QED
  BY <1>1, Initially, PTL DEF Spec

(* The context's buffers always have two entries of the group per input.   *)
THEOREM TypeCorrect == Spec => []TypeOK
<1>1. IInv => TypeOK
  BY DEF IInv
<1>. QED
  BY <1>1, Inductive, PTL

(* Nothing is leaked, and no scratch size wraps around.                    *)
THEOREM LeaksNothing == Spec => []NothingLeaks
<1>1. IInv => NothingLeaks
  BY DEF IInv, Owned, Whole, NothingLeaks
<1>. QED
  BY <1>1, Inductive, PTL

(* What the sum reads was stored by the call that reads it.                *)
THEOREM LeavesNothingOver == Spec => []NothingLeftOver
<1>1. IInv => NothingLeftOver
  BY DEF IInv
<1>. QED
  BY <1>1, Inductive, PTL

-----------------------------------------------------------------------------
(* The sum over what the loop has stored so far is zero when every input   *)
(* so far verifies, and whatever its coefficient it is not when all but    *)
(* one do.                                                                 *)
Tallied ==
  pc = "loop" =>
    /\ n # 0
    /\ \A j \in 1..n :
         (\A k \in 1..i : k # j => Verifies(batch[k])) =>
           (ecmult_multi_var(g_scalar, 2 * i) = 0 <=> (j <= i => Verifies(batch[j])))

Rejected == pc # "loop" /\ verdict = 1 => Cardinality(Bad) # 1

(* A parsing input verifies when its equation leaves nothing.              *)
LEMMA VerifiesWhen ==
  ASSUME NEW x, Parses(x), x.r \in XCoords, x.pk \in XCoords, x.s \in Nat,
         Challenge[<<x.r, x.msg, x.pk>>] \in Scalars
  PROVE  Verifies(x) <=> (x.s - Challenge[<<x.r, x.msg, x.pk>>] * x.pk - x.r) % Order = 0
<1>. DEFINE e == Challenge[<<x.r, x.msg, x.pk>>]  y == x.s - e * x.pk
<1>1. x.r \in Nat /\ x.r < Order /\ x.pk \in Nat /\ e \in Nat
  BY OrderAssumption DEF XCoords, Scalars
<1>2. y \in Int
  BY <1>1
<1>. HIDE DEF e
<1>3. Verifies(x) <=> y % Order = x.r
  BY DEF Verifies, e
<1>. HIDE DEF y
<1>4. y % Order = x.r <=> (y - x.r) % Order = 0
  BY <1>1, <1>2, OrderAssumption
<1>. QED
  BY <1>3, <1>4 DEF y, e

(* The sum before and after an input, up to multiples of the order.        *)
LEMMA AddSum ==
  ASSUME IInv, AddInput
  PROVE  LET x == batch[i + 1]  a == coefficient(i)  e == Challenge[<<x.r, x.msg, x.pk>>]
             left == x.s - e * x.pk - x.r
         IN  \E t \in Int : /\ ecmult_multi_var(g_scalar, 2 * i) = t % Order
                            /\ ecmult_multi_var(g_scalar, 2 * i)' = 0
                                 <=> (t + a * left) % Order = 0
<1>. DEFINE x == batch[i + 1]  a == coefficient(i)  e == Challenge[<<x.r, x.msg, x.pk>>]
            left == x.s - e * x.pk - x.r
            K == 0..(2 * i - 1)  K2 == 0..(2 * i + 1)
            before == Dot(scalars, points, K)  after == Dot(scalars', points', K2)
            t == g_scalar + before
<1>1. /\ i \in Nat /\ i < n /\ n \in Nat /\ a \in 1..(Order - 1) /\ e \in Scalars
      /\ x.r \in XCoords /\ x.pk \in XCoords /\ x.s \in Nat
      /\ g_scalar' = (g_scalar + a * x.s) % Order /\ i' = i + 1
      /\ ctx \in Nat /\ n <= ctx
      /\ points'[2 * i] = x.r /\ points'[2 * i + 1] = x.pk
      /\ scalars'[2 * i] = negate(a) /\ scalars'[2 * i + 1] = negate((a * e) % Order)
  BY AddFacts
<1>2. /\ points \in [0..(2 * ctx - 1) -> XCoords] /\ scalars \in [0..(2 * ctx - 1) -> Scalars]
      /\ points'  = [points EXCEPT ![2 * i] = x.r, ![2 * i + 1] = x.pk]
      /\ scalars' = [scalars EXCEPT ![2 * i] = negate(a), ![2 * i + 1] = negate((a * e) % Order)]
  BY AddFacts
<1>3. /\ ecmult_multi_var(g_scalar, 2 * i) = t % Order
      /\ ecmult_multi_var(g_scalar, 2 * i)' = (g_scalar' + after) % Order
  <2>1. ecmult_multi_var(g_scalar, 2 * i)
          = (g_scalar + Dot(scalars, points, 0..((2 * i) - 1))) % Order
    BY MultiIsDot
  <2>2. ecmult_multi_var(g_scalar, 2 * i)'
          = (g_scalar' + Dot(scalars', points', 0..((2 * i') - 1))) % Order
    BY DEF ecmult_multi_var, MapThenSumSet, MapThenFoldSet, Dot, IsDot, Pick
  <2>3. 2 * i' - 1 = 2 * i + 1
    BY <1>1
  <2>. QED
    BY <2>1, <2>2, <2>3
<1>4. K \in FiniteSubsetsOf(Nat) /\ K2 \in FiniteSubsetsOf(Nat)
  <2>1. 2 * i - 1 \in Int /\ 2 * i + 1 \in Int /\ 0 \in Int
    BY <1>1
  <2>2. \A y \in Int : IsFiniteSet(0..y)
    BY FS_Interval
  <2>3. \A y \in Int : 0..y \in SUBSET Nat
    OBVIOUS
  <2>. QED
    BY <2>1, <2>2, <2>3 DEF FiniteSubsetsOf
<1>5. /\ x.r \in Nat /\ x.pk \in Nat /\ e \in Nat /\ a \in Nat /\ Order \in Nat
      /\ g_scalar \in Int
  BY <1>1, OrderAssumption DEF XCoords, Scalars, IInv, TypeOK
<1>6. negate(a) \in Int /\ negate((a * e) % Order) \in Int
  <2>1. Order - a \in Int /\ (a * e) % Order \in Int
    BY <1>5, OrderAssumption
  <2>. QED
    BY <1>5, <2>1, OrderAssumption DEF negate
<1>. HIDE DEF x, a, e
<1>7. ASSUME NEW k \in K
      PROVE  /\ scalars'[k] = scalars[k] /\ points'[k] = points[k]
             /\ scalars[k] \in Nat /\ points[k] \in Nat
  <2>1. k \in 0..(2 * ctx - 1) /\ k \notin {2 * i, 2 * i + 1}
    BY <1>1
  <2>2. scalars'[k] = scalars[k] /\ points'[k] = points[k]
    BY <1>2, <2>1
  <2>3. scalars[k] \in Scalars /\ points[k] \in XCoords
    BY <1>2, <2>1
  <2>. QED
    BY <2>2, <2>3, OrderAssumption DEF Scalars, XCoords
<1>8. /\ before = Dot(scalars', points', K) /\ before \in Int
  <2>1. \A k \in K : /\ scalars[k] * points[k] = scalars'[k] * points'[k]
                     /\ scalars[k] * points[k] \in Int
    BY <1>7
  <2>. HIDE DEF K
  <2>. QED
    BY <1>4, <2>1, DotSame, DotInteger
<1>9. \A k \in K2 : scalars'[k] * points'[k] \in Int
  <2>. SUFFICES ASSUME NEW k \in K2 PROVE scalars'[k] * points'[k] \in Int
    OBVIOUS
  <2>1. k \in K \/ k = 2 * i \/ k = 2 * i + 1
    BY <1>1
  <2>2. k \in K => scalars'[k] \in Int /\ points'[k] \in Int
    BY <1>7
  <2>. HIDE DEF K
  <2>3. scalars'[k] \in Int /\ points'[k] \in Int
    BY <1>1, <1>5, <1>6, <2>1, <2>2
  <2>. QED
    BY <2>3
<1>10. after = negate(a) * x.r + (negate((a * e) % Order) * x.pk + before)
  <2>1. /\ 2 * i \in K2 /\ K2 \ {2 * i} = K \cup {2 * i + 1}
        /\ 2 * i + 1 \in K \cup {2 * i + 1} /\ (K \cup {2 * i + 1}) \ {2 * i + 1} = K
        /\ K \cup {2 * i + 1} \subseteq K2
    BY <1>1
  <2>2. K \cup {2 * i + 1} \in FiniteSubsetsOf(Nat)
    BY <1>4, <2>1, FS_Subset DEF FiniteSubsetsOf
  <2>. HIDE DEF K, K2
  <2>3. after = scalars'[2 * i] * points'[2 * i] + Dot(scalars', points', K \cup {2 * i + 1})
    BY <1>4, <1>9, <2>1, DotSplits
  <2>4. Dot(scalars', points', K \cup {2 * i + 1})
          = scalars'[2 * i + 1] * points'[2 * i + 1] + Dot(scalars', points', K)
    BY <1>9, <2>1, <2>2, DotSplits
  <2>. QED
    BY <1>1, <1>8, <2>3, <2>4
<1>. HIDE DEF before, after, K, K2
<1>11. PICK q \in Int : g_scalar' + after = (t + a * left) + Order * q
  <2>1. /\ x.s \in Nat /\ x.r \in Nat /\ x.pk \in Nat /\ g_scalar \in Int /\ before \in Int
        /\ a \in 1..(Order - 1) /\ e \in Scalars
    BY <1>1, <1>5, <1>8
  <2>2. \E q \in Int :
          StoredSum(a, e, x.s, x.r, x.pk, g_scalar, before)
          = ((g_scalar + before) + a * (x.s - e * x.pk - x.r)) + Order * q
    BY <2>1, Added
  <2>3. StoredSum(a, e, x.s, x.r, x.pk, g_scalar, before) = g_scalar' + after
    BY <1>1, <1>10 DEF StoredSum
  <2>. QED
    BY <2>2, <2>3
<1>12. t \in Int /\ left \in Int /\ t + a * left \in Int
  BY <1>1, <1>5, <1>8
<1>. HIDE DEF t, left
<1>13. (g_scalar' + after) % Order = 0 <=> (t + a * left) % Order = 0
  <2>1. Order * q \in Int /\ (Order * q) % Order = 0
    BY <1>5, <1>11, Multiple
  <2>. QED
    BY <1>11, <1>12, <2>1, Shifted
<1>. QED
  BY <1>3, <1>12, <1>13 DEF x, a, e, left

(* An input keeps the sum at zero, or moves it off or onto zero.           *)
LEMMA TallyAdd == ASSUME IInv, Tallied, AddInput PROVE Tallied'
<1>. DEFINE x == batch[i + 1]  a == coefficient(i)  e == Challenge[<<x.r, x.msg, x.pk>>]
            left == x.s - e * x.pk - x.r
            sum == ecmult_multi_var(g_scalar, 2 * i)
<1>1. /\ pc = "loop" /\ i \in Nat /\ i < n /\ i' = i + 1 /\ n \in Nat
      /\ a \in 1..(Order - 1) /\ e \in Scalars /\ Parses(x)
      /\ x.r \in XCoords /\ x.pk \in XCoords /\ x.s \in Nat
      /\ pc' = pc /\ batch' = batch
  BY AddFacts
<1>2. Verifies(x) <=> left % Order = 0
  BY <1>1, VerifiesWhen
<1>3. PICK t \in Int : sum = t % Order /\ (sum' = 0 <=> (t + a * left) % Order = 0)
  BY AddSum
<1>4. left \in Int /\ a * left \in Int
  BY <1>1, OrderAssumption DEF XCoords, Scalars
<1>. HIDE DEF x, a, e, left, sum
<1>5. Verifies(x) <=> (a * left) % Order = 0
  <2>1. ASSUME left % Order = 0 PROVE (a * left) % Order = 0
    <3>1. PICK q \in Int : left = Order * q
      BY <1>4, <2>1, Congruent
    <3>2. a * left = Order * (a * q)
      BY <1>1, <3>1, OrderAssumption
    <3>. QED
      BY <1>1, <3>1, <3>2, Multiple
  <2>2. ASSUME (a * left) % Order = 0 PROVE left % Order = 0
    BY <1>1, <1>4, <2>2, Cancels
  <2>. QED
    BY <1>2, <2>1, <2>2
<1>6. n' = n /\ n # 0
  BY <1>1 DEF n, Tallied
<1>7. ASSUME NEW j \in 1..n, \A k \in 1..(i + 1) : k # j => Verifies(batch[k])
      PROVE  sum' = 0 <=> (j <= i + 1 => Verifies(batch[j]))
  <2>1. sum = 0 <=> (j <= i => Verifies(batch[j]))
    BY <1>1, <1>7 DEF Tallied, sum
  <2>2. CASE j = i + 1
    <3>1. sum = 0
      BY <1>1, <2>1, <2>2
    <3>2. (a * left + t) % Order = 0 <=> (a * left) % Order = 0
      BY <1>3, <1>4, <3>1, Shifted
    <3>3. a * left + t = t + a * left
      BY <1>3, <1>4
    <3>. QED
      BY <1>1, <1>3, <1>5, <2>2, <3>2, <3>3 DEF x
  <2>3. CASE j # i + 1
    <3>1. Verifies(x)
      BY <1>1, <1>7, <2>3 DEF x
    <3>2. (t + a * left) % Order = 0 <=> t % Order = 0
      BY <1>3, <1>4, <1>5, <3>1, Shifted
    <3>. QED
      BY <1>1, <1>3, <2>1, <2>3, <3>2
  <2>. QED
    BY <2>2, <2>3
<1>. QED
  BY <1>1, <1>6, <1>7 DEF Tallied, Verifies, Parses, sum

(* So the final sum tells of all signatures but one.                       *)
LEMMA AllVerify ==
  ASSUME IInv, Tallied, VerifyReturns
  PROVE  /\ Bad = {} => verdict' = 1
         /\ Cardinality(Bad) = 1 => verdict' = 0
<1>1. /\ pc = "loop" /\ i = n /\ n \in Nat /\ n # 0 /\ verdict' \in {0, 1}
      /\ verdict' = 1 <=> ecmult_multi_var(g_scalar, 2 * n) = 0
  <2>1. pc = "loop" /\ i = n
    BY DEF VerifyReturns
  <2>2. batch \in Seq(Input) \/ batch = <<>>
    BY BatchAssumption, Zenon DEF IInv, TypeOK
  <2>3. n \in Nat
    BY <2>2 DEF n
  <2>. QED
    BY <2>1, <2>3 DEF VerifyReturns, Tallied
<1>2. \A j \in 1..n : (\A k \in 1..n : k # j => Verifies(batch[k])) =>
                        (ecmult_multi_var(g_scalar, 2 * n) = 0 <=> Verifies(batch[j]))
  BY <1>1 DEF Tallied
<1>3. ASSUME Bad = {} PROVE verdict' = 1
  <2>1. \A k \in 1..n : Verifies(batch[k])
    BY <1>3 DEF Bad
  <2>2. 1 \in 1..n
    BY <1>1
  <2>. QED
    BY <1>1, <1>2, <2>1, <2>2
<1>4. ASSUME Cardinality(Bad) = 1 PROVE verdict' = 0
  <2>1. IsFiniteSet(Bad)
    <3>1. IsFiniteSet(1..n) /\ Bad \subseteq 1..n
      BY <1>1, FS_Interval DEF Bad
    <3>. QED
      BY <3>1, FS_Subset
  <2>2. PICK j : Bad = {j}
    BY <1>4, <2>1, FS_Singleton
  <2>3. j \in 1..n /\ ~Verifies(batch[j]) /\ \A k \in 1..n : k # j => Verifies(batch[k])
    BY <2>2 DEF Bad
  <2>. QED
    BY <1>1, <1>2, <2>3
<1>. QED
  BY <1>3, <1>4

(* Every step keeps the tally.                                             *)
LEMMA TallyStep == ASSUME IInv, Tallied, [Next]_vars PROVE Tallied'
<1>1. CASE AddInput
  BY <1>1, TallyAdd
<1>2. CASE \E b \in Batches : VerifyStarts(b)
  <2>1. PICK b \in Batches : VerifyStarts(b)
    BY <1>2
  <2>2. pc' = "loop" /\ i' = 0 /\ batch' = b /\ g_scalar' = 0 /\ Len(b) \in 1..ctx
    BY <2>1 DEF VerifyStarts
  <2>3. n' # 0
    BY <2>2 DEF n
  <2>4. ecmult_multi_var(g_scalar, 2 * i)' = 0
    <3>1. ecmult_multi_var(g_scalar, 2 * i)'
            = (g_scalar' + Dot(scalars', points', 0..((2 * i') - 1))) % Order
      BY DEF ecmult_multi_var, MapThenSumSet, MapThenFoldSet, Dot, IsDot, Pick
    <3>2. 0..((2 * i') - 1) = {} /\ {} \in FiniteSubsetsOf(Nat)
      BY <2>2, FS_EmptySet DEF FiniteSubsetsOf
    <3>3. Dot(scalars', points', {}) = 0
      BY <3>2, DotUnfolds
    <3>. QED
      BY <2>2, <3>1, <3>2, <3>3, OrderAssumption
  <2>5. \A j \in 1..n' : ~(j <= i')
    BY <2>2
  <2>. QED
    BY <2>3, <2>4, <2>5 DEF Tallied
<1>3. CASE UNCHANGED vars
  <2>1. UNCHANGED <<pc, g_scalar, scalars, points, batch, i>>
    BY <1>3 DEF vars
  <2>2. /\ ecmult_multi_var(g_scalar, 2 * i)'
            = (g_scalar' + Dot(scalars', points', 0..((2 * i') - 1))) % Order
        /\ ecmult_multi_var(g_scalar, 2 * i)
            = (g_scalar + Dot(scalars, points, 0..((2 * i) - 1))) % Order
    BY DEF ecmult_multi_var, MapThenSumSet, MapThenFoldSet, Dot, IsDot, Pick
  <2>3. ecmult_multi_var(g_scalar, 2 * i)' = ecmult_multi_var(g_scalar, 2 * i)
    BY <2>1, <2>2
  <2>. HIDE DEF ecmult_multi_var
  <2>. QED
    BY <2>1, <2>3 DEF Tallied, n, Verifies, Parses
<1>4. CASE ~AddInput /\ ~(\E b \in Batches : VerifyStarts(b)) /\ Next
  <2>1. pc' # "loop"
    BY <1>4 DEF Next, CreateRefused, vars, CreateContext, CreateBuffers, ScratchAborts,
                CreateReturns, Destroy, VerifyRefused, ParseFails, VerifyReturns, SumFails
  <2>. QED
    BY <2>1 DEF Tallied
<1>. QED
  BY <1>1, <1>2, <1>3, <1>4

(* A verdict of 1 stays with its batch until the next one is checked.      *)
LEMMA RejectedStep == ASSUME IInv, Tallied, Rejected, [Next]_vars PROVE Rejected'
<1>1. CASE VerifyReturns
  <2>1. Bad' = Bad
    BY <1>1 DEF VerifyReturns, Bad, n, Verifies, Parses
  <2>. QED
    BY <1>1, <2>1, AllVerify DEF Rejected
<1>2. CASE ParseFails \/ SumFails \/ \E b \in Batches : VerifyRefused(b)
  BY <1>2 DEF ParseFails, SumFails, VerifyRefused, Rejected
<1>3. CASE AddInput \/ \E b \in Batches : VerifyStarts(b)
  BY <1>3 DEF AddInput, VerifyStarts, Rejected
<1>4. CASE CreateRefused \/ CreateContext \/ CreateBuffers \/ ScratchAborts \/ CreateReturns
             \/ Destroy \/ UNCHANGED vars
  <2>1. batch' = batch /\ verdict' = verdict /\ (pc' # "loop" => pc # "loop")
    BY <1>4 DEF CreateRefused, CreateContext, CreateBuffers, ScratchAborts, CreateReturns,
                Destroy, vars
  <2>2. Bad' = Bad
    BY <2>1 DEF Bad, n, Verifies, Parses
  <2>. QED
    BY <2>1, <2>2 DEF Rejected
<1>. QED
  BY <1>1, <1>2, <1>3, <1>4 DEF Next

(* What the verdict says of the batch, at each program point.              *)
THEOREM SumTells == Spec => [](IInv /\ Tallied /\ Rejected)
<1>1. Init => Tallied /\ Rejected
  BY DEF Init, Tallied, Rejected
<1>2. IInv /\ Tallied /\ Rejected /\ [Next]_vars => Tallied' /\ Rejected'
  BY TallyStep, RejectedStep
<1>. QED
  BY <1>1, <1>2, Inductive, PTL DEF Spec

(* Valid signatures are accepted as a batch, whatever the coefficients.    *)
THEOREM AcceptsAllValid == Spec => AllValidAccepted
<1>1. IInv /\ Tallied /\ Rejected /\ [Next]_vars => [VerifyReturns /\ Bad = {} => verdict' = 1]_vars
  BY AllVerify
<1>. QED
  BY <1>1, SumTells, PTL DEF Spec, AllValidAccepted

(* One bad signature is never hidden by the others: no coefficient is zero *)
(* and the order is prime.                                                 *)
THEOREM RejectsOneBad == Spec => []OneBadRejected
<1>1. IInv /\ Rejected => OneBadRejected
  BY DEF IInv, TypeOK, Rejected, OneBadRejected, Answered
<1>. QED
  BY <1>1, SumTells, PTL

=============================================================================
