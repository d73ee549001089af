--------------------------- MODULE RoundRobinProofs ---------------------------
(***************************************************************************)
(* Proofs about WeightedRoundRobin and SteadyRoundRobin, for any number of *)
(* servers, any bounds on the weights and any number of requests.          *)
(***************************************************************************)
EXTENDS SteadyRoundRobin, DataTheorems

LEMMA ServersFinite ==
  /\ IsFiniteSet(Servers) /\ Cardinality(Servers) = N /\ N \in Nat /\ N > 0
  /\ \A S \in SUBSET Servers : IsFiniteSet(S) /\ Cardinality(S) \in 0..N
<1>1. N \in Nat /\ N > 0
  BY WRRAssumption DEF WRRAssumption
<1>2. IsFiniteSet(1..N) /\ Cardinality(1..N) = N
  BY <1>1, FS_Interval
<1>3. \A S \in SUBSET Servers :
         IsFiniteSet(S) /\ Cardinality(S) \in Nat /\ Cardinality(S) <= N
  BY <1>2, FS_Subset, FS_CardinalityType DEF Servers
<1> QED
  BY <1>1, <1>2, <1>3 DEF Servers

LEMMA TotalIsSum == \A S : Total(S) = SumOver(weight, S)
BY DEF Total, SumOver, MapThenSumSet, MapThenFoldSet

LEMMA PickedIsSum == Picked = SumOver(served, Servers)
BY DEF Picked, SumOver, MapThenSumSet, MapThenFoldSet

LEMMA PickedIsSumNext == Picked' = SumOver(served', Servers)
BY DEF Picked, SumOver, MapThenSumSet, MapThenFoldSet

-------------------------------------------------------------------------------
(* How far k servers can be in credit, or in debt, together.               *)
Room(W, k) == k * (2 * N - 1 - k) * W

Within(cw, W) ==
  \A S \in SUBSET Servers : /\ -Room(W, Cardinality(S)) <= SumOver(cw, S)
                            /\ SumOver(cw, S) <= Room(W, Cardinality(S))

LEMMA RoomGrows ==
  ASSUME NEW W \in Nat, NEW k \in 0..N, NEW j \in 0..k
  PROVE  /\ Room(W, j) \in Nat /\ Room(W, k) \in Nat
         /\ Room(W, j) <= Room(W, k)
<1>0. N \in Nat /\ N > 0
  BY ServersFinite
<1>1. \A a, b \in Nat : a * b \in Nat
  OBVIOUS
<1>2. \A m \in 0..N : Room(W, m) \in Nat
  <2> TAKE m \in 0..N
  <2>1. 2 * N - 1 - m \in Nat \/ m = 0
    BY <1>0
  <2>2. m * (2 * N - 1 - m) \in Nat
    BY <1>0, <1>1, <2>1
  <2> QED
    BY <1>1, <2>2 DEF Room
<1>3. j = k \/ (k - j \in Nat /\ 2 * N - 1 - k - j \in Nat)
  BY <1>0
<1>4. (k - j) * (2 * N - 1 - k - j) * W = Room(W, k) - Room(W, j)
  BY <1>0 DEF Room
<1>5. j = k \/ (k - j) * (2 * N - 1 - k - j) * W \in Nat
  BY <1>1, <1>3
<1>6. Room(W, j) \in Nat /\ Room(W, k) \in Nat
  BY <1>0, <1>2
<1> QED
  BY <1>4, <1>5, <1>6

(* The arithmetic of a member left behind, and of one that is chosen.      *)
LEMMA RoomBehind ==
  ASSUME NEW W \in Nat, NEW k \in 0..(N - 1), NEW r \in Int, NEW t \in Int,
         t <= r * k, t + r <= Room(W, k + 1) + W * (k + 1)
  PROVE  t <= Room(W, k)
<1>0. N \in Nat /\ N > 0
  BY ServersFinite
<1> DEFINE m == (2 * N - 1 - k) * W
<1>1. Room(W, k) = k * m /\ Room(W, k + 1) + W * (k + 1) = k * m + m /\ m \in Int
  BY <1>0 DEF Room
<1>2. \A z \in Int : t <= r * k /\ t + r <= k * z + z => t <= k * z
  <2> TAKE z \in Int
  <2>1. CASE r <= z
    <3>1. r * k <= z * k
      BY <2>1
    <3> QED
      BY <3>1
  <2>2. CASE r > z
    BY <2>2
  <2> QED
    BY <2>1, <2>2
<1> QED
  BY <1>1, <1>2

LEMMA RoomChosen ==
  ASSUME NEW W \in Nat, NEW k \in 1..N, NEW q \in 1..(N - k), NEW x \in Int, NEW y \in Int,
         NEW s \in Int, y >= x - W,
         s >= -Room(W, k - 1) - x - W * q,
         s >= -Room(W, k + q) + y * q
  PROVE  s >= -Room(W, k)
<1>0. N \in Nat /\ N > 0
  BY ServersFinite
<1>1. CASE x + W * q <= (2 * N - 2 * k) * W
  <2>1. Room(W, k) = Room(W, k - 1) + (2 * N - 2 * k) * W
    BY <1>0 DEF Room
  <2>2. Room(W, k - 1) \in Int /\ (2 * N - 2 * k) * W \in Int /\ W * q \in Int
    BY <1>0 DEF Room
  <2> QED
    BY <1>1, <2>1, <2>2
<1>2. CASE x + W * q > (2 * N - 2 * k) * W
  <2> DEFINE m == (2 * N - 1 - 2 * k - q) * W
  <2>1. Room(W, k + q) = Room(W, k) + m * q
    BY <1>0 DEF Room
  <2>2. (2 * N - 2 * k) * W = m + W + W * q /\ m \in Int /\ Room(W, k) \in Int /\ W * q \in Int
    BY <1>0 DEF Room
  <2>3. y >= m
    BY <1>2, <2>2
  <2>4. \A z \in Int : y >= z => y * q >= z * q
    OBVIOUS
  <2>5. y * q >= m * q /\ m * q \in Int /\ y * q \in Int
    BY <2>2, <2>3, <2>4
  <2> HIDE DEF m
  <2> QED
    BY <2>1, <2>2, <2>5
<1> QED
  BY <1>0, <1>1, <1>2

-------------------------------------------------------------------------------
(* One pick by weight keeps every group of servers within its room.  P are *)
(* the candidates with a weight, and c the one that is chosen.             *)

RaisedOver(cw, w, P) == [i \in Servers |-> IF i \in P THEN cw[i] + w[i] ELSE 0]

After(cw, w, P, c) == [RaisedOver(cw, w, P) EXCEPT ![c] = @ - SumOver(w, P)]

LEMMA GroupSum ==
  ASSUME NEW S \in SUBSET Servers
  PROVE  /\ \A f \in [Servers -> Int] : SumOver(f, S) \in Int
         /\ \A f \in [Servers -> Nat] : SumOver(f, S) \in Nat
<1>1. IsFiniteSet(S) /\ S \subseteq Servers
  BY ServersFinite
<1>2. ASSUME NEW f \in [Servers -> Int] PROVE SumOver(f, S) \in Int
  <2>1. \A x \in S : f[x] \in Int
    BY <1>1
  <2> QED
    BY <1>1, <2>1, SumInt
<1>3. ASSUME NEW f \in [Servers -> Nat] PROVE SumOver(f, S) \in Nat
  <2>1. \A x \in S : f[x] \in Nat
    BY <1>1
  <2> QED
    BY <1>1, <2>1, SumNat
<1> QED
  BY <1>2, <1>3

LEMMA RaisedTyped ==
  ASSUME NEW cw \in [Servers -> Int], NEW w \in [Servers -> Nat], NEW P \in SUBSET Servers
  PROVE  RaisedOver(cw, w, P) \in [Servers -> Int]
BY DEF RaisedOver

LEMMA SumRaised ==
  ASSUME NEW cw \in [Servers -> Int], NEW w \in [Servers -> Nat],
         NEW P \in SUBSET Servers, NEW S \in SUBSET Servers
  PROVE  SumOver(RaisedOver(cw, w, P), S) = SumOver(cw, S \cap P) + SumOver(w, S \cap P)
<1> DEFINE A == S \cap P
           Z == S \ P
           raised == RaisedOver(cw, w, P)
<1>1. IsFiniteSet(A) /\ IsFiniteSet(Z) /\ A \cap Z = {} /\ S = A \cup Z /\ S \subseteq Servers
  BY ServersFinite
<1>2. raised \in [Servers -> Int]
  BY DEF RaisedOver
<1>3. SumOver(raised, S) = SumOver(raised, A) + SumOver(raised, Z)
  <2>1. \A x \in A \cup Z : raised[x] \in Int
    BY <1>1, <1>2
  <2>2. SumOver(raised, A \cup Z) = SumOver(raised, A) + SumOver(raised, Z)
    BY <1>1, <2>1, SumUnion
  <2> QED
    BY <1>1, <2>2
<1>4. SumOver(raised, A) = SumOver(cw, A) + SumOver(w, A)
  <2>1. \A x \in A : cw[x] \in Int /\ w[x] \in Int /\ raised[x] = cw[x] + w[x]
    BY <1>1 DEF RaisedOver
  <2> QED
    BY <1>1, <2>1, SumPlus
<1>5. SumOver(raised, Z) = 0 * Cardinality(Z)
  <2>1. \A x \in Z : raised[x] = 0
    BY <1>1 DEF RaisedOver
  <2> QED
    BY <1>1, <2>1, SumConstant
<1>6. SumOver(cw, A) \in Int /\ SumOver(w, A) \in Nat /\ Cardinality(Z) \in Nat
  BY <1>1, GroupSum, FS_CardinalityType
<1> HIDE DEF A, Z, raised
<1>7. SumOver(raised, S) = SumOver(cw, A) + SumOver(w, A)
  BY <1>3, <1>4, <1>5, <1>6
<1> QED
  BY <1>7 DEF A, raised

LEMMA WeightsWithin ==
  ASSUME NEW W \in Nat, NEW w \in [Servers -> Nat], \A i \in Servers : w[i] <= W,
         NEW S \in SUBSET Servers
  PROVE  SumOver(w, S) \in Nat /\ SumOver(w, S) <= W * Cardinality(S)
<1>1. IsFiniteSet(S) /\ Cardinality(S) \in Nat
  BY ServersFinite, FS_CardinalityType
<1>2. \A x \in S : w[x] \in Nat /\ w[x] \in Int /\ w[x] <= W
  OBVIOUS
<1>3. SumOver(w, S) \in Nat
  BY <1>1, <1>2, SumNat
<1>4. W \in Int
  OBVIOUS
<1>5. SumOver(w, S) <= W * Cardinality(S)
  BY <1>1, <1>2, <1>4, SumAtMost
<1> QED
  BY <1>3, <1>5

(* What a group S has after the pick, when it includes the chosen one and  *)
(* when it does not.                                                       *)
LEMMA AfterTyped ==
  ASSUME NEW cw \in [Servers -> Int], NEW w \in [Servers -> Nat],
         NEW P \in SUBSET Servers, NEW c \in Servers, NEW S \in SUBSET Servers
  PROVE  /\ After(cw, w, P, c) \in [Servers -> Int]
         /\ After(cw, w, P, c)[c] = RaisedOver(cw, w, P)[c] - SumOver(w, P)
         /\ \A x \in Servers : x # c => After(cw, w, P, c)[x] = RaisedOver(cw, w, P)[x]
         /\ SumOver(After(cw, w, P, c), S) \in Int
<1>1. RaisedOver(cw, w, P) \in [Servers -> Int] /\ SumOver(w, P) \in Nat
  BY RaisedTyped, GroupSum
<1>2. /\ After(cw, w, P, c) \in [Servers -> Int]
      /\ After(cw, w, P, c)[c] = RaisedOver(cw, w, P)[c] - SumOver(w, P)
      /\ \A x \in Servers : x # c => After(cw, w, P, c)[x] = RaisedOver(cw, w, P)[x]
  BY <1>1 DEF After
<1> QED
  BY <1>2, GroupSum

LEMMA SumUnpicked ==
  ASSUME NEW cw \in [Servers -> Int], NEW w \in [Servers -> Nat],
         NEW P \in SUBSET Servers, NEW c \in Servers, NEW S \in SUBSET Servers, c \notin S
  PROVE  SumOver(After(cw, w, P, c), S) = SumOver(cw, S \cap P) + SumOver(w, S \cap P)
<1>0. SumOver(RaisedOver(cw, w, P), S) = SumOver(cw, S \cap P) + SumOver(w, S \cap P)
  BY SumRaised
<1>1. RaisedOver(cw, w, P) \in [Servers -> Int] /\ IsFiniteSet(S) /\ S \subseteq Servers
  BY RaisedTyped, ServersFinite
<1>2. \A x \in Servers : x # c => After(cw, w, P, c)[x] = RaisedOver(cw, w, P)[x]
  BY <1>1 DEF After
<1>3. \A x \in S : /\ RaisedOver(cw, w, P)[x] \in Int
                   /\ RaisedOver(cw, w, P)[x] = After(cw, w, P, c)[x]
  BY <1>1, <1>2
<1>4. SumOver(RaisedOver(cw, w, P), S) = SumOver(After(cw, w, P, c), S)
  BY <1>1, <1>3, SumSame
<1> QED
  BY <1>0, <1>4

LEMMA SumPicked ==
  ASSUME NEW cw \in [Servers -> Int], NEW w \in [Servers -> Nat],
         NEW P \in SUBSET Servers, NEW c \in Servers, NEW S \in SUBSET Servers, c \in S
  PROVE  SumOver(After(cw, w, P, c), S) = SumOver(cw, S \cap P) - SumOver(w, P \ S)
<1> DEFINE raised == RaisedOver(cw, w, P)
           new == After(cw, w, P, c)
<1>0. SumOver(raised, S) = SumOver(cw, S \cap P) + SumOver(w, S \cap P)
  BY SumRaised
<1>1. /\ raised \in [Servers -> Int]
      /\ SumOver(cw, S \cap P) \in Int /\ SumOver(w, S \cap P) \in Nat
  BY RaisedTyped, GroupSum
<1>2. /\ IsFiniteSet(S) /\ IsFiniteSet(P) /\ IsFiniteSet(S \cap P) /\ IsFiniteSet(P \ S)
      /\ S \subseteq Servers
  BY ServersFinite
<1>3. SumOver(w, P) = SumOver(w, S \cap P) + SumOver(w, P \ S) /\ SumOver(w, P \ S) \in Nat
  <2>1. /\ \A x \in (S \cap P) \cup (P \ S) : w[x] \in Int
        /\ \A x \in P \ S : w[x] \in Nat
        /\ P = (S \cap P) \cup (P \ S) /\ (S \cap P) \cap (P \ S) = {}
    BY <1>2
  <2>2. SumOver(w, (S \cap P) \cup (P \ S)) = SumOver(w, S \cap P) + SumOver(w, P \ S)
    BY <1>2, <2>1, SumUnion
  <2>3. SumOver(w, P \ S) \in Nat
    BY <1>2, <2>1, SumNat
  <2> QED
    BY <2>1, <2>2, <2>3
<1>4. /\ new \in [Servers -> Int] /\ new[c] = raised[c] - SumOver(w, P)
      /\ \A x \in Servers : x # c => new[x] = raised[x]
  BY AfterTyped
<1> HIDE DEF raised, new
<1>5. \A x \in S : new[x] \in Int /\ raised[x] \in Int /\ (x # c => new[x] = raised[x])
  BY <1>1, <1>2, <1>4
<1>6. SumOver(new, S) = SumOver(raised, S) - raised[c] + new[c]
  BY <1>2, <1>5, SumChange
<1>7. raised[c] \in Int
  BY <1>1
<1>8. SumOver(new, S) = SumOver(raised, S) - SumOver(w, P)
  BY <1>0, <1>1, <1>3, <1>4, <1>6, <1>7
<1> QED
  BY <1>0, <1>1, <1>3, <1>8 DEF new

LEMMA CreditsKept ==
  ASSUME NEW W \in Nat, NEW cw \in [Servers -> Int], NEW w \in [Servers -> Nat],
         NEW P \in SUBSET Servers, NEW c \in Servers, NEW S \in SUBSET Servers,
         \A i \in Servers : w[i] <= W,
         \A j \in P : RaisedOver(cw, w, P)[j] <= RaisedOver(cw, w, P)[c],
         Within(cw, W)
  PROVE  SumOver(After(cw, w, P, c), S) <= Room(W, Cardinality(S))
<1> DEFINE A == S \cap P
           new == After(cw, w, P, c)
           raised == RaisedOver(cw, w, P)
           k == Cardinality(A)
<1>1. /\ A \in SUBSET Servers /\ IsFiniteSet(A) /\ A \subseteq S /\ A \subseteq P /\ IsFiniteSet(S)
      /\ k \in 0..Cardinality(S) /\ Cardinality(S) \in 0..N
  BY ServersFinite, FS_Subset
<1>2. Room(W, k) \in Nat /\ Room(W, Cardinality(S)) \in Nat
      /\ Room(W, k) <= Room(W, Cardinality(S))
  BY <1>1, RoomGrows
<1>3. /\ SumOver(new, S) \in Int
      /\ c \notin S => SumOver(new, S) = SumOver(cw, A) + SumOver(w, A)
      /\ c \in S => SumOver(new, S) = SumOver(cw, A) - SumOver(w, P \ S)
  <2>1. SumOver(new, S) \in Int
    BY AfterTyped
  <2>2. ASSUME c \notin S
        PROVE  SumOver(new, S) = SumOver(cw, A) + SumOver(w, A)
    BY SumUnpicked, <2>2
  <2>3. ASSUME c \in S
        PROVE  SumOver(new, S) = SumOver(cw, A) - SumOver(w, P \ S)
    BY SumPicked, <2>3
  <2> QED
    BY <2>1, <2>2, <2>3
<1>4. SumOver(cw, A) <= Room(W, k) /\ SumOver(cw, A) \in Int
  BY <1>1, GroupSum DEF Within
<1>5. SumOver(w, P \ S) \in Nat
  BY WeightsWithin
<1>6. CASE c \in S
  BY <1>2, <1>3, <1>4, <1>5, <1>6
<1>7. CASE c \notin S
  <2>1. raised \in [Servers -> Int] /\ SumOver(raised, A) = SumOver(cw, A) + SumOver(w, A)
        /\ SumOver(w, A) \in Nat
    <3>1. A \cap P = A
      BY <1>1
    <3>2. SumOver(raised, A) = SumOver(cw, A \cap P) + SumOver(w, A \cap P)
      BY <1>1, SumRaised
    <3> QED
      BY <1>1, <3>1, <3>2, RaisedTyped, GroupSum
  <2>2. SumOver(raised, A) <= raised[c] * k
    <3>1. \A x \in A : raised[x] \in Int /\ raised[x] <= raised[c]
      BY <1>1, <2>1
    <3>2. raised[c] \in Int
      BY <2>1
    <3> QED
      BY <1>1, <3>1, <3>2, SumAtMost
  <2>3. SumOver(new, S) = SumOver(raised, A)
    BY <1>3, <1>7, <2>1
  <2>4. CASE c \notin P
    <3>1. raised[c] = 0
      BY <2>4 DEF RaisedOver
    <3>2. 0 * k = 0 /\ SumOver(raised, A) <= 0 * k
      BY <1>1, <2>2, <3>1
    <3>3. SumOver(raised, A) <= Room(W, Cardinality(S)) /\ SumOver(raised, A) = SumOver(new, S)
      BY <1>2, <1>3, <2>3, <3>2
    <3> QED
      BY <3>3
  <2>5. CASE c \in P
    <3> DEFINE B == A \cup {c}
    <3>1. /\ B \in SUBSET Servers /\ B \cap P = B /\ B \ {c} = A /\ c \in B
          /\ IsFiniteSet(B) /\ Cardinality(B) = k + 1 /\ Cardinality(B) \in 0..N
      <4>1. B \in SUBSET Servers /\ B \cap P = B /\ B \ {c} = A /\ c \in B
        BY <1>1, <1>7, <2>5
      <4>2. IsFiniteSet(B) /\ Cardinality(B) \in 0..N
        BY <4>1, ServersFinite
      <4>3. Cardinality(B) = Cardinality(B \ {c}) + 1
        BY <4>1, <4>2, CardRemove
      <4> QED
        BY <4>1, <4>2, <4>3
    <3>2. /\ SumOver(raised, B) = SumOver(cw, B) + SumOver(w, B)
          /\ SumOver(cw, B) \in Int /\ SumOver(w, B) \in Nat
      <4>1. SumOver(raised, B) = SumOver(cw, B \cap P) + SumOver(w, B \cap P)
        BY <3>1, SumRaised
      <4> QED
        BY <3>1, <4>1, GroupSum
    <3>3. SumOver(raised, B) = raised[c] + SumOver(raised, A)
      <4>1. \A x \in B : raised[x] \in Int
        BY <2>1, <3>1
      <4>2. SumOver(raised, B) = raised[c] + SumOver(raised, B \ {c})
        BY <3>1, <4>1, SumRemove
      <4> QED
        BY <3>1, <4>2
    <3>4. SumOver(cw, B) <= Room(W, k + 1) /\ SumOver(w, B) <= W * (k + 1)
      BY <3>1, WeightsWithin DEF Within
    <3>5. k \in 0..(N - 1) /\ raised[c] \in Int /\ SumOver(raised, A) \in Int
      BY <1>1, <1>4, <2>1, <3>1, ServersFinite
    <3>6. Room(W, k + 1) \in Int /\ W * (k + 1) \in Int
      BY <1>1, <3>5, ServersFinite DEF Room
    <3>7. SumOver(raised, A) + raised[c] <= Room(W, k + 1) + W * (k + 1)
      BY <3>2, <3>3, <3>4, <3>5, <3>6
    <3>8. SumOver(raised, A) <= Room(W, k)
      BY <2>2, <3>5, <3>7, RoomBehind
    <3> QED
      BY <1>2, <2>3, <3>5, <3>8
  <2> QED
    BY <2>4, <2>5
<1> QED
  BY <1>6, <1>7

LEMMA DebtsKept ==
  ASSUME NEW W \in Nat, NEW cw \in [Servers -> Int], NEW w \in [Servers -> Nat],
         NEW P \in SUBSET Servers, NEW c \in Servers, NEW S \in SUBSET Servers,
         \A i \in Servers : w[i] <= W,
         \A j \in P : RaisedOver(cw, w, P)[j] <= RaisedOver(cw, w, P)[c],
         Within(cw, W)
  PROVE  -Room(W, Cardinality(S)) <= SumOver(After(cw, w, P, c), S)
<1> DEFINE A == S \cap P
           Q == P \ S
           raised == RaisedOver(cw, w, P)
           new == After(cw, w, P, c)
<1>1. /\ A \in SUBSET Servers /\ IsFiniteSet(A) /\ IsFiniteSet(S) /\ A \subseteq S
      /\ Cardinality(A) \in 0..Cardinality(S) /\ Cardinality(S) \in 0..N
      /\ Q \in SUBSET Servers /\ IsFiniteSet(Q) /\ Cardinality(Q) \in 0..N
  BY ServersFinite, FS_Subset
<1>2. /\ Room(W, Cardinality(A)) \in Nat /\ Room(W, Cardinality(S)) \in Nat
      /\ Room(W, Cardinality(A)) <= Room(W, Cardinality(S))
  BY <1>1, RoomGrows
<1>3. SumOver(new, S) \in Int
  BY AfterTyped
<1>4. -Room(W, Cardinality(A)) <= SumOver(cw, A) /\ SumOver(cw, A) \in Int
      /\ SumOver(w, A) \in Nat /\ SumOver(w, Q) \in Nat
  BY <1>1, GroupSum DEF Within
<1>5. raised \in [Servers -> Int]
  BY RaisedTyped
<1>6. CASE c \notin S
  <2>1. SumOver(new, S) = SumOver(cw, A) + SumOver(w, A)
    BY <1>6, SumUnpicked
  <2> QED
    BY <1>2, <1>4, <2>1
<1>7. CASE c \in S
  <2>1. SumOver(new, S) = SumOver(cw, A) - SumOver(w, Q)
    BY <1>7, SumPicked
  <2>2. CASE Q = {}
    <3>1. SumOver(w, Q) = 0
      BY <2>2, SumEmpty
    <3> QED
      BY <1>2, <1>4, <2>1, <3>1
  <2>3. CASE Q # {}
    <3> DEFINE k == Cardinality(A \cup {c})
               q == Cardinality(Q)
               x == IF c \in P THEN -cw[c] ELSE 0
               y == -raised[c]
    <3>1. /\ A \cup {c} \in SUBSET Servers /\ IsFiniteSet(A \cup {c})
          /\ A \cup {c} \subseteq S /\ c \in A \cup {c}
          /\ k \in 0..Cardinality(S) /\ k # 0
      <4>1. /\ A \cup {c} \in SUBSET Servers /\ A \cup {c} \subseteq S /\ c \in A \cup {c}
        BY <1>1, <1>7
      <4>2. IsFiniteSet(A \cup {c})
        BY <4>1, ServersFinite
      <4>3. k \in Nat \ {0}
        BY <4>1, <4>2, CardRemove
      <4>4. k <= Cardinality(S)
        BY <1>1, <4>1, FS_Subset
      <4>5. k \in 0..Cardinality(S) /\ k # 0
        <5> HIDE DEF k
        <5> QED
          BY <1>1, <4>3, <4>4
      <4> QED
        BY <4>1, <4>2, <4>5
    <3>2. q \in 1..(N - k) /\ k \in 1..N
      <4>1. /\ (A \cup {c}) \cap Q = {} /\ (A \cup {c}) \cup Q \in SUBSET Servers
        BY <1>1, <1>7, <3>1
      <4>2. Cardinality((A \cup {c}) \cup Q) = k + q - Cardinality((A \cup {c}) \cap Q)
        BY <1>1, <3>1, FS_Union
      <4>3. Cardinality((A \cup {c}) \cup Q) \in 0..N /\ q # 0
        BY <1>1, <2>3, <4>1, ServersFinite, FS_EmptySet
      <4>4. Cardinality((A \cup {c}) \cup Q) = k + q - 0
        BY <4>1, <4>2, FS_EmptySet
      <4>5. k \in Nat /\ k # 0 /\ q \in Nat /\ q # 0 /\ N \in Nat
        BY <1>1, <3>1, <4>3, ServersFinite
      <4> HIDE DEF k, q
      <4> QED
        BY <4>3, <4>4, <4>5
    <3>3. x \in Int /\ y \in Int /\ y >= x - W
      <4>1. w[c] \in Nat /\ w[c] <= W /\ cw[c] \in Int
        OBVIOUS
      <4>2. c \in P => raised[c] = cw[c] + w[c]
        BY DEF RaisedOver
      <4>3. c \notin P => raised[c] = 0
        BY DEF RaisedOver
      <4> QED
        BY <4>1, <4>2, <4>3
    <3>4. SumOver(new, S) >= -Room(W, k - 1) - x - W * q
      <4> DEFINE R == A \ {c}
      <4>1. /\ R \in SUBSET Servers /\ IsFiniteSet(R) /\ R = (A \cup {c}) \ {c}
            /\ SumOver(cw, R) \in Int
        BY <1>1, GroupSum, ServersFinite
      <4>2. Cardinality(R) = k - 1
        BY <3>1, <4>1, CardRemove
      <4>3. -Room(W, k - 1) <= SumOver(cw, R)
        BY <4>1, <4>2 DEF Within
      <4>4. SumOver(cw, A) = SumOver(cw, R) - x
        <5>1. CASE c \in P
          <6>1. c \in A /\ \A i \in A : cw[i] \in Int
            BY <1>1, <1>7, <5>1
          <6>2. SumOver(cw, A) = cw[c] + SumOver(cw, R)
            BY <1>1, <6>1, SumRemove
          <6> QED
            BY <4>1, <5>1, <6>1, <6>2
        <5>2. CASE c \notin P
          <6>1. R = A
            BY <5>2
          <6>2. SumOver(cw, A) = SumOver(cw, R) /\ x = 0
            BY <5>2, <6>1
          <6> HIDE DEF A, R, x
          <6> QED
            BY <4>1, <6>2
        <5> QED
          BY <5>1, <5>2
      <4>5. SumOver(w, Q) <= W * q
        BY <1>1, WeightsWithin
      <4>6. Room(W, k - 1) \in Int /\ W * q \in Int
        BY <1>1, <3>2, ServersFinite DEF Room
      <4> HIDE DEF A, Q, k, q, x, R, new
      <4> QED
        BY <1>3, <1>4, <2>1, <3>3, <4>1, <4>3, <4>4, <4>5, <4>6
    <3>5. SumOver(new, S) >= -Room(W, k + q) + y * q
      <4>1. /\ A \cup Q \in SUBSET Servers /\ IsFiniteSet(A \cup Q) /\ A \cap Q = {}
            /\ Q \cap P = Q
        BY <1>1, ServersFinite
      <4>2. /\ SumOver(cw, Q) \in Int /\ SumOver(cw, A \cup Q) \in Int
            /\ SumOver(raised, Q) \in Int
        BY <1>1, <1>5, <4>1, GroupSum
      <4>3. SumOver(cw, A \cup Q) = SumOver(cw, A) + SumOver(cw, Q)
        <5>1. \A i \in A \cup Q : cw[i] \in Int
          BY <4>1
        <5> QED
          BY <1>1, <4>1, <5>1, SumUnion
      <4>4. SumOver(raised, Q) = SumOver(cw, Q) + SumOver(w, Q)
        <5>1. SumOver(raised, Q) = SumOver(cw, Q \cap P) + SumOver(w, Q \cap P)
          BY <1>1, SumRaised
        <5> QED
          BY <4>1, <5>1
      <4>5. SumOver(raised, Q) <= raised[c] * q
        <5>1. \A i \in Q : raised[i] \in Int /\ raised[i] <= raised[c]
          BY <1>1, <1>5
        <5>2. raised[c] \in Int
          BY <1>5
        <5> QED
          BY <1>1, <5>1, <5>2, SumAtMost
      <4>6. -Room(W, k + q) <= SumOver(cw, A \cup Q)
        <5> DEFINE m == Cardinality(A \cup Q)
        <5>1. -Room(W, m) <= SumOver(cw, A \cup Q)
          BY <4>1 DEF Within
        <5>2. m = Cardinality(A) + q
          <6>1. m = Cardinality(A) + q - 0
            BY <1>1, <4>1, FS_Union, FS_EmptySet
          <6> QED
            BY <1>1, <6>1
        <5>3. Cardinality(A) <= k /\ Cardinality(A) \in Nat
          BY <1>1, <3>1, FS_Subset
        <5>4. k + q \in 0..N /\ m \in 0..(k + q)
          BY <1>1, <3>2, <5>2, <5>3, ServersFinite
        <5>5. Room(W, m) \in Nat /\ Room(W, k + q) \in Nat /\ Room(W, m) <= Room(W, k + q)
          <6> HIDE DEF m, k, q
          <6> QED
            BY <5>4, RoomGrows
        <5> HIDE DEF m, k, q
        <5> QED
          BY <4>2, <5>1, <5>5
      <4>7. raised[c] * q = -(y * q) /\ y * q \in Int /\ Room(W, k + q) \in Int
        BY <1>1, <1>5, <3>2, <3>3, ServersFinite DEF Room
      <4> HIDE DEF A, Q, k, q, y, raised, new
      <4> QED
        BY <1>3, <1>4, <2>1, <4>2, <4>3, <4>4, <4>5, <4>6, <4>7
    <3>6. SumOver(new, S) >= -Room(W, k)
      <4> HIDE DEF k, q, x, y
      <4> QED
        BY <1>3, <3>2, <3>3, <3>4, <3>5, RoomChosen
    <3>7. Room(W, k) <= Room(W, Cardinality(S)) /\ Room(W, k) \in Nat
      BY <1>1, <3>1, RoomGrows
    <3> QED
      BY <1>2, <1>3, <3>6, <3>7
  <2> QED
    BY <2>2, <2>3
<1> QED
  BY <1>6, <1>7

-------------------------------------------------------------------------------
(* The operators of the pick.                                              *)

Weighted(cands) == {i \in cands : weight[i] > 0}

LEMMA HeavinessNat == calm \in BOOLEAN => Heaviness \in Nat
BY WRRAssumption DEF WRRAssumption, Heaviness

LEMMA WeightsTyped ==
  ASSUME TypeOK
  PROVE  /\ weight \in [Servers -> Nat] /\ \A i \in Servers : weight[i] <= Heaviness
         /\ Heaviness \in Nat
BY HeavinessNat DEF TypeOK, Weights

(* The first of the heaviest exists. *)
LEMMA HeaviestPicked ==
  ASSUME NEW cands \in SUBSET Servers, cands # {}, NEW sum \in [Servers -> Int]
  PROVE  /\ Heaviest(cands, sum) \in cands
         /\ \A j \in cands : sum[j] <= sum[Heaviest(cands, sum)]
<1> DEFINE first(T, i) == \A j \in T : sum[j] <= sum[i] /\ (sum[j] = sum[i] => i <= j)
           has == {T \in SUBSET cands : T = {} \/ \E i \in T : first(T, i)}
<1>0. IsFiniteSet(cands) /\ cands \subseteq Int /\ \A i \in cands : sum[i] \in Int
  BY ServersFinite DEF Servers
<1>1. {} \in has
  OBVIOUS
<1>2. ASSUME NEW T \in SUBSET cands, T # {}, \A x \in T : T \ {x} \in has
      PROVE  T \in has
  <2>1. PICK x \in T : TRUE
    BY <1>2
  <2>2. CASE T \ {x} = {}
    <3>1. \A j \in T : j = x
      BY <2>2
    <3>2. first(T, x)
      BY <1>0, <2>1, <3>1
    <3> QED
      BY <2>1, <3>2
  <2>3. CASE T \ {x} # {}
    <3>1. PICK y \in T \ {x} : first(T \ {x}, y)
      BY <1>2, <2>3
    <3>2. x \in Int /\ y \in Int /\ sum[x] \in Int /\ sum[y] \in Int
      BY <1>0, <2>1, <3>1
    <3>3. CASE sum[x] > sum[y] \/ (sum[x] = sum[y] /\ x <= y)
      <4>1. ASSUME NEW j \in T
            PROVE  sum[j] <= sum[x] /\ (sum[j] = sum[x] => x <= j)
        <5>1. j \in Int /\ sum[j] \in Int
          BY <1>0
        <5>2. j = x \/ (sum[j] <= sum[y] /\ (sum[j] = sum[y] => y <= j))
          BY <3>1
        <5> QED
          BY <3>2, <3>3, <5>1, <5>2
      <4> QED
        BY <2>1, <4>1
    <3>4. CASE ~(sum[x] > sum[y] \/ (sum[x] = sum[y] /\ x <= y))
      <4>1. ASSUME NEW j \in T
            PROVE  sum[j] <= sum[y] /\ (sum[j] = sum[y] => y <= j)
        <5>1. j \in Int /\ sum[j] \in Int
          BY <1>0
        <5>2. j = x \/ (sum[j] <= sum[y] /\ (sum[j] = sum[y] => y <= j))
          BY <3>1
        <5> QED
          BY <3>2, <3>4, <5>1, <5>2
      <4> QED
        BY <3>1, <4>1
    <3> QED
      BY <3>3, <3>4
  <2> QED
    BY <2>2, <2>3
<1>3. \A T \in SUBSET cands : T \in has
  <2> HIDE DEF has
  <2> QED
    BY <1>0, <1>1, <1>2, SubsetInduct
<1>4. PICK i \in cands : first(cands, i)
  BY <1>3
<1>5. Heaviest(cands, sum) \in cands /\ first(cands, Heaviest(cands, sum))
  BY <1>4 DEF Heaviest
<1> QED
  BY <1>5

(* The scan raises the candidates that have a weight, and the total is     *)
(* that of their weights.                                                  *)
LEMMA RaisedIs ==
  ASSUME TypeOK, NEW cands \in SUBSET Servers
  PROVE  /\ Weighted(cands) \in SUBSET Servers
         /\ Raised(cands) = RaisedOver(currentWeights, weight, Weighted(cands))
         /\ Total(cands) = SumOver(weight, Weighted(cands))
         /\ Total(cands) \in Nat
<1> DEFINE P == Weighted(cands)
           Z == cands \ P
<1>0. weight \in [Servers -> Nat]
  BY WeightsTyped
<1>1. P \in SUBSET Servers /\ P \subseteq cands
  BY DEF Weighted
<1>2. Raised(cands) = RaisedOver(currentWeights, weight, P)
  BY DEF Raised, RaisedOver, Weighted
<1>3. SumOver(weight, cands) = SumOver(weight, P) + SumOver(weight, Z)
  <2>1. IsFiniteSet(P) /\ IsFiniteSet(Z) /\ P \cap Z = {} /\ cands = P \cup Z
    BY <1>1, ServersFinite
  <2>2. \A i \in P \cup Z : weight[i] \in Int
    BY <1>0, <1>1
  <2>3. SumOver(weight, P \cup Z) = SumOver(weight, P) + SumOver(weight, Z)
    BY <2>1, <2>2, SumUnion
  <2> QED
    BY <2>1, <2>3
<1>4. SumOver(weight, Z) = 0
  <2>1. IsFiniteSet(Z) /\ Cardinality(Z) \in Nat /\ \A i \in Z : weight[i] = 0
    BY <1>0, <1>1, ServersFinite, FS_CardinalityType DEF Weighted
  <2>2. SumOver(weight, Z) = 0 * Cardinality(Z)
    BY <2>1, SumConstant
  <2> QED
    BY <2>1, <2>2
<1>5. SumOver(weight, P) \in Nat
  BY <1>0, <1>1, GroupSum
<1> HIDE DEF P, Z
<1>6. Total(cands) = SumOver(weight, P)
  BY <1>3, <1>4, <1>5, TotalIsSum
<1> QED
  BY <1>1, <1>2, <1>5, <1>6 DEF P

(* A pick by weight is the step that the lemmas above are about. *)
LEMMA WeighIs ==
  ASSUME TypeOK, NEW cands \in SUBSET Servers, NEW chosen \in cands, Weigh(cands, chosen)
  PROVE  /\ currentWeights' = After(currentWeights, weight, Weighted(cands), chosen)
         /\ \A j \in Weighted(cands) :
               RaisedOver(currentWeights, weight, Weighted(cands))[j]
                  <= RaisedOver(currentWeights, weight, Weighted(cands))[chosen]
<1>1. /\ Weighted(cands) \in SUBSET Servers
      /\ Raised(cands) = RaisedOver(currentWeights, weight, Weighted(cands))
      /\ Total(cands) = SumOver(weight, Weighted(cands))
  BY RaisedIs
<1>2. Raised(cands) \in [Servers -> Int]
  BY WeightsTyped DEF Raised, TypeOK
<1>3. chosen = Heaviest(cands, Raised(cands))
      /\ currentWeights' = [Raised(cands) EXCEPT ![chosen] = @ - Total(cands)]
  BY DEF Weigh
<1>4. currentWeights' = After(currentWeights, weight, Weighted(cands), chosen)
  BY <1>1, <1>3 DEF After
<1>5. \A j \in cands : Raised(cands)[j] <= Raised(cands)[chosen]
  BY <1>2, <1>3, HeaviestPicked
<1>6. Weighted(cands) \subseteq cands
  BY DEF Weighted
<1> QED
  BY <1>1, <1>4, <1>5, <1>6

-------------------------------------------------------------------------------
(* The inductive invariant of the disturbed rotation: every group of       *)
(* servers together is within its room, and a server has waited no longer  *)
(* than it took to climb from the deepest debt to where it is.             *)
GroupsWithin == Within(currentWeights, Heaviness)

Patience == \A i \in Servers : waited[i] <= currentWeights[i] + Limit

RInv == TypeOK /\ GroupsWithin /\ Patience

LEMMA ZeroWithin ==
  ASSUME NEW W \in Nat, NEW cw, cw = [i \in Servers |-> 0]
  PROVE  Within(cw, W)
<1> SUFFICES ASSUME NEW S \in SUBSET Servers
             PROVE  /\ -Room(W, Cardinality(S)) <= SumOver(cw, S)
                    /\ SumOver(cw, S) <= Room(W, Cardinality(S))
  BY DEF Within
<1>1. IsFiniteSet(S) /\ Cardinality(S) \in 0..N /\ \A x \in S : cw[x] = 0
  BY ServersFinite
<1>2. SumOver(cw, S) = 0 * Cardinality(S)
  BY <1>1, SumConstant
<1>3. Room(W, Cardinality(S)) \in Nat
  BY <1>1, RoomGrows
<1> QED
  BY <1>1, <1>2, <1>3

(* One server alone is a group of one. *)
LEMMA WithinOne ==
  ASSUME NEW W \in Nat, NEW cw \in [Servers -> Int], Within(cw, W), NEW i \in Servers
  PROVE  -(2 * (N - 1) * W) <= cw[i] /\ cw[i] <= 2 * (N - 1) * W
<1>1. {i} \in SUBSET Servers /\ IsFiniteSet({i}) /\ Cardinality({i}) = 1 /\ {i} \ {i} = {}
  BY FS_Singleton
<1>2. SumOver(cw, {i}) = cw[i]
  <2>1. \A x \in {i} : cw[x] \in Int
    OBVIOUS
  <2>2. SumOver(cw, {i}) = cw[i] + SumOver(cw, {i} \ {i})
    BY <1>1, <2>1, SumRemove
  <2> QED
    BY <1>1, <2>2, SumEmpty
<1>3. Room(W, 1) = 2 * (N - 1) * W
  BY ServersFinite DEF Room
<1> QED
  BY <1>1, <1>2, <1>3 DEF Within

LEMMA LimitNat ==
  ASSUME NEW W \in Nat
  PROVE  2 * (N - 1) * W \in Nat
<1>1. 2 * (N - 1) \in Nat /\ \A a, b \in Nat : a * b \in Nat
  BY ServersFinite
<1> QED
  BY <1>1

(* The entries that a pick leaves, whoever was excluded. *)
LEMMA PickWithin ==
  ASSUME RInv, NEW exclude, NEW chosen \in Servers, PickServer(exclude, chosen)
  PROVE  currentWeights' \in [Servers -> Int] /\ Within(currentWeights', Heaviness)
<1> DEFINE cands == Candidates(exclude)
<1>1. cands \in SUBSET Servers /\ chosen \in cands
  BY DEF PickServer, Candidates
<1>2. /\ weight \in [Servers -> Nat] /\ \A i \in Servers : weight[i] <= Heaviness
      /\ Heaviness \in Nat /\ currentWeights \in [Servers -> Int]
      /\ TypeOK /\ Within(currentWeights, Heaviness)
  BY WeightsTyped DEF RInv, GroupsWithin, TypeOK
<1>3. CASE Weigh(cands, chosen)
  <2> DEFINE P == Weighted(cands)
             new == After(currentWeights, weight, P, chosen)
  <2>1. /\ currentWeights' = new
        /\ \A j \in P : RaisedOver(currentWeights, weight, P)[j]
                          <= RaisedOver(currentWeights, weight, P)[chosen]
    BY <1>1, <1>2, <1>3, WeighIs
  <2>2. P \in SUBSET Servers
    BY <1>1 DEF Weighted
  <2>3. new \in [Servers -> Int]
    BY <1>2, <2>2, AfterTyped
  <2>4. ASSUME NEW S \in SUBSET Servers
        PROVE  /\ -Room(Heaviness, Cardinality(S)) <= SumOver(new, S)
               /\ SumOver(new, S) <= Room(Heaviness, Cardinality(S))
    <3> HIDE DEF P
    <3>1. -Room(Heaviness, Cardinality(S)) <= SumOver(new, S)
      BY <1>1, <1>2, <2>1, <2>2, DebtsKept
    <3>2. SumOver(new, S) <= Room(Heaviness, Cardinality(S))
      BY <1>1, <1>2, <2>1, <2>2, CreditsKept
    <3> QED
      BY <3>1, <3>2
  <2> QED
    BY <2>1, <2>3, <2>4 DEF Within
<1>4. CASE TakeTurns(cands, chosen)
  <2>1. currentWeights' = [i \in Servers |-> 0]
    BY <1>4 DEF TakeTurns
  <2> QED
    BY <1>2, <2>1, ZeroWithin
<1> QED
  BY <1>3, <1>4 DEF PickServer

(* A candidate with a weight climbs by one at least when it is passed      *)
(* over, and everybody else starts to wait again.                          *)
LEMMA PickPatience ==
  ASSUME RInv, NEW exclude, NEW chosen \in Servers, PickServer(exclude, chosen)
  PROVE  \A i \in Servers : waited'[i] <= currentWeights'[i] + Limit
<1> DEFINE cands == Candidates(exclude)
<1>1. cands \in SUBSET Servers /\ chosen \in cands
  BY DEF PickServer, Candidates
<1>2. /\ weight \in [Servers -> Nat] /\ currentWeights \in [Servers -> Int]
      /\ waited \in [Servers -> Nat] /\ TypeOK
      /\ Heaviness \in Nat
  BY WeightsTyped DEF RInv, TypeOK
<1>3. /\ currentWeights' \in [Servers -> Int] /\ Within(currentWeights', Heaviness)
      /\ Limit \in Nat
  BY <1>2, PickWithin, LimitNat DEF Limit
<1> TAKE i \in Servers
<1>4. waited' = [k \in Servers |->
                   IF k \in cands \ {chosen} /\ weight[k] > 0 THEN waited[k] + 1 ELSE 0]
  BY DEF PickServer
<1>5. -Limit <= currentWeights'[i] /\ currentWeights'[i] \in Int
  BY <1>2, <1>3, WithinOne DEF Limit
<1>6. CASE i \in cands \ {chosen} /\ weight[i] > 0
  <2>1. Weigh(cands, chosen)
    <3>1. Total(cands) # 0
      <4>1. Total(cands) = SumOver(weight, cands) /\ IsFiniteSet(cands)
        BY <1>1, TotalIsSum, ServersFinite
      <4>2. \A x \in cands : weight[x] \in Nat /\ weight[x] \in Int
        BY <1>1, <1>2
      <4>3. SumOver(weight, cands) = weight[i] + SumOver(weight, cands \ {i})
        BY <1>6, <4>1, <4>2, SumRemove
      <4>4. SumOver(weight, cands \ {i}) \in Nat
        BY <4>1, <4>2, CardRemove, <1>6, SumNat
      <4> QED
        BY <1>2, <1>6, <4>1, <4>3, <4>4
    <3> QED
      BY <3>1 DEF PickServer, TakeTurns
  <2>2. currentWeights' = After(currentWeights, weight, Weighted(cands), chosen)
    BY <1>1, <1>2, <2>1, WeighIs
  <2>3. i \in Weighted(cands) /\ i # chosen /\ Weighted(cands) \in SUBSET Servers
    BY <1>1, <1>6 DEF Weighted
  <2>4. currentWeights'[i] = currentWeights[i] + weight[i]
    <3>1. RaisedOver(currentWeights, weight, Weighted(cands)) \in [Servers -> Int]
      BY <1>2, <2>3, RaisedTyped
    <3>2. RaisedOver(currentWeights, weight, Weighted(cands))[i] = currentWeights[i] + weight[i]
      BY <2>3 DEF RaisedOver
    <3> QED
      BY <2>2, <2>3, <3>1, <3>2 DEF After
  <2>5. waited[i] <= currentWeights[i] + Limit /\ waited[i] \in Nat /\ weight[i] \in Nat
        /\ currentWeights[i] \in Int
    BY <1>2 DEF RInv, Patience
  <2>6. waited'[i] = waited[i] + 1
    BY <1>4, <1>6
  <2> QED
    BY <1>3, <1>6, <2>4, <2>5, <2>6
<1>7. CASE ~(i \in cands \ {chosen} /\ weight[i] > 0)
  <2>1. waited'[i] = 0
    BY <1>4, <1>7
  <2> QED
    BY <1>3, <1>5, <2>1
<1> QED
  BY <1>6, <1>7

LEMMA PickTyped ==
  ASSUME TypeOK, NEW exclude, NEW chosen \in Servers, PickServer(exclude, chosen)
  PROVE  fallbackIndex' \in 0..(Wrap - 1) /\ waited' \in [Servers -> Nat]
<1>1. Wrap \in Nat /\ Wrap > 0
  BY WRRAssumption DEF WRRAssumption
<1>2. fallbackIndex \in 0..(Wrap - 1) /\ waited \in [Servers -> Nat]
  BY DEF TypeOK
<1>3. (fallbackIndex + 1) % Wrap \in 0..(Wrap - 1) /\ 0 \in 0..(Wrap - 1)
  BY <1>1, <1>2
<1>4. fallbackIndex' \in 0..(Wrap - 1)
  BY <1>3 DEF PickServer, Weigh, TakeTurns
<1>5. waited' \in [Servers -> Nat]
  BY <1>2 DEF PickServer
<1> QED
  BY <1>4, <1>5

LEMMA RInvInit == SteadyInit => RInv
<1> SUFFICES ASSUME Init PROVE RInv
  BY DEF SteadyInit
<1>1. TypeOK
  <2>1. 0 \in 0..(Wrap - 1)
    BY WRRAssumption DEF WRRAssumption
  <2> QED
    BY <2>1 DEF Init, TypeOK
<1>2. Heaviness \in Nat /\ currentWeights = [i \in Servers |-> 0]
  BY <1>1, WeightsTyped DEF Init
<1>3. GroupsWithin
  BY <1>2, ZeroWithin DEF GroupsWithin
<1>4. Limit \in Nat
  BY <1>2, LimitNat DEF Limit
<1>5. Patience
  BY <1>4 DEF Patience, Init
<1> QED
  BY <1>1, <1>3, <1>5 DEF RInv

LEMMA RInvStep == RInv /\ [Next]_steadyVars => RInv'
<1> SUFFICES ASSUME RInv, [Next]_steadyVars PROVE RInv'
  OBVIOUS
<1>0. /\ TypeOK /\ Heaviness \in Nat /\ Limit \in Nat
      /\ Within(currentWeights, Heaviness) /\ Patience
  BY WeightsTyped, LimitNat DEF RInv, GroupsWithin, Limit
<1>1. ASSUME NEW exclude, NEW chosen \in Servers, PickServer(exclude, chosen),
             UNCHANGED <<calm, weight, up>>, attempted' \in [Requests -> SUBSET Servers]
      PROVE  RInv'
  <2>1. /\ currentWeights' \in [Servers -> Int] /\ Within(currentWeights', Heaviness)
    BY <1>1, PickWithin
  <2>2. \A i \in Servers : waited'[i] <= currentWeights'[i] + Limit
    BY <1>1, PickPatience
  <2>3. fallbackIndex' \in 0..(Wrap - 1) /\ waited' \in [Servers -> Nat]
    BY <1>0, <1>1, PickTyped
  <2>4. Heaviness' = Heaviness /\ Limit' = Limit /\ Weights' = Weights
    BY <1>1 DEF Heaviness, Limit, Weights
  <2>5. TypeOK'
    BY <1>0, <1>1, <2>1, <2>3, <2>4 DEF TypeOK
  <2>6. GroupsWithin' /\ Patience'
    BY <2>1, <2>2, <2>4 DEF GroupsWithin, Patience
  <2> QED
    BY <2>5, <2>6 DEF RInv
<1>2. ASSUME NEW i \in Servers, Serve(i) PROVE RInv'
  BY <1>0, <1>1, <1>2 DEF Serve, TypeOK
<1>3. ASSUME NEW r \in Requests, Dispatch(r) PROVE RInv'
  <2>1. ASSUME NEW chosen \in Servers, PickServer(attempted[r], chosen),
               attempted' = [attempted EXCEPT ![r] = @ \cup {chosen}]
        PROVE  RInv'
    BY <1>0, <1>1, <1>3, <2>1 DEF Dispatch, TypeOK
  <2>2. ASSUME PickNone(attempted[r]), attempted' = [attempted EXCEPT ![r] = {}]
        PROVE  RInv'
    <3>1. /\ currentWeights' = [i \in Servers |-> 0] /\ waited' = [i \in Servers |-> 0]
          /\ UNCHANGED <<calm, weight, up, fallbackIndex>>
      BY <1>3, <2>2 DEF Dispatch, PickNone
    <3>2. Heaviness' = Heaviness /\ Limit' = Limit /\ Weights' = Weights
      BY <3>1 DEF Heaviness, Limit, Weights
    <3>3. TypeOK'
      BY <1>0, <2>2, <3>1, <3>2 DEF TypeOK
    <3>4. GroupsWithin'
      BY <1>0, <3>1, <3>2, ZeroWithin DEF GroupsWithin
    <3>5. Patience'
      BY <1>0, <3>1, <3>2 DEF Patience
    <3> QED
      BY <3>3, <3>4, <3>5 DEF RInv
  <2> QED
    BY <1>3, <2>1, <2>2 DEF Dispatch
<1>4. ASSUME UNCHANGED <<currentWeights, fallbackIndex, waited, calm>>,
             weight' \in [Servers -> Weights], up' \in [Servers -> BOOLEAN],
             attempted' \in [Requests -> SUBSET Servers]
      PROVE  RInv'
  <2>1. Heaviness' = Heaviness /\ Limit' = Limit /\ Weights' = Weights
    BY <1>4 DEF Heaviness, Limit, Weights
  <2>2. TypeOK'
    BY <1>0, <1>4, <2>1 DEF TypeOK
  <2>3. GroupsWithin' /\ Patience'
    BY <1>0, <1>4, <2>1 DEF GroupsWithin, Patience
  <2> QED
    BY <2>2, <2>3 DEF RInv
<1>5. ASSUME NEW r \in Requests, Answer(r) PROVE RInv'
  BY <1>0, <1>4, <1>5 DEF Answer, TypeOK
<1>6. ASSUME NEW i \in Servers, Flip(i) PROVE RInv'
  BY <1>0, <1>4, <1>6 DEF Flip, TypeOK
<1>7. ASSUME NEW i \in Servers, Reweigh(i) PROVE RInv'
  BY <1>0, <1>4, <1>7 DEF Reweigh, TypeOK
<1>8. CASE UNCHANGED steadyVars
  BY <1>0, <1>4, <1>8 DEF steadyVars, vars, TypeOK
<1> QED
  BY <1>2, <1>3, <1>5, <1>6, <1>7, <1>8 DEF Next

LEMMA RInvariant == Spec => []RInv
BY RInvInit, RInvStep, PTL DEF Spec

(* Weights, entries, the index and the excluded servers keep their types,  *)
(* and the index stays within its bound (PickServer's critical section).   *)
THEOREM TypeCorrect == Spec => []TypeOK
<1>1. RInv => TypeOK
  BY DEF RInv
<1> QED
  BY <1>1, RInvariant, PTL

(* However retries exclude servers, servers fail and recover and weights   *)
(* change, no entry of currentWeights passes twice what the other servers  *)
(* can weigh.                                                              *)
THEOREM EntriesBounded == Spec => []Bounded
<1>1. RInv => Bounded
  <2> SUFFICES ASSUME RInv, NEW i \in Servers
               PROVE  -Limit <= currentWeights[i] /\ currentWeights[i] <= Limit
    BY DEF Bounded
  <2>1. Heaviness \in Nat /\ currentWeights \in [Servers -> Int]
        /\ Within(currentWeights, Heaviness)
    BY WeightsTyped DEF RInv, GroupsWithin, TypeOK
  <2> QED
    BY <2>1, WithinOne DEF Limit
<1> QED
  BY <1>1, RInvariant, PTL

(* Nobody with a weight is passed over more than 2 * Limit times in a row. *)
THEOREM NobodyStarves == Spec => []NoStarvation
<1>1. RInv => NoStarvation
  <2> SUFFICES ASSUME RInv, NEW i \in Servers
               PROVE  waited[i] <= 2 * Limit
    BY DEF NoStarvation
  <2>1. Heaviness \in Nat /\ currentWeights \in [Servers -> Int] /\ waited \in [Servers -> Nat]
        /\ Within(currentWeights, Heaviness) /\ Patience
    BY WeightsTyped DEF RInv, GroupsWithin, TypeOK
  <2>2. currentWeights[i] <= Limit /\ Limit \in Nat
    BY <2>1, WithinOne, LimitNat DEF Limit
  <2> QED
    BY <2>1, <2>2 DEF Patience
<1> QED
  BY <1>1, RInvariant, PTL

-------------------------------------------------------------------------------
(* The calm rotation.  T is the total of the weights w, P the picks so far *)
(* in the cycle and s those of each server: each entry of cw is what the   *)
(* server is owed, in T-ths of a pick.                                     *)
Cycle(w, cw, s, P, T) ==
  /\ SumOver(cw, Servers) = 0
  /\ \A i \in Servers : /\ s[i] <= w[i]
                        /\ cw[i] = P * w[i] - s[i] * T
                        /\ cw[i] > -T
                        /\ N <= 3 => cw[i] < T

LEMMA CycleStep ==
  ASSUME NEW w \in [Servers -> Nat], NEW T \in Nat, SumOver(w, Servers) = T, T > 0,
         NEW cw \in [Servers -> Int], NEW s \in [Servers -> Nat], NEW P \in 0..(T - 1),
         Cycle(w, cw, s, P, T), NEW c \in Servers, NEW Q, Q = {i \in Servers : w[i] > 0},
         SumOver(w, Q) = T,
         \A j \in Q : RaisedOver(cw, w, Q)[j] <= RaisedOver(cw, w, Q)[c]
  PROVE  Cycle(w, After(cw, w, Q, c), [s EXCEPT ![c] = @ + 1], P + 1, T)
<1> DEFINE raised == RaisedOver(cw, w, Q)
           new == After(cw, w, Q, c)
           t == [s EXCEPT ![c] = @ + 1]
<1>1. IsFiniteSet(Servers) /\ Cardinality(Servers) = N /\ N \in Nat /\ Servers \in SUBSET Servers
      /\ Q \in SUBSET Servers
  BY ServersFinite
<1>2. raised \in [Servers -> Int]
  BY <1>1, RaisedTyped
<1>3. ASSUME NEW i \in Servers
      PROVE  /\ w[i] \in Nat /\ s[i] \in Nat /\ cw[i] \in Int /\ s[i] <= w[i]
             /\ raised[i] = cw[i] + w[i]
             /\ raised[i] = (P + 1) * w[i] - s[i] * T
             /\ raised[i] >= 1 - T
  <2>1. /\ w[i] \in Nat /\ s[i] \in Nat /\ cw[i] \in Int /\ s[i] <= w[i]
        /\ cw[i] = P * w[i] - s[i] * T /\ cw[i] > -T
    BY DEF Cycle
  <2>2. raised[i] = cw[i] + w[i]
    <3>1. CASE i \in Q
      BY <3>1 DEF RaisedOver
    <3>2. CASE i \notin Q
      <4>1. w[i] = 0 /\ s[i] = 0
        BY <2>1, <3>2
      <4>2. cw[i] = 0 /\ raised[i] = 0
        BY <2>1, <3>2, <4>1 DEF RaisedOver
      <4> QED
        BY <4>1, <4>2
    <3> QED
      BY <3>1, <3>2
  <2>3. (P + 1) * w[i] = P * w[i] + w[i]
    BY <2>1
  <2>4. P * w[i] \in Int /\ s[i] * T \in Int
    BY <2>1
  <2> QED
    BY <2>1, <2>2, <2>3, <2>4
<1>4. SumOver(raised, Servers) = T
  <2>1. \A i \in Servers : cw[i] \in Int /\ w[i] \in Int /\ raised[i] = cw[i] + w[i]
    BY <1>3
  <2>2. SumOver(raised, Servers) = SumOver(cw, Servers) + SumOver(w, Servers)
    <3> HIDE DEF raised
    <3> QED
      BY <1>1, <2>1, SumPlus
  <2> QED
    BY <2>2 DEF Cycle
<1>5. raised[c] >= 1
  <2>1. \A i \in Servers : raised[i] \in Int
    BY <1>2
  <2>2. PICK j \in Servers : raised[j] > 0
    BY <1>1, <1>4, <2>1, SumPositive
  <2>3. j \in Q
    BY <2>2 DEF RaisedOver
  <2> QED
    BY <2>1, <2>2, <2>3
<1>6. s[c] < w[c]
  <2>0. s[c] <= w[c] /\ s[c] \in Nat /\ w[c] \in Nat
    BY <1>3
  <2>1. SUFFICES ASSUME s[c] = w[c] PROVE FALSE
    BY <2>0
  <2>2. (P + 1) * w[c] - w[c] * T = w[c] * (P + 1 - T)
    BY <1>3
  <2>3. w[c] * (P + 1 - T) <= 0
    <3>1. T - (P + 1) \in Nat /\ w[c] \in Nat
      BY <1>3
    <3>2. w[c] * (T - (P + 1)) \in Nat
      BY <3>1
    <3>3. w[c] * (P + 1 - T) = -(w[c] * (T - (P + 1)))
      BY <3>1
    <3> QED
      BY <3>2, <3>3
  <2>4. raised[c] = (P + 1) * w[c] - w[c] * T
    BY <1>3, <2>1
  <2> QED
    BY <1>5, <2>2, <2>3, <2>4
<1>7. /\ new[c] = raised[c] - T
      /\ \A i \in Servers : i # c => new[i] = raised[i]
      /\ new \in [Servers -> Int]
  <2>1. new = [raised EXCEPT ![c] = @ - T]
    BY DEF After
  <2> HIDE DEF raised, new
  <2> QED
    BY <1>2, <2>1
<1> HIDE DEF raised, new
<1>8. SumOver(new, Servers) = 0
  <2>1. \A i \in Servers : new[i] \in Int /\ raised[i] \in Int /\ (i # c => new[i] = raised[i])
    BY <1>2, <1>7
  <2>2. SumOver(new, Servers) = SumOver(raised, Servers) - raised[c] + new[c]
    BY <1>1, <2>1, SumChange
  <2>3. raised[c] \in Int
    BY <1>2
  <2> QED
    BY <1>4, <1>7, <2>2, <2>3
<1>9. ASSUME NEW i \in Servers
      PROVE  t[i] <= w[i] /\ new[i] = (P + 1) * w[i] - t[i] * T /\ new[i] > -T
  <2>1. CASE i = c
    <3>1. t[i] = s[c] + 1 /\ s[c] \in Nat /\ w[c] \in Nat /\ raised[c] \in Int
      BY <1>2, <2>1
    <3>2. t[i] * T = s[c] * T + T /\ s[c] * T \in Int /\ (P + 1) * w[c] \in Int
      BY <3>1
    <3>3. raised[c] = (P + 1) * w[c] - s[c] * T
      BY <1>3
    <3> QED
      BY <1>5, <1>6, <1>7, <2>1, <3>1, <3>2, <3>3
  <2>2. CASE i # c
    <3>1. t[i] = s[i] /\ new[i] = raised[i] /\ raised[i] \in Int
      BY <1>2, <1>7, <2>2
    <3> QED
      BY <1>3, <3>1
  <2> QED
    BY <2>1, <2>2
<1>10. ASSUME NEW i \in Servers, N <= 3
       PROVE  new[i] < T
  <2>1. CASE i = c
    <3>1. w[c] <= T
      <4>1. \A x \in Servers : w[x] \in Int /\ w[x] \in Nat
        OBVIOUS
      <4>2. SumOver(w, Servers) = w[c] + SumOver(w, Servers \ {c})
        BY <1>1, <4>1, SumRemove
      <4>3. SumOver(w, Servers \ {c}) \in Nat
        BY GroupSum
      <4> QED
        BY <4>1, <4>2, <4>3
    <3>2. cw[c] < T /\ cw[c] \in Int /\ w[c] \in Nat
      BY <1>10 DEF Cycle
    <3>3. new[c] = cw[c] + w[c] - T
      BY <1>3, <1>7
    <3> QED
      BY <2>1, <3>1, <3>2, <3>3
  <2>2. CASE i # c
    <3> DEFINE R == (Servers \ {c}) \ {i}
    <3>1. \A x \in Servers : raised[x] \in Int
      BY <1>2
    <3>2. SumOver(raised, Servers) = raised[c] + SumOver(raised, Servers \ {c})
      BY <1>1, <3>1, SumRemove
    <3>3. /\ IsFiniteSet(Servers \ {c}) /\ i \in Servers \ {c}
          /\ Cardinality(Servers \ {c}) = N - 1
      BY <1>1, <2>2, CardRemove
    <3>4. SumOver(raised, Servers \ {c}) = raised[i] + SumOver(raised, R)
      BY <3>1, <3>3, SumRemove
    <3>5. IsFiniteSet(R) /\ Cardinality(R) = N - 2 /\ Cardinality(R) \in Nat
      <4>1. IsFiniteSet(R) /\ Cardinality(R) = Cardinality(Servers \ {c}) - 1
        BY <3>3, CardRemove
      <4>2. Cardinality(R) \in Nat
        BY <4>1, FS_CardinalityType
      <4> HIDE DEF R
      <4> QED
        BY <1>1, <3>3, <4>1, <4>2
    <3>6. (1 - T) * Cardinality(R) <= SumOver(raised, R)
      <4>1. \A x \in R : raised[x] \in Int /\ 1 - T <= raised[x]
        BY <1>3, <3>1
      <4>2. 1 - T \in Int
        OBVIOUS
      <4> QED
        BY <3>5, <4>1, <4>2, SumAtLeast
    <3>7. SumOver(raised, R) \in Int
      BY <1>2, GroupSum
    <3>8. Cardinality(R) = 0 \/ Cardinality(R) = 1
      BY <1>1, <1>10, <3>5
    <3>9. 1 - T <= SumOver(raised, R)
      BY <3>6, <3>7, <3>8
    <3>10. raised[i] <= raised[c]
      <4>1. CASE i \in Q
        BY <4>1 DEF raised
      <4>2. CASE i \notin Q
        <5>1. raised[i] = 0
          BY <4>2 DEF raised, RaisedOver
        <5> QED
          BY <1>2, <1>5, <5>1
      <4> QED
        BY <4>1, <4>2
    <3>11. new[i] = raised[i] /\ raised[i] \in Int /\ raised[c] \in Int
      BY <1>2, <1>7, <2>2
    <3> HIDE DEF R
    <3> QED
      BY <1>4, <3>2, <3>4, <3>7, <3>9, <3>10, <3>11
  <2> QED
    BY <2>1, <2>2
<1> QED
  BY <1>8, <1>9, <1>10 DEF Cycle, new

(* Nobody is owed anything at the start of a cycle. *)
LEMMA CycleStart ==
  ASSUME NEW w \in [Servers -> Nat], NEW T \in Nat, T > 0,
         NEW cw \in [Servers -> Int], \A i \in Servers : cw[i] = 0,
         NEW s, s = [i \in Servers |-> 0]
  PROVE  Cycle(w, cw, s, 0, T)
<1>1. SumOver(cw, Servers) = 0 * Cardinality(Servers)
  BY ServersFinite, SumConstant
<1>2. SumOver(cw, Servers) = 0
  BY <1>1, ServersFinite
<1>3. ASSUME NEW i \in Servers
      PROVE  s[i] <= w[i] /\ cw[i] = 0 * w[i] - s[i] * T /\ cw[i] > -T /\ cw[i] < T
  <2>1. s[i] = 0 /\ w[i] \in Nat /\ cw[i] = 0
    OBVIOUS
  <2>2. s[i] <= w[i]
    BY <2>1
  <2>3. 0 * w[i] - s[i] * T = 0
    BY <2>1
  <2> QED
    BY <2>1, <2>2, <2>3
<1> QED
  BY <1>2, <1>3 DEF Cycle

(* A cycle that is over has given everybody its weight.                    *)
LEMMA CycleEnd ==
  ASSUME NEW w \in [Servers -> Nat], NEW T \in Nat, SumOver(w, Servers) = T,
         NEW cw \in [Servers -> Int], NEW s \in [Servers -> Nat],
         SumOver(s, Servers) = T, Cycle(w, cw, s, T, T)
  PROVE  \A i \in Servers : s[i] = w[i] /\ cw[i] = 0
<1>1. \A i \in Servers : s[i] \in Int /\ w[i] \in Int /\ s[i] <= w[i]
  BY DEF Cycle
<1>2. \A i \in Servers : s[i] = w[i]
  BY <1>1, ServersFinite, SumTight
<1>3. \A i \in Servers : cw[i] = T * w[i] - s[i] * T
  BY DEF Cycle
<1> TAKE i \in Servers
<1>4. T * w[i] - w[i] * T = 0
  OBVIOUS
<1> QED
  BY <1>2, <1>3, <1>4

(* One more pick of c is one more pick. *)
LEMMA OneMore ==
  ASSUME NEW s \in [Servers -> Nat], NEW c \in Servers
  PROVE  SumOver([s EXCEPT ![c] = @ + 1], Servers) = SumOver(s, Servers) + 1
<1> DEFINE t == [s EXCEPT ![c] = @ + 1]
<1>1. \A i \in Servers : s[i] \in Int /\ t[i] \in Int /\ (i # c => t[i] = s[i])
  OBVIOUS
<1>2. t[c] = s[c] + 1 /\ s[c] \in Int
  OBVIOUS
<1>3. SumOver(s, Servers) \in Nat
  BY GroupSum
<1> HIDE DEF t
<1>4. SumOver(t, Servers) = SumOver(s, Servers) - s[c] + t[c]
  BY <1>1, ServersFinite, SumChange
<1>5. SumOver(t, Servers) = SumOver(s, Servers) + 1
  BY <1>2, <1>3, <1>4
<1> QED
  BY <1>5 DEF t

(* The remainder is unique, so counting modulo a multiple of n counts      *)
(* modulo n.                                                               *)
LEMMA Remainder ==
  ASSUME NEW n \in Nat, n > 0
  PROVE  \A x, q \in Int : \A r \in 0..(n - 1) : x = n * q + r => x % n = r
<1> SUFFICES ASSUME NEW x \in Int, NEW q \in Int, NEW r \in 0..(n - 1), x = n * q + r
             PROVE  x % n = r
  OBVIOUS
<1> QED
  OBVIOUS

LEMMA NextRemainder ==
  ASSUME NEW n \in Nat, n > 0, NEW f \in Nat
  PROVE  (f + 1) % n = IF f % n = n - 1 THEN 0 ELSE (f % n) + 1
<1>1. PICK q \in Int, r \in 0..(n - 1) : f = n * q + r /\ f % n = r
  <2>1. f = n * (f \div n) + (f % n) /\ f % n \in 0..(n - 1) /\ f \div n \in Int
    OBVIOUS
  <2> QED
    BY <2>1
<1>2. CASE r = n - 1
  <2>1. f + 1 = n * (q + 1) + 0
    BY <1>1, <1>2
  <2>2. PICK p \in Int : f + 1 = n * p + 0
    BY <2>1
  <2>3. (f + 1) % n = 0
    BY <2>2, Remainder
  <2> QED
    BY <1>1, <1>2, <2>3
<1>3. CASE r # n - 1
  <2>1. f + 1 = n * q + (r + 1) /\ r + 1 \in 0..(n - 1) /\ f + 1 \in Int
    BY <1>1, <1>3
  <2>2. (f + 1) % n = r + 1
    BY <2>1, Remainder
  <2> QED
    BY <1>1, <1>3, <2>2
<1> QED
  BY <1>2, <1>3

LEMMA NextTurn ==
  ASSUME NEW n \in Nat, n > 0, NEW m \in Nat, m > 0, m % n = 0, NEW f \in 0..(m - 1)
  PROVE  ((f + 1) % m) % n = IF f % n = n - 1 THEN 0 ELSE (f % n) + 1
<1>0. (f + 1) % n = IF f % n = n - 1 THEN 0 ELSE (f % n) + 1
  <2>1. f \in Nat
    OBVIOUS
  <2> QED
    BY <2>1, NextRemainder, Zenon
<1>1. CASE f + 1 = m
  <2>1. (f + 1) % m = 0 /\ 0 % n = 0
    <3>1. m = m * 1 + 0 /\ 0 = n * 0 + 0
      OBVIOUS
    <3>2. m % m = 0
      BY <3>1, Remainder
    <3>3. 0 % n = 0
      BY <3>1, Remainder
    <3> QED
      BY <1>1, <3>2, <3>3
  <2>2. (f + 1) % n = 0
    BY <1>1
  <2>3. ((f + 1) % m) % n = (f + 1) % n
    BY <2>1, <2>2, Zenon
  <2> QED
    BY <1>0, <2>3, Zenon
<1>2. CASE f + 1 < m
  <2>1. (f + 1) % m = f + 1
    <3>1. f + 1 = m * 0 + (f + 1) /\ f + 1 \in 0..(m - 1) /\ f + 1 \in Int
      BY <1>2
    <3> QED
      BY <3>1, Remainder
  <2>2. ((f + 1) % m) % n = (f + 1) % n
    BY <2>1, Zenon
  <2> QED
    BY <1>0, <2>2, Zenon
<1> QED
  BY <1>1, <1>2

(* The server whose turn it is: the first f + 1 are counted off.           *)
LEMMA TurnIs ==
  ASSUME TypeOK
  PROVE  InTurn(Servers) = (fallbackIndex % N) + 1 /\ fallbackIndex % N \in 0..(N - 1)
<1> DEFINE below(i) == {j \in Servers : j < i}
           r == fallbackIndex % N
<1>0. N \in Nat /\ N > 0 /\ Cardinality(Servers) = N
  BY ServersFinite
<1>1. r \in 0..(N - 1)
  BY <1>0 DEF TypeOK
<1>2. ASSUME NEW i \in Servers
      PROVE  Cardinality(below(i)) = i - 1
  <2>1. below(i) = 1..(i - 1) /\ i - 1 \in Nat /\ i \in Nat
    BY <1>0 DEF Servers
  <2>2. Cardinality(1..(i - 1)) = i - 1
    BY <2>1, FS_Interval
  <2> QED
    BY <2>1, <2>2
<1>3. r + 1 \in Servers /\ \A i \in Servers : i \in Nat
  BY <1>0, <1>1 DEF Servers
<1>4. \A i \in Servers : Cardinality(below(i)) = r <=> i = r + 1
  BY <1>1, <1>2, <1>3
<1>5. InTurn(Servers) = CHOOSE i \in Servers : Cardinality(below(i)) = r
  BY <1>0 DEF InTurn
<1> HIDE DEF below, r
<1>6. InTurn(Servers) = r + 1
  BY <1>3, <1>4, <1>5
<1> QED
  BY <1>1, <1>6 DEF r

-------------------------------------------------------------------------------
(* The inductive invariant of the calm rotation: what the servers are owed *)
(* follows from what they got in this cycle or, without any weights, the   *)
(* first ones in line have had their turn.                                 *)
Turns ==
  /\ currentWeights = [i \in Servers |-> 0]
  /\ fallbackIndex % N = IF Picked = N THEN 0 ELSE Picked
  /\ \A i \in Servers : served[i] = IF i <= Picked THEN 1 ELSE 0

Rotation ==
  calm => /\ up = [i \in Servers |-> TRUE]
          /\ Picked <= Length
          /\ Total(Servers) > 0 =>
                Cycle(weight, currentWeights, served, Picked, Total(Servers))
          /\ Total(Servers) = 0 => Turns

SInv == RInv /\ served \in [Servers -> Nat] /\ Rotation

LEMMA TotalIsSumNext == Total(Servers)' = SumOver(weight', Servers)
BY DEF Total, SumOver, MapThenSumSet, MapThenFoldSet

LEMMA TotalNat == TypeOK => Total(Servers) \in Nat
BY WeightsTyped, GroupSum, TotalIsSum

LEMMA PickedNat == served \in [Servers -> Nat] => Picked \in Nat
BY GroupSum, PickedIsSum

LEMMA SInvInit == SteadyInit => SInv
<1> SUFFICES ASSUME SteadyInit PROVE SInv
  OBVIOUS
<1>1. RInv /\ TypeOK /\ served \in [Servers -> Nat]
  BY RInvInit DEF SteadyInit, RInv
<1>2. Picked = 0
  <2>1. SumOver(served, Servers) = 0 * Cardinality(Servers)
    BY ServersFinite, SumConstant DEF SteadyInit
  <2> QED
    BY <2>1, ServersFinite, PickedIsSum
<1>3. Total(Servers) \in Nat /\ Length \in Nat
  BY <1>1, TotalNat, ServersFinite DEF Length
<1>4. Total(Servers) > 0 => Cycle(weight, currentWeights, served, Picked, Total(Servers))
  <2>1. /\ weight \in [Servers -> Nat] /\ currentWeights \in [Servers -> Int]
        /\ \A i \in Servers : currentWeights[i] = 0
        /\ served = [i \in Servers |-> 0]
    BY <1>1, WeightsTyped DEF SteadyInit, Init
  <2> QED
    BY <1>2, <1>3, <2>1, CycleStart
<1>5. Turns
  <2>1. 0 % N = 0 /\ N # 0
    BY ServersFinite
  <2>2. \A i \in Servers : ~(i <= 0)
    BY ServersFinite DEF Servers
  <2> QED
    BY <1>2, <2>1, <2>2 DEF Turns, SteadyInit, Init
<1> QED
  BY <1>1, <1>2, <1>3, <1>4, <1>5 DEF SInv, Rotation, SteadyInit, Init

(* A pick while nothing is disturbed, when there are weights. *)
LEMMA ServeWeighted ==
  ASSUME SInv, calm, NEW c \in Servers, Serve(c), Total(Servers) > 0
  PROVE  /\ Cycle(weight, currentWeights', served', Picked', Total(Servers))
         /\ Picked' <= Total(Servers) /\ served' \in [Servers -> Nat]
<1> DEFINE T == Total(Servers)
           Q == Weighted(Servers)
           P == IF Picked = T THEN 0 ELSE Picked
           s == IF Picked = T THEN [j \in Servers |-> 0] ELSE served
<1>1. /\ TypeOK /\ served \in [Servers -> Nat] /\ weight \in [Servers -> Nat]
      /\ currentWeights \in [Servers -> Int] /\ T \in Nat /\ T > 0 /\ Picked \in Nat
  BY WeightsTyped, TotalNat, PickedNat DEF SInv, RInv, TypeOK
<1>2. /\ up = [i \in Servers |-> TRUE] /\ Picked <= T
      /\ Cycle(weight, currentWeights, served, Picked, T) /\ Length = T
  BY DEF SInv, Rotation, Length
<1>3. Candidates({}) = Servers
  BY <1>2 DEF Candidates
<1>4. Weigh(Servers, c)
  BY <1>1, <1>3 DEF Serve, PickServer, TakeTurns
<1>5. /\ currentWeights' = After(currentWeights, weight, Q, c)
      /\ \A j \in Q : RaisedOver(currentWeights, weight, Q)[j]
                        <= RaisedOver(currentWeights, weight, Q)[c]
  BY <1>1, <1>4, WeighIs
<1>6. SumOver(weight, Servers) = T /\ SumOver(weight, Q) = T /\ Q = {i \in Servers : weight[i] > 0}
  BY <1>1, RaisedIs, TotalIsSum DEF Weighted
<1>7. s \in [Servers -> Nat] /\ P \in 0..(T - 1) /\ Cycle(weight, currentWeights, s, P, T)
      /\ SumOver(s, Servers) = P
  <2>1. CASE Picked = T
    <3>1. \A i \in Servers : currentWeights[i] = 0
      BY <1>1, <1>2, <1>6, <2>1, CycleEnd, PickedIsSum
    <3>2. s = [j \in Servers |-> 0] /\ P = 0
      BY <2>1
    <3>3. Cycle(weight, currentWeights, s, 0, T)
      <4> HIDE DEF T, s
      <4> QED
        BY <1>1, <3>1, <3>2, CycleStart
    <3>4. SumOver(s, Servers) = 0 * Cardinality(Servers)
      <4>1. \A i \in Servers : s[i] = 0
        BY <3>2
      <4> QED
        BY <4>1, ServersFinite, SumConstant
    <3> QED
      BY <1>1, <3>2, <3>3, <3>4, ServersFinite
  <2>2. CASE Picked # T
    BY <1>1, <1>2, <2>2, PickedIsSum
  <2> QED
    BY <2>1, <2>2
<1>8. served' = [s EXCEPT ![c] = @ + 1]
  BY <1>2 DEF Serve
<1>9. Picked' = P + 1 /\ served' \in [Servers -> Nat]
  <2> HIDE DEF s, P
  <2>1. SumOver([s EXCEPT ![c] = @ + 1], Servers) = P + 1
    BY <1>7, OneMore
  <2> QED
    BY <1>7, <1>8, <2>1, PickedIsSumNext
<1>10. Cycle(weight, currentWeights', served', P + 1, T)
  <2> HIDE DEF s, P, T, Q
  <2>1. Cycle(weight, After(currentWeights, weight, Q, c), [s EXCEPT ![c] = @ + 1], P + 1, T)
    BY <1>1, <1>5, <1>6, <1>7, CycleStep
  <2> QED
    BY <1>5, <1>8, <2>1
<1> QED
  BY <1>1, <1>7, <1>9, <1>10

(* A pick while nothing is disturbed, when there are no weights. *)
LEMMA ServeInTurn ==
  ASSUME SInv, calm, NEW c \in Servers, Serve(c), Total(Servers) = 0
  PROVE  Turns' /\ Picked' <= N /\ served' \in [Servers -> Nat]
<1> DEFINE P == IF Picked = N THEN 0 ELSE Picked
           s == IF Picked = N THEN [j \in Servers |-> 0] ELSE served
<1>1. /\ TypeOK /\ served \in [Servers -> Nat] /\ Picked \in Nat /\ N \in Nat /\ N > 0
  BY PickedNat, ServersFinite DEF SInv, RInv
<1>2. up = [i \in Servers |-> TRUE] /\ Picked <= N /\ Turns /\ Length = N
  BY DEF SInv, Rotation, Length
<1>3. Candidates({}) = Servers
  BY <1>2 DEF Candidates
<1>4. TakeTurns(Servers, c)
  BY <1>3 DEF Serve, PickServer, Weigh
<1>5. /\ fallbackIndex % N = P /\ P \in 0..(N - 1)
      /\ \A i \in Servers : s[i] = IF i <= P THEN 1 ELSE 0
  <2>1. \A i \in Servers : ~(i <= 0)
    BY <1>1 DEF Servers
  <2> QED
    BY <1>1, <1>2, <2>1 DEF Turns
<1>6. c = P + 1
  BY <1>1, <1>4, <1>5, TurnIs DEF TakeTurns
<1>7. s \in [Servers -> Nat] /\ SumOver(s, Servers) = P
  <2>1. CASE Picked = N
    <3>1. \A i \in Servers : s[i] = 0
      BY <2>1
    <3>2. SumOver(s, Servers) = 0 * Cardinality(Servers)
      BY <3>1, ServersFinite, SumConstant
    <3> QED
      BY <1>1, <2>1, <3>2, ServersFinite
  <2>2. CASE Picked # N
    BY <1>1, <2>2, PickedIsSum
  <2> QED
    BY <2>1, <2>2
<1>8. served' = [s EXCEPT ![c] = @ + 1]
  BY <1>2 DEF Serve
<1>9. Picked' = P + 1 /\ served' \in [Servers -> Nat]
  <2> HIDE DEF s, P
  <2>1. SumOver([s EXCEPT ![c] = @ + 1], Servers) = P + 1
    BY <1>7, OneMore
  <2> QED
    BY <1>7, <1>8, <2>1, PickedIsSumNext
<1>10. \A i \in Servers : served'[i] = IF i <= P + 1 THEN 1 ELSE 0
  <2> TAKE i \in Servers
  <2>1. i \in Nat
    BY <1>1 DEF Servers
  <2>2. CASE i = c
    <3>1. s[c] = 0
      BY <1>5, <1>6
    <3>2. served'[i] = 1
      BY <1>7, <1>8, <2>2, <3>1
    <3> QED
      BY <1>6, <2>2, <3>2
  <2>3. CASE i # c
    <3>1. served'[i] = s[i] /\ s[i] = IF i <= P THEN 1 ELSE 0
      BY <1>5, <1>7, <1>8, <2>3
    <3>2. i <= P + 1 <=> i <= P
      BY <1>5, <1>6, <2>1, <2>3
    <3> QED
      BY <3>1, <3>2
  <2> QED
    BY <2>2, <2>3
<1>11. fallbackIndex' % N = IF P + 1 = N THEN 0 ELSE P + 1
  <2>1. fallbackIndex' = (fallbackIndex + 1) % Wrap
    BY <1>4 DEF TakeTurns
  <2>2. Wrap \in Nat /\ Wrap > 0 /\ Wrap % N = 0 /\ fallbackIndex \in 0..(Wrap - 1)
    <3>1. N \in 1..N
      BY <1>1
    <3>2. Wrap % N = 0
      BY <3>1, WRRAssumption, Zenon DEF WRRAssumption
    <3> QED
      BY <1>1, <3>2, WRRAssumption DEF WRRAssumption, TypeOK
  <2>3. ((fallbackIndex + 1) % Wrap) % N
          = IF fallbackIndex % N = N - 1 THEN 0 ELSE (fallbackIndex % N) + 1
    BY <1>1, <2>2, NextTurn
  <2>4. ((fallbackIndex + 1) % Wrap) % N = IF P = N - 1 THEN 0 ELSE P + 1
    <3> HIDE DEF P
    <3> QED
      BY <1>5, <2>3, Zenon
  <2>5. P = N - 1 <=> P + 1 = N
    BY <1>1, <1>5
  <2> HIDE DEF P
  <2> QED
    BY <2>1, <2>4, <2>5, Zenon
<1>12. currentWeights' = [i \in Servers |-> 0]
  BY <1>4 DEF TakeTurns
<1>13. Turns'
  <2> HIDE DEF P
  <2> QED
    BY <1>9, <1>10, <1>11, <1>12 DEF Turns
<1> QED
  BY <1>1, <1>5, <1>9, <1>13

LEMMA SInvStep == SInv /\ [Next]_steadyVars => SInv'
<1> SUFFICES ASSUME SInv, [Next]_steadyVars PROVE SInv'
  OBVIOUS
<1>1. RInv' /\ served \in [Servers -> Nat] /\ Rotation /\ TypeOK /\ calm \in BOOLEAN
  BY RInvStep DEF SInv, RInv, TypeOK
<1>2. ASSUME calm, NEW c \in Servers, Serve(c)
      PROVE  SInv'
  <2>1. UNCHANGED <<calm, weight, up>>
    BY <1>2 DEF Serve
  <2>2. Total(Servers)' = Total(Servers) /\ Total(Servers) \in Nat /\ Length' = Length
    <3>1. Total(Servers)' = Total(Servers)
      BY <2>1, TotalIsSum, TotalIsSumNext
    <3> QED
      BY <1>1, <3>1, TotalNat DEF Length
  <2>3. up' = [i \in Servers |-> TRUE]
    BY <1>1, <1>2, <2>1 DEF Rotation
  <2>4. CASE Total(Servers) > 0
    <3>1. /\ Cycle(weight, currentWeights', served', Picked', Total(Servers))
          /\ Picked' <= Total(Servers) /\ served' \in [Servers -> Nat]
      BY <1>2, <2>4, ServeWeighted
    <3>2. Length' = Total(Servers)
      BY <2>2, <2>4 DEF Length
    <3>3. ~(Total(Servers)' = 0)
      BY <2>2, <2>4
    <3>4. Cycle(weight, currentWeights, served, Picked, Total(Servers))'
      BY <2>1, <2>2, <3>1 DEF Cycle
    <3> QED
      BY <1>1, <2>3, <3>1, <3>2, <3>3, <3>4 DEF SInv, Rotation
  <2>5. CASE Total(Servers) = 0
    <3>1. Turns' /\ Picked' <= N /\ served' \in [Servers -> Nat]
      BY <1>2, <2>5, ServeInTurn
    <3>2. Length' = N /\ ~(Total(Servers)' > 0)
      BY <2>2, <2>5 DEF Length
    <3> QED
      BY <1>1, <2>3, <3>1, <3>2 DEF SInv, Rotation
  <2> QED
    BY <2>2, <2>4, <2>5
<1>3. ASSUME ~calm, UNCHANGED <<calm, served>>
      PROVE  SInv'
  BY <1>1, <1>3 DEF SInv, Rotation
<1>4. ASSUME UNCHANGED steadyVars
      PROVE  SInv'
  <2>1. Picked' = Picked /\ Total(Servers)' = Total(Servers) /\ Length' = Length
    BY <1>4, PickedIsSum, PickedIsSumNext, TotalIsSum, TotalIsSumNext DEF Length, steadyVars, vars
  <2> QED
    BY <1>1, <1>4, <2>1 DEF SInv, Rotation, Turns, Cycle, steadyVars, vars
<1>5. Next => \/ \E c \in Servers : calm /\ Serve(c)
              \/ ~calm /\ UNCHANGED <<calm, served>>
  BY DEF Next, Dispatch, Answer, Flip, Reweigh
<1> QED
  BY <1>2, <1>3, <1>4, <1>5

LEMMA SInvariant == Spec => []SInv
BY SInvInit, SInvStep, PTL DEF Spec

(* While nothing is disturbed every cycle of picks gives each server as    *)
(* many as its weight, or one if no server has a weight, and leaves every  *)
(* entry of currentWeights at zero: for any number of servers and any      *)
(* weights.                                                                *)
THEOREM SharesExact == Spec => []ExactShare
<1>1. SInv => ExactShare
  <2> SUFFICES ASSUME SInv, calm, Picked = Length, NEW i \in Servers
               PROVE  served[i] = Share(i) /\ currentWeights[i] = 0
    BY DEF ExactShare
  <2>1. TypeOK /\ Rotation /\ Total(Servers) \in Nat /\ served \in [Servers -> Nat]
        /\ weight \in [Servers -> Nat] /\ currentWeights \in [Servers -> Int]
    BY TotalNat, WeightsTyped DEF SInv, RInv, TypeOK
  <2>2. CASE Total(Servers) > 0
    <3> DEFINE T == Total(Servers)
    <3>1. /\ Cycle(weight, currentWeights, served, T, T) /\ Share(i) = weight[i]
          /\ SumOver(served, Servers) = T /\ SumOver(weight, Servers) = T
      BY <2>1, <2>2, PickedIsSum, TotalIsSum DEF Rotation, Length, Share
    <3> HIDE DEF T
    <3>2. T \in Nat
      BY <2>1 DEF T
    <3>3. served[i] = weight[i] /\ currentWeights[i] = 0
      BY <2>1, <3>1, <3>2, CycleEnd
    <3> QED
      BY <3>1, <3>3
  <2>3. CASE Total(Servers) = 0
    <3>1. Turns /\ Picked = N /\ Share(i) = 1
      BY <2>1, <2>3 DEF Rotation, Length, Share
    <3>2. i <= N
      BY ServersFinite DEF Servers
    <3> QED
      BY <3>1, <3>2 DEF Turns
  <2> QED
    BY <2>1, <2>2, <2>3
<1> QED
  BY <1>1, SInvariant, PTL

(* How far ahead of its share a server is, in Length-ths of a pick.        *)
Lead(i) == served[i] * Length - Picked * Share(i)

LEMMA LeadBounds ==
  ASSUME SInv, calm, NEW i \in Servers
  PROVE  Lead(i) < Length /\ (N <= 3 => -Length < Lead(i))
<1>1. /\ TypeOK /\ Rotation /\ Total(Servers) \in Nat /\ served[i] \in Nat /\ weight[i] \in Nat
      /\ currentWeights[i] \in Int /\ Picked \in Nat
  BY TotalNat, WeightsTyped, PickedNat DEF SInv, RInv, TypeOK
<1>2. CASE Total(Servers) > 0
  <2>1. /\ Length = Total(Servers) /\ Share(i) = weight[i]
        /\ currentWeights[i] = Picked * weight[i] - served[i] * Total(Servers)
        /\ currentWeights[i] > -Total(Servers)
        /\ N <= 3 => currentWeights[i] < Total(Servers)
    BY <1>1, <1>2 DEF Rotation, Cycle, Length, Share
  <2>2. Lead(i) = -currentWeights[i]
    <3>1. Picked * weight[i] \in Int /\ served[i] * Total(Servers) \in Int
      BY <1>1
    <3>2. Lead(i) = served[i] * Total(Servers) - Picked * weight[i]
      BY <2>1 DEF Lead
    <3> QED
      BY <2>1, <3>1, <3>2
  <2> QED
    BY <1>1, <2>1, <2>2
<1>3. CASE Total(Servers) = 0
  <2>1. /\ Length = N /\ Share(i) = 1 /\ Picked <= N
        /\ served[i] = IF i <= Picked THEN 1 ELSE 0
    BY <1>1, <1>3 DEF Rotation, Turns, Length, Share
  <2>2. i \in 1..N /\ N \in Nat
    BY ServersFinite DEF Servers
  <2>3. Lead(i) = (IF i <= Picked THEN 1 ELSE 0) * N - Picked * 1
    BY <2>1 DEF Lead
  <2>4. CASE i <= Picked
    BY <1>1, <2>1, <2>2, <2>3, <2>4
  <2>5. CASE ~(i <= Picked)
    BY <1>1, <2>1, <2>2, <2>3, <2>5
  <2> QED
    BY <2>4, <2>5
<1> QED
  BY <1>1, <1>2, <1>3

(* While nothing is disturbed no server is ever a whole pick ahead of its  *)
(* share, for any number of servers and any weights.                       *)
NeverAPickAhead == calm => \A i \in Servers : Lead(i) < Length

THEOREM NoneAhead == Spec => []NeverAPickAhead
<1>1. SInv => NeverAPickAhead
  BY LeadBounds DEF NeverAPickAhead
<1> QED
  BY <1>1, SInvariant, PTL

(* Up to three servers, whatever they weigh, none is a whole pick behind   *)
(* its share either.  With five servers weighing 1, 1, 1, 6 and 6 one is.  *)
THEOREM SmoothUpToThree == N <= 3 => (Spec => []Smooth)
<1>1. N <= 3 /\ SInv => Smooth
  <2> SUFFICES ASSUME N <= 3, SInv, calm, NEW i \in Servers
               PROVE  -Length < Lead(i) /\ Lead(i) < Length
    BY DEF Smooth, Lead
  <2> QED
    BY LeadBounds
<1>2. ASSUME N <= 3 PROVE SInv => Smooth
  BY <1>1, <1>2
<1> SUFFICES ASSUME N <= 3 PROVE Spec => []Smooth
  OBVIOUS
<1> QED
  BY <1>2, SInvariant, PTL

===============================================================================
