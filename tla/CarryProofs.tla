----------------------------- MODULE CarryProofs -----------------------------
(***************************************************************************)
(* The proof that a user's ledger and carry hold what was charged: for any *)
(* number of calls, users and days, any prices and any number of units to  *)
(* the cent.                                                               *)
(*                                                                         *)
(* A charge that has landed and is not settled leaves the balance off by a *)
(* shift: the carry it read against the rest it will commit.  So between   *)
(* the settlements the balance is off by the sum of the shifts of the      *)
(* landed charges, and by less than a cent for each slip (Balanced).  The  *)
(* sum is stated without an induction: Tally says of a function on the     *)
(* subsets of a set that it adds up the weights of their elements, and     *)
(* lemmas give such a function for a set with one element more or less.    *)
(***************************************************************************)
EXTENDS CostGuardProofs

(* What is off by k slips at most.                                         *)
Within(n, k) == -((Per - 1) * k) <= n /\ n <= (Per - 1) * k

(* S sums the weights w over every subset of U, each of them less than a   *)
(* cent.                                                                   *)
Tally(S, U, w) ==
    /\ S \in [SUBSET U -> Int]
    /\ S[{}] = 0
    /\ \A T \in SUBSET U : \A c \in U \ T : S[T \cup {c}] = S[T] + w[c]
    /\ \A T \in SUBSET U : Within(S[T], Cardinality(T))

LEMMA Division ==
    ASSUME NEW n \in Nat
    PROVE  (n \div Per) * Per + (n % Per) = n
  BY CostAssumption

LEMMA WithinZero == Within(0, 0)
  BY CostAssumption DEF Within

LEMMA WithinSum ==
    ASSUME NEW n \in Int, NEW m \in Int, NEW k \in Nat, NEW j \in Nat,
           Within(n, k), Within(m, j)
    PROVE  Within(n + m, k + j)
  <1>1. (Per - 1) * (k + j) = (Per - 1) * k + (Per - 1) * j
    BY CostAssumption
  <1>2. (Per - 1) * k \in Int /\ (Per - 1) * j \in Int
    BY CostAssumption
  <1>3. QED BY <1>1, <1>2 DEF Within

LEMMA WithinOne ==
    ASSUME NEW n \in 0 .. Per - 1, NEW m \in 0 .. Per - 1
    PROVE  Within(n - m, 1)
  BY CostAssumption DEF Within

LEMMA WithinNegated ==
    ASSUME NEW n \in Int, NEW k \in Nat, Within(n, k)
    PROVE  Within(-n, k)
  <1>1. (Per - 1) * k \in Int
    BY CostAssumption
  <1>2. QED BY <1>1 DEF Within

LEMMA CallSets ==
    ASSUME NEW U \in SUBSET Calls
    PROVE  IsFiniteSet(U) /\ Cardinality(U) \in Nat
  BY CostAssumption, FS_Subset, FS_CardinalityType

LEMMA TallyEmpty ==
    ASSUME NEW w
    PROVE  \E S : Tally(S, {}, w) /\ S[{}] = 0
  <1> DEFINE S == [T \in SUBSET {} |-> 0]
  <1>1. S \in [SUBSET {} -> Int] /\ S[{}] = 0
    OBVIOUS
  <1>2. \A T \in SUBSET {} : T = {}
    OBVIOUS
  <1>3. Within(S[{}], Cardinality({}))
    BY <1>1, WithinZero, FS_EmptySet
  <1> HIDE DEF S
  <1>4. QED BY <1>1, <1>2, <1>3 DEF Tally

(* The sums depend on the weights of U alone.                              *)
LEMMA TallySame ==
    ASSUME NEW U, NEW S, NEW w, NEW v, \A c \in U : v[c] = w[c], Tally(S, U, w)
    PROVE  Tally(S, U, v)
  BY DEF Tally

(* The sums without an element, and with one more.                         *)
Without(S, U, c) == [T \in SUBSET (U \ {c}) |-> S[T]]
Joined(S, U, w, c) ==
    [T \in SUBSET (U \cup {c}) |-> IF c \in T THEN S[T \ {c}] + w[c] ELSE S[T]]

LEMMA TallyLeave ==
    ASSUME NEW U, NEW S, NEW w, NEW c \in U, w[c] \in Int, Tally(S, U, w)
    PROVE  /\ Tally(Without(S, U, c), U \ {c}, w)
           /\ Without(S, U, c)[U \ {c}] = S[U] - w[c]
  <1> DEFINE V == U \ {c}
             R == Without(S, U, c)
  <1> USE DEF Without
  <1>1. SUBSET V \subseteq SUBSET U
    OBVIOUS
  <1>2. R \in [SUBSET V -> Int]
    BY <1>1 DEF Tally
  <1>3. \A T \in SUBSET V : R[T] = S[T]
    OBVIOUS
  <1>4. R[{}] = 0
    BY <1>3 DEF Tally
  <1>5. ASSUME NEW T \in SUBSET V, NEW b \in V \ T PROVE R[T \cup {b}] = R[T] + w[b]
    <2>1. T \in SUBSET U /\ b \in U \ T /\ T \cup {b} \in SUBSET V
      OBVIOUS
    <2>2. QED BY <2>1, <1>3 DEF Tally
  <1>6. \A T \in SUBSET V : Within(R[T], Cardinality(T))
    BY <1>1, <1>3 DEF Tally
  <1>7. S[U] = S[V] + w[c]
    <2>1. V \in SUBSET U /\ c \in U \ V /\ V \cup {c} = U
      OBVIOUS
    <2>2. QED BY <2>1 DEF Tally
  <1>8. R[V] = S[U] - w[c]
    <2>1. S[V] \in Int
      BY <1>1 DEF Tally
    <2>2. R[V] = S[V]
      BY <1>3
    <2>3. QED BY <2>1, <2>2, <1>7
  <1> HIDE DEF R, Without
  <1>9. Tally(R, V, w)
    BY <1>2, <1>4, <1>5, <1>6 DEF Tally
  <1>10. QED BY <1>8, <1>9 DEF R

LEMMA TallyJoin ==
    ASSUME NEW U \in SUBSET Calls, NEW S, NEW w, NEW c \in Calls \ U,
           w[c] \in Int, Within(w[c], 1), \A b \in U : w[b] \in Int, Tally(S, U, w)
    PROVE  /\ Tally(Joined(S, U, w, c), U \cup {c}, w)
           /\ Joined(S, U, w, c)[U \cup {c}] = S[U] + w[c]
  <1> DEFINE V == U \cup {c}
             R == Joined(S, U, w, c)
  <1> USE DEF Joined
  <1>1. \A T \in SUBSET V : T \ {c} \in SUBSET U /\ (c \notin T => T \in SUBSET U)
    OBVIOUS
  <1>2. \A T \in SUBSET U : S[T] \in Int
    BY DEF Tally
  <1>3. R \in [SUBSET V -> Int]
    BY <1>1, <1>2
  <1>4. \A T \in SUBSET V : /\ c \in T => R[T] = S[T \ {c}] + w[c]
                            /\ c \notin T => R[T] = S[T]
    OBVIOUS
  <1> HIDE DEF R, Joined
  <1>5. R[{}] = 0
    BY <1>4 DEF Tally
  <1>6. ASSUME NEW T \in SUBSET V, NEW b \in V \ T PROVE R[T \cup {b}] = R[T] + w[b]
    <2>1. CASE c \in T
      <3>1. b \in U /\ b \notin T \ {c} /\ (T \cup {b}) \ {c} = (T \ {c}) \cup {b}
        BY <2>1
      <3>2. S[(T \ {c}) \cup {b}] = S[T \ {c}] + w[b]
        BY <3>1, <1>1 DEF Tally
      <3>3. R[T \cup {b}] = S[(T \ {c}) \cup {b}] + w[c]
        <4>1. T \cup {b} \in SUBSET V /\ c \in T \cup {b}
          BY <2>1
        <4>2. QED BY <4>1, <3>1, <1>4
      <3>4. R[T] = S[T \ {c}] + w[c]
        BY <2>1, <1>4
      <3>5. S[T \ {c}] \in Int /\ w[b] \in Int
        BY <3>1, <1>1, <1>2
      <3>6. QED BY <3>2, <3>3, <3>4, <3>5
    <2>2. CASE c \notin T /\ b = c
      <3>1. T \cup {c} \in SUBSET V /\ (T \cup {c}) \ {c} = T
        BY <2>2
      <3>2. QED BY <3>1, <2>2, <1>4
    <2>3. CASE c \notin T /\ b # c
      <3>1. T \in SUBSET U /\ b \in U \ T /\ c \notin T \cup {b} /\ T \cup {b} \in SUBSET V
        BY <2>3
      <3>2. R[T \cup {b}] = S[T \cup {b}] /\ R[T] = S[T]
        BY <3>1, <2>3, <1>4
      <3>3. QED BY <3>1, <3>2 DEF Tally
    <2>4. QED BY <2>1, <2>2, <2>3
  <1>7. ASSUME NEW T \in SUBSET V PROVE Within(R[T], Cardinality(T))
    <2>1. CASE c \in T
      <3> DEFINE Q == T \ {c}
      <3>1. Q \in SUBSET U
        BY <1>1
      <3>2. IsFiniteSet(Q) /\ Cardinality(Q) \in Nat
        BY <3>1, CallSets
      <3>3. Cardinality(T) = Cardinality(Q) + 1
        <4>1. Q \cup {c} = T /\ c \notin Q
          BY <2>1
        <4>2. QED BY <4>1, <3>2, FS_AddElement
      <3>4. Within(S[Q], Cardinality(Q)) /\ S[Q] \in Int
        BY <3>1, <1>2 DEF Tally
      <3>5. Within(S[Q] + w[c], Cardinality(Q) + 1)
        BY <3>2, <3>4, WithinSum
      <3>6. QED BY <2>1, <3>3, <3>5, <1>4
    <2>2. CASE c \notin T
      BY <2>2, <1>1, <1>4 DEF Tally
    <2>3. QED BY <2>1, <2>2
  <1>8. R[V] = S[U] + w[c]
    <2>1. V \ {c} = U /\ V \in SUBSET V /\ c \in V
      OBVIOUS
    <2>2. QED BY <2>1, <1>4
  <1>9. Tally(R, V, w)
    BY <1>3, <1>5, <1>6, <1>7 DEF Tally
  <1>10. QED BY <1>8, <1>9 DEF R

-----------------------------------------------------------------------------
(* What the settlement of a landed charge will change of its user's        *)
(* balance.                                                                *)
Shift(k) == k.prior - ((k.prior + k.amount) % Per)

Shifts == [c \in Calls |-> Shift(call[c])]

(* The balance of a user's day: what ledger and carry hold beyond what was *)
(* charged.                                                                *)
Off(u, d) == ledger[u][d] * Per + CarryOf(u, d) - charged[u][d]

(* The balance is off by the shifts of the charges that have landed and    *)
(* are not settled, and by less than a cent for each slip.                 *)
Balanced(u, d) ==
    \E S : /\ Tally(S, Unsettled(u, d), Shifts)
           /\ Within(Off(u, d) - S[Unsettled(u, d)], slips[u][d])

(* A carry that was read is the rest of a cent.                            *)
Fresh(k) == k.pc \in {"charging", "charged"} => k.prior \in 0 .. Per - 1

CarryInv ==
    /\ \A c \in Calls : Fresh(call[c])
    /\ \A u \in Users, d \in Days : Balanced(u, d)

LEMMA ShiftType ==
    ASSUME NEW k \in CallStates, k.prior \in 0 .. Per - 1
    PROVE  Shift(k) \in Int /\ Within(Shift(k), 1)
  <1>1. k.amount \in Nat /\ k.prior + k.amount \in Nat
    BY CostAssumption DEF CallStates
  <1>2. (k.prior + k.amount) % Per \in 0 .. Per - 1
    BY <1>1, CostAssumption
  <1>3. QED BY <1>2, WithinOne, CostAssumption DEF Shift

LEMMA Amounts ==
    ASSUME TypeOK, NEW u \in Users, NEW d \in Days
    PROVE  /\ ledger[u][d] \in Nat /\ charged[u][d] \in Nat /\ slips[u][d] \in Nat
           /\ carry[u].frac \in 0 .. Per - 1
           /\ CarryOf(u, d) \in 0 .. Per - 1
           /\ Off(u, d) \in Int
  <1>1. /\ ledger[u][d] \in Nat /\ charged[u][d] \in Nat /\ slips[u][d] \in Nat
        /\ carry[u].frac \in 0 .. Per - 1
    BY DEF TypeOK
  <1>2. CarryOf(u, d) \in 0 .. Per - 1
    BY <1>1, CostAssumption DEF CarryOf
  <1>3. ledger[u][d] * Per \in Int
    BY <1>1, CostAssumption
  <1>4. QED BY <1>1, <1>2, <1>3, CostAssumption DEF Off

LEMMA UnsettledCalls == \A u, d : Unsettled(u, d) \in SUBSET Calls
  BY DEF Unsettled

(* The landed charges of a day, and their shifts.                          *)
LEMMA UnsettledShifts ==
    ASSUME TypeOK, CarryInv, NEW u, NEW d, NEW c \in Unsettled(u, d)
    PROVE  Shifts[c] = Shift(call[c]) /\ Shifts[c] \in Int /\ Within(Shifts[c], 1)
  <1>1. c \in Calls /\ call[c] \in CallStates /\ call[c].prior \in 0 .. Per - 1
    BY DEF Unsettled, TypeOK, CarryInv, Fresh
  <1>2. QED BY <1>1, ShiftType DEF Shifts

(* A step that leaves the landed charges of a day alone and moves its      *)
(* balance by e, which k slips pay.                                        *)
LEMMA BalanceMoves ==
    ASSUME TypeOK, CarryInv, NEW u \in Users, NEW d \in Days,
           Unsettled(u, d)' = Unsettled(u, d),
           \A c \in Unsettled(u, d) : call'[c] = call[c],
           NEW e \in Int, NEW k \in Nat, Within(e, k),
           Off(u, d)' = Off(u, d) + e, slips'[u][d] = slips[u][d] + k
    PROVE  Balanced(u, d)'
  <1> DEFINE U == Unsettled(u, d)
  <1>1. PICK S : Tally(S, U, Shifts) /\ Within(Off(u, d) - S[U], slips[u][d])
    BY DEF CarryInv, Balanced
  <1>2. \A c \in U : Shifts'[c] = Shifts[c]
    BY UnsettledCalls DEF Shifts
  <1>3. Tally(S, U, Shifts')
    BY <1>1, <1>2, TallySame
  <1>4. S[U] \in Int
    BY <1>1 DEF Tally
  <1>5. Within((Off(u, d) - S[U]) + e, slips[u][d] + k)
    BY <1>1, <1>4, Amounts, WithinSum
  <1>6. Off(u, d)' - S[U] = (Off(u, d) - S[U]) + e
    BY <1>4, Amounts
  <1>7. Within(Off(u, d)' - S[U], slips'[u][d])
    BY <1>5, <1>6
  <1>8. QED BY <1>3, <1>7 DEF Balanced

LEMMA BalanceStays ==
    ASSUME TypeOK, CarryInv, NEW u \in Users, NEW d \in Days,
           Unsettled(u, d)' = Unsettled(u, d),
           \A c \in Unsettled(u, d) : call'[c] = call[c],
           Off(u, d)' = Off(u, d), slips'[u][d] = slips[u][d]
    PROVE  Balanced(u, d)'
  <1> DEFINE U == Unsettled(u, d)
  <1>1. PICK S : Tally(S, U, Shifts) /\ Within(Off(u, d) - S[U], slips[u][d])
    BY DEF CarryInv, Balanced
  <1>2. \A c \in U : Shifts'[c] = Shifts[c]
    BY UnsettledCalls DEF Shifts
  <1>3. Tally(S, U, Shifts')
    BY <1>1, <1>2, TallySame
  <1>4. QED BY <1>1, <1>3 DEF Balanced

(* A charge that lands moves the balance by its shift.                     *)
LEMMA BalanceJoins ==
    ASSUME TypeOK, CarryInv, NEW u \in Users, NEW d \in Days, NEW c \in Calls \ Unsettled(u, d),
           Unsettled(u, d)' = Unsettled(u, d) \cup {c},
           \A b \in Unsettled(u, d) : call'[b] = call[b],
           NEW e \in Int, Within(e, 1), Shift(call'[c]) = e,
           Off(u, d)' = Off(u, d) + e, slips'[u][d] = slips[u][d]
    PROVE  Balanced(u, d)'
  <1> DEFINE U == Unsettled(u, d)
             w == Shifts'
  <1>1. PICK S : Tally(S, U, Shifts) /\ Within(Off(u, d) - S[U], slips[u][d])
    BY DEF CarryInv, Balanced
  <1>2. \A b \in U : w[b] = Shifts[b]
    BY UnsettledCalls DEF Shifts
  <1>3. w[c] = e
    BY DEF Shifts
  <1> HIDE DEF w
  <1>4. Tally(S, U, w)
    BY <1>1, <1>2, TallySame
  <1>5. \A b \in U : w[b] \in Int
    BY <1>2, UnsettledShifts
  <1> DEFINE R == Joined(S, U, w, c)
  <1>6. Tally(R, U \cup {c}, w) /\ R[U \cup {c}] = S[U] + e
    <2>1. U \in SUBSET Calls /\ c \in Calls \ U /\ w[c] \in Int /\ Within(w[c], 1)
      BY <1>3, UnsettledCalls
    <2> HIDE DEF U
    <2>2. QED BY <2>1, <1>3, <1>4, <1>5, TallyJoin
  <1> HIDE DEF R
  <1>7. S[U] \in Int
    BY <1>1 DEF Tally
  <1>8. Off(u, d)' - R[U \cup {c}] = Off(u, d) - S[U]
    BY <1>6, <1>7, Amounts
  <1>9. Within(Off(u, d)' - R[U \cup {c}], slips'[u][d])
    BY <1>1, <1>8
  <1>10. QED BY <1>6, <1>9 DEF Balanced, w

(* A charge that is settled: its shift is made good, up to k slips.        *)
LEMMA BalanceLeaves ==
    ASSUME TypeOK, CarryInv, NEW u \in Users, NEW d \in Days, NEW c \in Unsettled(u, d),
           Unsettled(u, d)' = Unsettled(u, d) \ {c},
           \A b \in Unsettled(u, d) \ {c} : call'[b] = call[b],
           NEW e \in Int, NEW k \in Nat, Within(e + Shift(call[c]), k),
           Off(u, d)' = Off(u, d) + e, slips'[u][d] = slips[u][d] + k
    PROVE  Balanced(u, d)'
  <1> DEFINE U == Unsettled(u, d)
             V == U \ {c}
             w == Shifts
  <1>1. PICK S : Tally(S, U, w) /\ Within(Off(u, d) - S[U], slips[u][d])
    BY DEF CarryInv, Balanced
  <1>2. w[c] = Shift(call[c]) /\ w[c] \in Int
    BY UnsettledShifts
  <1>3. \A b \in V : Shifts'[b] = w[b]
    BY UnsettledCalls DEF Shifts
  <1> HIDE DEF w
  <1> DEFINE R == Without(S, U, c)
  <1>4. Tally(R, V, w) /\ R[V] = S[U] - w[c]
    <2>1. c \in U /\ w[c] \in Int /\ Tally(S, U, w)
      BY <1>1, <1>2
    <2> HIDE DEF U
    <2>2. QED BY <2>1, TallyLeave
  <1> HIDE DEF R
  <1>5. Tally(R, V, Shifts')
    BY <1>3, <1>4, TallySame
  <1>6. S[U] \in Int
    BY <1>1 DEF Tally
  <1>7. Within((Off(u, d) - S[U]) + (e + w[c]), slips[u][d] + k)
    BY <1>1, <1>2, <1>6, Amounts, WithinSum
  <1>8. Off(u, d)' - R[V] = (Off(u, d) - S[U]) + (e + w[c])
    BY <1>2, <1>4, <1>6, Amounts
  <1>9. Within(Off(u, d)' - R[V], slips'[u][d])
    BY <1>7, <1>8
  <1>10. QED BY <1>5, <1>9 DEF Balanced

(* A restart: every landed charge is a slip, and what the carry held is    *)
(* one more.                                                               *)
LEMMA BalanceBreaks ==
    ASSUME TypeOK, CarryInv, NEW u \in Users, NEW d \in Days,
           Unsettled(u, d)' = {},
           NEW e \in Int, NEW k \in Nat, Within(e, k), Off(u, d)' = Off(u, d) + e,
           slips'[u][d] = slips[u][d] + k + Cardinality(Unsettled(u, d))
    PROVE  Balanced(u, d)'
  <1> DEFINE U == Unsettled(u, d)
             n == Cardinality(U)
  <1>1. PICK S : Tally(S, U, Shifts) /\ Within(Off(u, d) - S[U], slips[u][d])
    BY DEF CarryInv, Balanced
  <1>2. S[U] \in Int /\ Within(S[U], n)
    BY <1>1 DEF Tally
  <1>3. n \in Nat
    BY UnsettledCalls, CallSets
  <1> HIDE DEF n
  <1>4. slips[u][d] \in Nat /\ Off(u, d) \in Int
    BY Amounts
  <1> DEFINE x == Off(u, d) - S[U]
             y == x + e
             j == slips[u][d] + k
  <1>5. x \in Int /\ y \in Int /\ j \in Nat /\ Within(x, slips[u][d])
    BY <1>1, <1>2, <1>4
  <1>6. Within(y + S[U], j + n)
    <2> HIDE DEF x
    <2>1. Within(y, j)
      BY <1>4, <1>5, WithinSum
    <2> HIDE DEF y, j
    <2>2. QED BY <2>1, <1>2, <1>3, <1>5, WithinSum
  <1>7. PICK R : Tally(R, {}, Shifts') /\ R[{}] = 0
    BY TallyEmpty
  <1>8. Off(u, d)' - R[{}] = y + S[U]
    BY <1>2, <1>4, <1>7
  <1>9. Within(Off(u, d)' - R[{}], slips'[u][d])
    BY <1>6, <1>8 DEF n
  <1>10. QED BY <1>7, <1>9 DEF Balanced

-----------------------------------------------------------------------------
(* What a step does to the landed charges.                                 *)
Landed(k, u, d) == k.pc = "charged" /\ k.user = u /\ k.day = d

LEMMA UnsettledStep ==
    ASSUME TypeOK, NEW c \in Calls, NEW k, Step(c, k), NEW u, NEW d
    PROVE  /\ ~Landed(call[c], u, d) /\ ~Landed(k, u, d) =>
                 Unsettled(u, d)' = Unsettled(u, d) /\ c \notin Unsettled(u, d)
           /\ ~Landed(call[c], u, d) /\ Landed(k, u, d) =>
                 /\ c \in Calls \ Unsettled(u, d)
                 /\ Unsettled(u, d)' = Unsettled(u, d) \cup {c}
           /\ Landed(call[c], u, d) /\ ~Landed(k, u, d) =>
                 /\ c \in Unsettled(u, d)
                 /\ Unsettled(u, d)' = Unsettled(u, d) \ {c}
           /\ \A b \in Unsettled(u, d) \ {c} : call'[b] = call[b]
  <1>1. call'[c] = k /\ \A b \in Calls \ {c} : call'[b] = call[b]
    BY OnlyOne
  <1>2. Unsettled(u, d) \subseteq Calls /\ Unsettled(u, d)' \subseteq Calls
    BY DEF Unsettled
  <1> DEFINE U == Unsettled(u, d)
             V == Unsettled(u, d)'
             p == Landed(call[c], u, d)
             q == Landed(k, u, d)
  <1>3. (c \in U <=> p) /\ (c \in V <=> q)
    BY <1>1 DEF Unsettled, Landed
  <1>4. \A b \in Calls \ {c} : b \in V <=> b \in U
    BY <1>1 DEF Unsettled
  <1>5. \A b \in U \ {c} : call'[b] = call[b]
    BY <1>1, <1>2
  <1>6. U \subseteq Calls /\ V \subseteq Calls
    BY <1>2
  <1> HIDE DEF U, V, p, q
  <1>7. ~p /\ ~q => V = U /\ c \notin U
    BY <1>3, <1>4, <1>6
  <1>8. ~p /\ q => c \in Calls \ U /\ V = U \cup {c}
    BY <1>3, <1>4, <1>6
  <1>9. p /\ ~q => c \in U /\ V = U \ {c}
    BY <1>3, <1>4, <1>6
  <1>10. QED BY <1>5, <1>7, <1>8, <1>9 DEF U, V, p, q

LEMMA FreshStep ==
    ASSUME TypeOK, CarryInv, NEW c \in Calls, NEW k, Step(c, k), Fresh(k)
    PROVE  \A b \in Calls : Fresh(call'[b])
  <1>1. call'[c] = k /\ \A b \in Calls \ {c} : call'[b] = call[b]
    BY OnlyOne
  <1>2. \A b \in Calls : Fresh(call[b])
    BY DEF CarryInv
  <1>3. QED BY <1>1, <1>2

(* A step of a call that no charge of it lands or is settled by.           *)
LEMMA CalmStep ==
    ASSUME TypeOK, CarryInv, NEW c \in Calls, NEW k, Step(c, k), Fresh(k),
           call[c].pc # "charged", k.pc # "charged",
           UNCHANGED <<ledger, carry, charged, slips>>
    PROVE  CarryInv'
  <1>1. ASSUME NEW u \in Users, NEW d \in Days PROVE Balanced(u, d)'
    <2>1. ~Landed(call[c], u, d) /\ ~Landed(k, u, d)
      BY DEF Landed
    <2>2. Unsettled(u, d)' = Unsettled(u, d) /\ \A b \in Unsettled(u, d) : call'[b] = call[b]
      BY <2>1, UnsettledStep
    <2>3. Off(u, d)' = Off(u, d)
      BY DEF Off, CarryOf
    <2>4. QED BY <2>2, <2>3, BalanceStays
  <1>2. QED BY <1>1, FreshStep DEF CarryInv

(* The same for a step that changes no record.                             *)
LEMMA StillStep ==
    ASSUME TypeOK, CarryInv, UNCHANGED <<ledger, carry, charged, slips, call>>
    PROVE  CarryInv'
  <1>1. ASSUME NEW u \in Users, NEW d \in Days PROVE Balanced(u, d)'
    <2>1. Unsettled(u, d)' = Unsettled(u, d) /\ \A b \in Unsettled(u, d) : call'[b] = call[b]
      BY DEF Unsettled
    <2>2. Off(u, d)' = Off(u, d)
      BY DEF Off, CarryOf
    <2>3. QED BY <2>1, <2>2, BalanceStays
  <1>2. QED BY <1>1 DEF CarryInv

(* A call that moves on is fresh if it leaves the user's charge.           *)
LEMMA MovedFresh ==
    ASSUME NEW k \in CallStates, NEW pc, pc \notin {"charging", "charged"}
    PROVE  Fresh(Moved(k, pc)) /\ Moved(k, pc).pc # "charged"
  BY MovedFields DEF Fresh

(* An increment moves the balance of its user's day by the shift of its    *)
(* charge, and no other.                                                   *)
LEMMA Posting ==
    ASSUME TypeOK, NEW c \in Calls, Post(c), UNCHANGED carry,
           call[c].user \in Users, call[c].day \in Days
    PROVE  /\ Shift(call[c]) \in Int
           /\ \A u \in Users, d \in Days :
                 Off(u, d)' = Off(u, d)
                     + IF u = call[c].user /\ d = call[c].day THEN Shift(call[c]) ELSE 0
  <1> DEFINE n == call[c].prior + call[c].amount
  <1>1. call[c].prior \in Nat /\ call[c].amount \in Nat /\ n \in Nat
    BY DEF TypeOK, CallStates
  <1>2. Whole(c) * Per + Rest(c) = n /\ Shift(call[c]) = call[c].prior - Rest(c)
    BY <1>1, Division DEF Whole, Rest, Shift
  <1>3. Whole(c) \in Nat /\ Rest(c) \in Nat
    BY RestType, CostAssumption
  <1>4. Whole(c) * Per \in Nat
    BY <1>3, CostAssumption
  <1>5. Shift(call[c]) = Whole(c) * Per - call[c].amount
    BY <1>1, <1>2, <1>3, <1>4
  <1>6. Shift(call[c]) \in Int
    BY <1>1, <1>4, <1>5
  <1>7. ASSUME NEW u \in Users, NEW d \in Days
        PROVE  Off(u, d)' = Off(u, d)
                   + IF u = call[c].user /\ d = call[c].day THEN Shift(call[c]) ELSE 0
    <2>1. CarryOf(u, d)' = CarryOf(u, d)
      BY DEF CarryOf
    <2>2. /\ ledger[u][d] \in Nat /\ charged[u][d] \in Nat /\ CarryOf(u, d) \in Int
          /\ Off(u, d) \in Int
      BY Amounts, CostAssumption
    <2>3. CASE u = call[c].user /\ d = call[c].day
      <3>1. ledger'[u][d] = ledger[u][d] + Whole(c)
        BY <2>3 DEF Post, TypeOK
      <3>2. charged'[u][d] = charged[u][d] + call[c].amount
        BY <2>3 DEF Post, TypeOK
      <3>3. (ledger[u][d] + Whole(c)) * Per = ledger[u][d] * Per + Whole(c) * Per
        BY <2>2, <1>3, CostAssumption
      <3>4. ledger[u][d] * Per \in Int
        BY <2>2, CostAssumption
      <3> DEFINE a == ledger[u][d] * Per
                 b == Whole(c) * Per
      <3>5. /\ Off(u, d)' = (a + b) + CarryOf(u, d) - (charged[u][d] + call[c].amount)
            /\ Off(u, d) = a + CarryOf(u, d) - charged[u][d]
            /\ Shift(call[c]) = b - call[c].amount
        BY <2>1, <3>1, <3>2, <3>3, <1>5 DEF Off
      <3>6. a \in Int /\ b \in Int
        BY <3>4, <1>4
      <3> HIDE DEF a, b
      <3>7. Off(u, d)' = Off(u, d) + Shift(call[c])
        BY <3>5, <3>6, <2>2, <1>1
      <3>8. QED BY <3>7, <2>3
    <2>4. CASE ~(u = call[c].user /\ d = call[c].day)
      <3>1. ledger'[u][d] = ledger[u][d] /\ charged'[u][d] = charged[u][d]
        BY <2>4 DEF Post, TypeOK
      <3>2. Off(u, d)' = Off(u, d)
        BY <3>1, <2>1 DEF Off
      <3>3. QED BY <3>2, <2>2, <2>4
    <2>5. QED BY <2>3, <2>4
  <1>8. QED BY <1>6, <1>7

LEMMA ChargeCarry ==
    ASSUME TypeOK, CarryInv, NEW c \in Calls, Charge(c)
    PROVE  CarryInv'
  <1> DEFINE s == IF call[c].phase = "pre" THEN Slice(c) ELSE call[c].slice
             k == [call[c] EXCEPT !.pc = "charged", !.slice = s]
             e == Shift(call[c])
  <1>1. /\ call[c] \in CallStates /\ call[c].pc = "charging"
        /\ call[c].user \in Users /\ call[c].day \in Days
    BY DEF TypeOK, Charge, CallStates
  <1>2. Step(c, k) /\ Post(c) /\ UNCHANGED <<carry, slips>>
    BY DEF Charge
  <1> HIDE DEF s
  <1>3. /\ k.pc = "charged" /\ k.user = call[c].user /\ k.day = call[c].day
        /\ k.prior = call[c].prior /\ k.amount = call[c].amount
    BY <1>1 DEF CallStates
  <1> HIDE DEF k
  <1>4. call[c].prior \in 0 .. Per - 1
    BY <1>1 DEF CarryInv, Fresh
  <1>5. Shift(k) = e /\ e \in Int /\ Within(e, 1)
    BY <1>1, <1>3, <1>4, ShiftType DEF Shift
  <1> HIDE DEF e
  <1>6. ASSUME NEW u \in Users, NEW d \in Days PROVE Balanced(u, d)'
    <2>1. ~Landed(call[c], u, d)
      BY <1>1 DEF Landed
    <2>2. slips'[u][d] = slips[u][d] + 0 /\ slips'[u][d] = slips[u][d]
      BY <1>2, Amounts
    <2>3. CASE u = call[c].user /\ d = call[c].day
      <3>1. Landed(k, u, d)
        BY <2>3, <1>3 DEF Landed
      <3>2. /\ c \in Calls \ Unsettled(u, d) /\ Unsettled(u, d)' = Unsettled(u, d) \cup {c}
            /\ \A b \in Unsettled(u, d) : call'[b] = call[b]
        BY <2>1, <3>1, <1>2, UnsettledStep
      <3>3. Off(u, d)' = Off(u, d) + e
        BY <2>3, <1>1, <1>2, Posting DEF e
      <3>4. Shift(call'[c]) = e
        BY <1>2, <1>5, OnlyOne
      <3>5. QED BY <3>2, <3>3, <3>4, <1>5, <2>2, BalanceJoins
    <2>4. CASE ~(u = call[c].user /\ d = call[c].day)
      <3>1. ~Landed(k, u, d)
        BY <2>4, <1>3 DEF Landed
      <3>2. Unsettled(u, d)' = Unsettled(u, d) /\ \A b \in Unsettled(u, d) : call'[b] = call[b]
        BY <2>1, <3>1, <1>2, UnsettledStep
      <3>3. Off(u, d)' = Off(u, d) + 0
        BY <2>4, <1>1, <1>2, Posting
      <3>4. QED BY <3>2, <3>3, <2>2, WithinZero, BalanceMoves
    <2>5. QED BY <2>3, <2>4
  <1>7. Fresh(k)
    BY <1>3, <1>4 DEF Fresh
  <1>8. QED BY <1>2, <1>6, <1>7, FreshStep DEF CarryInv

LEMMA ChargeFailsCarry ==
    ASSUME TypeOK, CarryInv, NEW c \in Calls, ChargeFails(c)
    PROVE  CarryInv'
  <1> DEFINE k == Moved(call[c], "gcharge")
             e == Shift(call[c])
  <1>1. /\ call[c] \in CallStates /\ call[c].pc = "charging"
        /\ call[c].user \in Users /\ call[c].day \in Days
    BY DEF TypeOK, ChargeFails, CallStates
  <1>2. Step(c, k) /\ UNCHANGED carry
    BY DEF ChargeFails, Goto
  <1>3. Fresh(k) /\ k.pc # "charged"
    BY <1>1, MovedFresh
  <1> HIDE DEF k
  <1>4. CASE UNCHANGED <<ledger, charged, slips>>
    BY <1>1, <1>2, <1>3, <1>4, CalmStep
  <1>5. CASE Post(c) /\ slips' = Slipped(call[c].user, call[c].day, 1)
    <2>1. call[c].prior \in 0 .. Per - 1
      BY <1>1 DEF CarryInv, Fresh
    <2>2. e \in Int /\ Within(e, 1)
      BY <1>1, <2>1, ShiftType
    <2>3. ASSUME NEW u \in Users, NEW d \in Days PROVE Balanced(u, d)'
      <3>1. ~Landed(call[c], u, d) /\ ~Landed(k, u, d)
        BY <1>1, <1>3 DEF Landed
      <3>2. Unsettled(u, d)' = Unsettled(u, d) /\ \A b \in Unsettled(u, d) : call'[b] = call[b]
        BY <3>1, <1>2, UnsettledStep
      <3>3. CASE u = call[c].user /\ d = call[c].day
        <4>1. Off(u, d)' = Off(u, d) + e
          BY <3>3, <1>1, <1>2, <1>5, Posting
        <4>2. slips'[u][d] = slips[u][d] + 1
          BY <3>3, <1>5 DEF Slipped, TypeOK
        <4> HIDE DEF e
        <4>3. QED BY <3>2, <4>1, <4>2, <2>2, BalanceMoves
      <3>4. CASE ~(u = call[c].user /\ d = call[c].day)
        <4>1. Off(u, d)' = Off(u, d) + 0
          BY <3>4, <1>1, <1>2, <1>5, Posting
        <4>2. slips'[u][d] = slips[u][d] + 0
          BY <3>4, <1>5, Amounts DEF Slipped, TypeOK
        <4>3. QED BY <3>2, <4>1, <4>2, WithinZero, BalanceMoves
      <3>5. QED BY <3>3, <3>4
    <2>4. QED BY <1>2, <1>3, <2>3, FreshStep DEF CarryInv
  <1>6. QED BY <1>4, <1>5 DEF ChargeFails

(* Committing the rest of a charge moves the balance of its own day by the *)
(* rest against the carry it overwrites, and takes away the carry of any   *)
(* other day.                                                              *)
LEMMA SettleCarry ==
    ASSUME TypeOK, CarryInv, NEW c \in Calls, NEW cap, Settle(c, cap)
    PROVE  CarryInv'
  <1> DEFINE v == call[c].user
             y == call[c].day
             pc == IF /\ call[c].phase = "pre"
                      /\ call[c].slice.to > effectiveCap(cap, call[c].reserved)
                   THEN "refused" ELSE "gcharge"
             k == Moved(call[c], pc)
             lost(d) == IF CarryOf(v, d) # (IF d = y THEN call[c].prior ELSE 0) THEN 1 ELSE 0
  <1>1. call[c] \in CallStates /\ call[c].pc = "charged" /\ v \in Users /\ y \in Days
    BY DEF TypeOK, Settle, CallStates
  <1>2. /\ Step(c, k) /\ UNCHANGED <<ledger, charged>>
        /\ carry' = [carry EXCEPT ![v] = [day |-> y, frac |-> Rest(c)]]
        /\ slips' = [slips EXCEPT ![v] = [d \in Days |-> slips[v][d] + lost(d)]]
    BY DEF Settle, Goto, Overwritten
  <1>3. pc \notin {"charging", "charged"}
    OBVIOUS
  <1>4. Fresh(k) /\ k.pc # "charged"
    BY <1>1, <1>3, MovedFresh
  <1> HIDE DEF pc, k
  <1>5. call[c].prior \in 0 .. Per - 1 /\ Rest(c) \in 0 .. Per - 1
    BY <1>1, RestType DEF CarryInv, Fresh
  <1>6. Shift(call[c]) = call[c].prior - Rest(c)
    BY DEF Shift, Rest
  <1>7. ASSUME NEW u \in Users, NEW d \in Days PROVE Balanced(u, d)'
    <2>1. ~Landed(k, u, d)
      BY <1>4 DEF Landed
    <2>2. /\ ledger[u][d] \in Nat /\ charged[u][d] \in Nat /\ slips[u][d] \in Nat
          /\ CarryOf(u, d) \in 0 .. Per - 1 /\ ledger[u][d] * Per \in Int
      BY Amounts, CostAssumption
    <2> DEFINE a == ledger[u][d] * Per
    <2>3. /\ Off(u, d) = a + CarryOf(u, d) - charged[u][d]
          /\ Off(u, d)' = a + CarryOf(u, d)' - charged[u][d]
          /\ a \in Int
      BY <1>2, <2>2 DEF Off
    <2> HIDE DEF a
    <2>4. CASE u = v /\ d = y
      <3> DEFINE e == Rest(c) - CarryOf(u, d)
      <3>1. Landed(call[c], u, d)
        BY <2>4, <1>1 DEF Landed
      <3>2. /\ c \in Unsettled(u, d) /\ Unsettled(u, d)' = Unsettled(u, d) \ {c}
            /\ \A b \in Unsettled(u, d) \ {c} : call'[b] = call[b]
        BY <2>1, <3>1, <1>2, UnsettledStep
      <3>3. CarryOf(u, d)' = Rest(c)
        BY <2>4, <1>1, <1>2 DEF CarryOf, TypeOK
      <3>4. e \in Int /\ Off(u, d)' = Off(u, d) + e
        BY <3>3, <2>2, <2>3, <1>5, CostAssumption
      <3>5. e + Shift(call[c]) = call[c].prior - CarryOf(u, d)
        BY <2>2, <1>5, <1>6, CostAssumption
      <3>6. slips'[u][d] = slips[u][d] + IF CarryOf(u, d) # call[c].prior THEN 1 ELSE 0
        BY <2>4, <1>1, <1>2 DEF TypeOK
      <3>7. CASE CarryOf(u, d) # call[c].prior
        <4>1. Within(e + Shift(call[c]), 1) /\ slips'[u][d] = slips[u][d] + 1
          BY <3>5, <3>6, <3>7, <2>2, <1>5, WithinOne
        <4> HIDE DEF e
        <4>2. QED BY <3>2, <3>4, <4>1, BalanceLeaves
      <3>8. CASE CarryOf(u, d) = call[c].prior
        <4>1. e + Shift(call[c]) = 0
          BY <3>5, <3>8, <1>5, CostAssumption
        <4>2. Within(e + Shift(call[c]), 0) /\ slips'[u][d] = slips[u][d] + 0
          BY <4>1, <3>6, <3>8, WithinZero
        <4> HIDE DEF e
        <4>3. QED BY <3>2, <3>4, <4>2, BalanceLeaves
      <3>9. QED BY <3>7, <3>8
    <2>5. CASE u = v /\ d # y
      <3> DEFINE e == -CarryOf(u, d)
      <3>1. ~Landed(call[c], u, d)
        BY <2>5 DEF Landed
      <3>2. Unsettled(u, d)' = Unsettled(u, d) /\ \A b \in Unsettled(u, d) : call'[b] = call[b]
        BY <2>1, <3>1, <1>2, UnsettledStep
      <3>3. CarryOf(u, d)' = 0
        BY <2>5, <1>1, <1>2 DEF CarryOf, TypeOK
      <3>4. e \in Int /\ Off(u, d)' = Off(u, d) + e
        BY <3>3, <2>2, <2>3, CostAssumption
      <3>5. slips'[u][d] = slips[u][d] + IF CarryOf(u, d) # 0 THEN 1 ELSE 0
        BY <2>5, <1>1, <1>2 DEF TypeOK
      <3>6. CASE CarryOf(u, d) # 0
        <4>1. Within(CarryOf(u, d) - 0, 1)
          BY <2>2, CostAssumption, WithinOne
        <4>2. Within(e, 1) /\ slips'[u][d] = slips[u][d] + 1
          BY <4>1, <3>5, <3>6, <2>2, CostAssumption DEF Within
        <4> HIDE DEF e
        <4>3. QED BY <3>2, <3>4, <4>2, BalanceMoves
      <3>7. CASE CarryOf(u, d) = 0
        <4>1. Within(e, 0) /\ slips'[u][d] = slips[u][d] + 0
          BY <3>5, <3>7, WithinZero
        <4> HIDE DEF e
        <4>2. QED BY <3>2, <3>4, <4>1, BalanceMoves
      <3>8. QED BY <3>6, <3>7
    <2>6. CASE u # v
      <3>1. ~Landed(call[c], u, d)
        BY <2>6 DEF Landed
      <3>2. Unsettled(u, d)' = Unsettled(u, d) /\ \A b \in Unsettled(u, d) : call'[b] = call[b]
        BY <2>1, <3>1, <1>2, UnsettledStep
      <3>3. CarryOf(u, d)' = CarryOf(u, d) /\ slips'[u][d] = slips[u][d] + 0
        BY <2>6, <1>1, <1>2, <2>2 DEF CarryOf, TypeOK
      <3>4. Off(u, d)' = Off(u, d) + 0
        BY <3>3, <2>2, <2>3, CostAssumption
      <3>5. QED BY <3>2, <3>3, <3>4, WithinZero, BalanceMoves
    <2>7. QED BY <2>4, <2>5, <2>6
  <1>8. QED BY <1>2, <1>4, <1>7, FreshStep DEF CarryInv

LEMMA RestartCarry ==
    ASSUME TypeOK, CarryInv, Restart
    PROVE  CarryInv'
  <1>1. \A c \in Calls : call'[c].pc \in {"new", "done", "refused"}
    <2>1. \A c \in Calls : call[c] \in CallStates
      BY DEF TypeOK
    <2>2. \A c \in Calls : Over(call[c], "done").pc = "done"
      BY <2>1 DEF Over, NewCall, CallStates
    <2>3. QED BY <2>2 DEF Restart
  <1>2. ASSUME NEW u \in Users, NEW d \in Days PROVE Balanced(u, d)'
    <2> DEFINE e == -CarryOf(u, d)
               n == Cardinality(Unsettled(u, d))
    <2>1. Unsettled(u, d)' = {}
      BY <1>1 DEF Unsettled
    <2>2. /\ ledger[u][d] \in Nat /\ charged[u][d] \in Nat /\ slips[u][d] \in Nat
          /\ CarryOf(u, d) \in 0 .. Per - 1 /\ ledger[u][d] * Per \in Int
      BY Amounts, CostAssumption
    <2>3. CarryOf(u, d)' = 0
      <3>1. carry'[u].day = 0 /\ carry'[u].frac = 0
        BY DEF Restart
      <3>2. QED BY <3>1 DEF CarryOf
    <2> DEFINE a == ledger[u][d] * Per
    <2>4. /\ Off(u, d) = a + CarryOf(u, d) - charged[u][d]
          /\ Off(u, d)' = a + 0 - charged[u][d]
          /\ a \in Int
      BY <2>2, <2>3 DEF Off, Restart
    <2> HIDE DEF a
    <2>5. e \in Int /\ Off(u, d)' = Off(u, d) + e
      BY <2>2, <2>4, CostAssumption
    <2>6. slips'[u][d] = slips[u][d] + (IF CarryOf(u, d) # 0 THEN 1 ELSE 0) + n
      BY DEF Restart
    <2>7. CASE CarryOf(u, d) # 0
      <3>1. Within(e, 1)
        BY <2>2, CostAssumption DEF Within
      <3>2. slips'[u][d] = slips[u][d] + 1 + n
        BY <2>6, <2>7
      <3> HIDE DEF e
      <3>3. QED BY <2>1, <2>5, <3>1, <3>2, BalanceBreaks
    <2>8. CASE CarryOf(u, d) = 0
      <3>1. Within(e, 0)
        BY <2>8, WithinZero
      <3>2. slips'[u][d] = slips[u][d] + 0 + n
        BY <2>6, <2>8
      <3> HIDE DEF e
      <3>3. QED BY <2>1, <2>5, <3>1, <3>2, BalanceBreaks
    <2>9. QED BY <2>7, <2>8
  <1>3. \A c \in Calls : Fresh(call'[c])
    BY <1>1 DEF Fresh
  <1>4. QED BY <1>2, <1>3 DEF CarryInv

LEMMA CarryStep == TypeOK /\ CarryInv /\ [Next]_vars => CarryInv'
  <1> SUFFICES ASSUME TypeOK, CarryInv, [Next]_vars PROVE CarryInv'
    OBVIOUS
  <1> DEFINE Same == UNCHANGED <<ledger, carry, charged, slips>>
  <1>0. \A c \in Calls : call[c] \in CallStates
    BY DEF TypeOK
  <1>1. ASSUME NEW c \in Calls, NEW u \in Users \cup {NoUser},
               NEW reserved \in BOOLEAN, NEW own \in BOOLEAN, NEW est \in Prices,
               Begin(c, u, reserved, own, est)
        PROVE  CarryInv'
    <2> DEFINE s == IF u # NoUser /\ Spent(u, reserved) THEN day ELSE 0
               pc == IF own THEN "usergate" ELSE "gate"
               k == [NewCall EXCEPT !.pc = pc, !.user = u, !.reserved = reserved, !.own = own,
                                    !.est = est, !.amount = est, !.spent = s]
    <2>1. Step(c, k) /\ Same /\ call[c].pc = "new"
      BY <1>1 DEF Begin, ghosts
    <2>2. k.pc \in {"usergate", "gate"}
      BY DEF NewCall
    <2> HIDE DEF k
    <2>3. QED BY <2>1, <2>2, CalmStep DEF Fresh
  <1>2. ASSUME NEW c \in Calls, checkGlobalCostGate(c) PROVE CarryInv'
    <2> DEFINE pc == IF total[day] >= Ceiling THEN "refused"
                     ELSE IF call[c].user = NoUser THEN "gcharge" ELSE "usergate"
    <2>1. Step(c, Moved(call[c], pc)) /\ Same /\ call[c].pc = "gate"
      BY <1>2 DEF checkGlobalCostGate, Goto, ghosts
    <2>2. pc \notin {"charging", "charged"}
      OBVIOUS
    <2> HIDE DEF pc
    <2>3. QED BY <2>1, <2>2, <1>0, MovedFresh, CalmStep
  <1>3. ASSUME NEW c \in Calls, NEW cap \in {FullCap, FreeCap}, checkCostGate(c, cap)
        PROVE  CarryInv'
    <2> DEFINE over == ledger[call[c].user][day] >= effectiveCap(cap, call[c].reserved)
               g == IF ~call[c].own THEN "no" ELSE IF over THEN "ownonly" ELSE "own"
               k == [call[c] EXCEPT !.granted = g, !.gate = day]
               pc == IF call[c].own THEN "running" ELSE IF over THEN "refused" ELSE "charge"
    <2>1. Step(c, Moved(k, pc)) /\ Same /\ call[c].pc = "usergate"
      BY <1>3 DEF checkCostGate, ghosts
    <2>2. pc \notin {"charging", "charged"} /\ g \in {"no", "ownonly", "own"}
      OBVIOUS
    <2> HIDE DEF g
    <2>3. k \in CallStates
      <3>1. call[c] \in CallStates /\ day \in Days
        BY DEF TypeOK
      <3>2. QED BY <2>2, <3>1 DEF CallStates
    <2> HIDE DEF k, pc
    <2>4. QED BY <2>1, <2>2, <2>3, MovedFresh, CalmStep
  <1>4. ASSUME NEW c \in Calls, GateReadFails(c) PROVE CarryInv'
    <2>1. Step(c, Moved(call[c], "refused")) /\ Same /\ call[c].pc # "charged"
      BY <1>4 DEF GateReadFails, Goto, ghosts
    <2>2. QED BY <2>1, <1>0, MovedFresh, CalmStep
  <1>5. ASSUME NEW c \in Calls, ReadCarry(c) PROVE CarryInv'
    <2> DEFINE p == CarryOf(call[c].user, day)
               k == [call[c] EXCEPT !.pc = "charging", !.day = day, !.prior = p]
    <2>1. Step(c, k) /\ Same /\ call[c].pc = "charge"
      BY <1>5 DEF ReadCarry, ghosts
    <2>2. call[c].user \in Users /\ day \in Days
      BY <2>1, <1>0 DEF TypeOK, CallStates
    <2>3. p \in 0 .. Per - 1
      BY <2>2, Amounts
    <2> HIDE DEF p
    <2>4. k.pc = "charging" /\ k.prior = p
      BY <1>0 DEF CallStates
    <2> HIDE DEF k
    <2>5. QED BY <2>1, <2>3, <2>4, CalmStep DEF Fresh
  <1>6. ASSUME NEW c \in Calls, ChargeCeiling(c) PROVE CarryInv'
    <2> DEFINE pc == AfterCeiling(c, call[c].amount > 0 /\ total[day] + call[c].amount >= Ceiling)
               g == IF pc = "running" THEN "billed" ELSE call[c].granted
               s == IF call[c].phase = "pre" THEN GlobalSlice(c) ELSE call[c].gslice
               k == [call[c] EXCEPT !.granted = g, !.gslice = s]
    <2>1. Step(c, Moved(k, pc)) /\ Same /\ call[c].pc = "gcharge"
      BY <1>6 DEF ChargeCeiling, ghosts
    <2>2. pc \in {"done", "refused", "running"}
      BY DEF AfterCeiling
    <2> HIDE DEF pc
    <2>3. g \in {"no", "billed", "own", "ownonly"} /\ s \in Slices
      BY <1>0, GlobalSliceType DEF CallStates
    <2> HIDE DEF g, s
    <2>4. k \in CallStates
      <3>1. call[c] \in CallStates
        BY DEF TypeOK
      <3>2. QED BY <2>3, <3>1 DEF CallStates
    <2> HIDE DEF k
    <2>5. QED BY <2>1, <2>2, <2>4, MovedFresh, CalmStep
  <1>7. ASSUME NEW c \in Calls, ChargeCeilingFails(c) PROVE CarryInv'
    <2> DEFINE pc == AfterCeiling(c, TRUE)
    <2>1. Step(c, Moved(call[c], pc)) /\ Same /\ call[c].pc = "gcharge"
      BY <1>7 DEF ChargeCeilingFails, Goto, ghosts
    <2>2. pc \in {"done", "refused", "running"}
      BY DEF AfterCeiling
    <2> HIDE DEF pc
    <2>3. QED BY <2>1, <2>2, <1>0, MovedFresh, CalmStep
  <1>8. ASSUME NEW c \in Calls, RunUnsettled(c) PROVE CarryInv'
    <2>1. Step(c, Moved(call[c], "done")) /\ Same /\ call[c].pc = "running"
      BY <1>8 DEF RunUnsettled, Goto, ghosts
    <2>2. QED BY <2>1, <1>0, MovedFresh, CalmStep
  <1>9. ASSUME NEW c \in Calls, NEW cost \in Costs, RunOnServerKey(c, cost) PROVE CarryInv'
    <2> DEFINE delta == cost - (IF call[c].own THEN 0 ELSE call[c].est)
               pc == IF call[c].user = NoUser THEN "gcharge" ELSE "charge"
               k == [call[c] EXCEPT !.pc = pc, !.phase = "true", !.amount = delta]
    <2>1. Same /\ call[c].pc = "running"
      BY <1>9 DEF RunOnServerKey, ghosts
    <2>2. CASE delta <= 0
      <3>1. Step(c, Moved(call[c], "done"))
        BY <1>9, <2>2 DEF RunOnServerKey, Goto
      <3>2. QED BY <2>1, <3>1, <1>0, MovedFresh, CalmStep
    <2>3. CASE ~(delta <= 0)
      <3>1. Step(c, k)
        BY <1>9, <2>3 DEF RunOnServerKey
      <3> HIDE DEF delta
      <3>2. k.pc \in {"gcharge", "charge"}
        BY <1>0 DEF CallStates
      <3> HIDE DEF k
      <3>3. QED BY <2>1, <3>1, <3>2, CalmStep DEF Fresh
    <2>4. QED BY <2>2, <2>3
  <1>10. CASE NextDay \/ UNCHANGED vars
    BY <1>10, StillStep DEF NextDay, vars, ghosts
  <1>11. QED
    BY <1>1, <1>2, <1>3, <1>4, <1>5, <1>6, <1>7, <1>8, <1>9, <1>10, ChargeCarry,
       ChargeFailsCarry, SettleCarry, RestartCarry DEF Next

LEMMA CarryInit == Init => CarryInv
  <1> SUFFICES ASSUME Init PROVE CarryInv
    OBVIOUS
  <1>1. TypeOK /\ \A c \in Calls : call[c].pc = "new"
    BY InitType DEF Init, NewCall
  <1>2. ASSUME NEW u \in Users, NEW d \in Days PROVE Balanced(u, d)
    <2>1. Unsettled(u, d) = {}
      BY <1>1 DEF Unsettled
    <2>2. PICK S : Tally(S, {}, Shifts) /\ S[{}] = 0
      BY TallyEmpty
    <2>3. ledger[u][d] = 0 /\ CarryOf(u, d) = 0 /\ charged[u][d] = 0 /\ slips[u][d] = 0
      BY DEF Init, CarryOf
    <2>4. Off(u, d) - S[{}] = 0
      BY <2>2, <2>3, CostAssumption DEF Off
    <2>5. QED BY <2>1, <2>2, <2>3, <2>4, WithinZero DEF Balanced
  <1>3. QED BY <1>1, <1>2 DEF CarryInv, Fresh

(* Ledger and carry of a user's day hold what was charged to the unit, but *)
(* for less than a cent each time a carry was lost or counted twice        *)
(* (cost-guard.ts:185-190, :205-208, :230-232).                            *)
THEOREM CarryIsBounded == Spec => []CarryDrift
  <1>1. TypeOK /\ CarryInv => CarryDrift
    <2> SUFFICES ASSUME TypeOK, CarryInv, NEW u \in Users, NEW d \in Days, Unsettled(u, d) = {}
                 PROVE  LET off == ledger[u][d] * Per + CarryOf(u, d) - charged[u][d]
                            most == (Per - 1) * slips[u][d]
                        IN  -most <= off /\ off <= most
      BY DEF CarryDrift
    <2>1. PICK S : Tally(S, {}, Shifts) /\ Within(Off(u, d) - S[{}], slips[u][d])
      BY DEF CarryInv, Balanced
    <2>2. Off(u, d) - S[{}] = Off(u, d)
      BY <2>1, Amounts DEF Tally
    <2>3. QED BY <2>1, <2>2 DEF Within, Off
  <1>2. Spec => [](TypeOK /\ CarryInv)
    <2>1. Init => TypeOK /\ CarryInv
      BY InitType, CarryInit
    <2>2. TypeOK /\ CarryInv /\ [Next]_vars => TypeOK' /\ CarryInv'
      BY TypeStep, CarryStep
    <2>3. QED BY <2>1, <2>2, PTL DEF Spec
  <1>3. QED BY <1>1, <1>2, PTL
=============================================================================
