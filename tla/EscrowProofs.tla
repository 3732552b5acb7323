---------------------------- MODULE EscrowProofs ----------------------------
(***************************************************************************)
(* The escrow the contract accounts for is the sum of what its bookings    *)
(* hold, for every number of bookings.                                     *)
(*                                                                         *)
(* The sum is a recursive function over the ids.  Two facts about it are   *)
(* needed: that it satisfies its equation, and that it changes by as much  *)
(* as the one booking a step changes.  Both are inductions on ids, made    *)
(* here by the least id at which the claim would fail.                     *)
(* That the total covers each escrow is then what the recovery of a stuck  *)
(* escrow rests on; that a booking's life goes one way, but for the loop   *)
(* of disputes, says where a recovery leads.                               *)
(***************************************************************************)
EXTENDS StelloBookingProofs, WellFoundedInduction

\* Induction over an interval that starts at zero.
LEMMA IntervalInduction ==
    ASSUME NEW N \in Nat, NEW S, 0 \in S,
           \A n \in 0 .. N : n # N /\ n \in S => n + 1 \in S
    PROVE  \A n \in 0 .. N : n \in S
  <1> SUFFICES ASSUME NEW m \in 0 .. N, m \notin S
               PROVE  FALSE
    OBVIOUS
  <1> DEFINE Fails == { n \in 0 .. N : n \notin S }
             R     == OpToRel(<, Nat)
  <1>1. Fails \subseteq Nat /\ Fails # {}
    OBVIOUS
  <1>2. PICK x \in Fails : \A y \in Fails : <<y, x>> \notin R
    <2>1. IsWellFoundedOn(R, Nat)
      BY NatLessThanWellFounded
    <2> QED
      BY <1>1, <2>1, WFMin
  <1>3. x \in 0 .. N /\ x \notin S /\ x # 0
    OBVIOUS
  <1>4. x - 1 \in 0 .. N /\ x - 1 # N /\ x - 1 + 1 = x
    BY <1>3
  <1>5. x - 1 \in Fails
    BY <1>3, <1>4
  <1>6. <<x - 1, x>> \in R
    BY <1>3, <1>4 DEF OpToRel
  <1> QED
    BY <1>2, <1>5, <1>6

-----------------------------------------------------------------------------
(* Running sums of a function e over 1 .. N.                               *)

SumsUpTo(f, e, m) ==
    \A n \in 0 .. m : f[n] = IF n = 0 THEN 0 ELSE f[n - 1] + e[n]

\* One step of a running sum.
LEMMA SumStep ==
    ASSUME NEW N \in Nat, NEW f, NEW e, SumsUpTo(f, e, N), NEW m \in 0 .. N, m # N
    PROVE  f[m + 1] = f[m] + e[m + 1]
  <1> DEFINE n == m + 1
  <1>1. n \in 0 .. N /\ n # 0 /\ n - 1 = m
    OBVIOUS
  <1> HIDE DEF n
  <1>2. f[n] = f[n - 1] + e[n]
    BY <1>1 DEF SumsUpTo
  <1>3. f[n] = f[m] + e[n]
    BY <1>1, <1>2
  <1> QED
    BY <1>3 DEF n

\* Every function has its running sums.
LEMMA RunningSumsExist ==
    ASSUME NEW N \in Nat, NEW e \in [0 .. N -> Int]
    PROVE  \E f \in [0 .. N -> Int] : SumsUpTo(f, e, N)
  <1> DEFINE Summed == { m \in 0 .. N : \E f \in [0 .. m -> Int] : SumsUpTo(f, e, m) }
  <1>1. 0 \in Summed
    <2>1. [n \in 0 .. 0 |-> 0] \in [0 .. 0 -> Int]
             /\ SumsUpTo([n \in 0 .. 0 |-> 0], e, 0)
      BY DEF SumsUpTo
    <2> QED
      BY <2>1
  <1>2. ASSUME NEW m \in 0 .. N, m # N, m \in Summed
        PROVE  m + 1 \in Summed
    <2>1. PICK f \in [0 .. m -> Int] : SumsUpTo(f, e, m)
      BY <1>2
    <2> DEFINE g == [n \in 0 .. (m + 1) |-> IF n = m + 1 THEN f[m] + e[n] ELSE f[n]]
    <2>2. m + 1 \in 0 .. N /\ f[m] \in Int /\ e[m + 1] \in Int
      BY <1>2
    <2>3. g \in [0 .. (m + 1) -> Int]
      BY <2>2
    <2>4. SumsUpTo(g, e, m + 1)
      BY <2>1, <2>2 DEF SumsUpTo
    <2> QED
      BY <2>2, <2>3, <2>4
  <1>3. N \in Summed
    <2>1. N \in 0 .. N
      OBVIOUS
    <2> HIDE DEF Summed
    <2>2. \A n \in 0 .. N : n # N /\ n \in Summed => n + 1 \in Summed
      BY <1>2
    <2> QED
      BY <1>1, <2>1, <2>2, IntervalInduction
  <1> QED
    BY <1>3

\* e2 is e but for one element, larger by d.
ElementShifts(e, e2, N, id, d) ==
    e2[id] = e[id] + d /\ \A k \in 1 .. N : k # id => e2[k] = e[k]

IntsUpTo(N) == [0 .. N -> Int]

\* When one element changes by d, the last sum changes by d.
LEMMA SumShifts ==
    ASSUME NEW N \in Nat, NEW id \in 1 .. N, NEW d \in Int,
           NEW e \in IntsUpTo(N),  NEW f \in IntsUpTo(N), SumsUpTo(f, e, N),
           NEW e2 \in IntsUpTo(N), NEW g \in IntsUpTo(N), SumsUpTo(g, e2, N),
           ElementShifts(e, e2, N, id, d)
    PROVE  g[N] = f[N] + d
  <1> DEFINE ShiftedAt(n) == IF n >= id THEN g[n] = f[n] + d ELSE g[n] = f[n]
             Shifted == { n \in 0 .. N : ShiftedAt(n) }
  <1>1. 0 \in Shifted
    BY DEF SumsUpTo
  <1>2. ASSUME NEW m \in 0 .. N, m # N, ShiftedAt(m)
        PROVE  ShiftedAt(m + 1)
    <2> HIDE DEF ShiftedAt
    <2>1. m + 1 \in 1 .. N /\ m + 1 - 1 = m
      BY <1>2
    <2>2. f[m] \in Int /\ g[m] \in Int /\ e[m + 1] \in Int /\ e2[m + 1] \in Int
      BY <2>1 DEF IntsUpTo
    <2>3. ASSUME NEW p, NEW q, SumsUpTo(p, q, N)
          PROVE  p[m + 1] = p[m] + q[m + 1]
      BY <1>2, <2>3, SumStep
    <2>4. f[m + 1] = f[m] + e[m + 1] /\ g[m + 1] = g[m] + e2[m + 1]
      BY <2>3
    <2>5. \A a, x \in Int : (a + d) + x = (a + x) + d /\ a + (x + d) = (a + x) + d
      OBVIOUS
    <2>6. e2[m + 1] = IF m + 1 = id THEN e[m + 1] + d ELSE e[m + 1]
      BY <2>1 DEF ElementShifts
    <2>7. IF m >= id THEN g[m] = f[m] + d ELSE g[m] = f[m]
      BY <1>2 DEF ShiftedAt
    <2>8. CASE m >= id
      <3>1. g[m] = f[m] + d /\ e2[m + 1] = e[m + 1] /\ m + 1 >= id
        BY <2>6, <2>7, <2>8
      <3>2. g[m + 1] = f[m + 1] + d
        BY <2>2, <2>4, <2>5, <3>1
      <3> QED
        BY <3>1, <3>2 DEF ShiftedAt
    <2>9. CASE m + 1 = id
      <3>1. g[m] = f[m] /\ e2[m + 1] = e[m + 1] + d /\ m + 1 >= id
        BY <2>6, <2>7, <2>9
      <3>2. g[m + 1] = f[m + 1] + d
        BY <2>2, <2>4, <2>5, <3>1
      <3> QED
        BY <3>1, <3>2 DEF ShiftedAt
    <2>10. CASE m + 1 < id
      <3>1. g[m] = f[m] /\ e2[m + 1] = e[m + 1] /\ ~(m + 1 >= id)
        BY <2>6, <2>7, <2>10
      <3>2. g[m + 1] = f[m + 1]
        BY <2>4, <3>1
      <3> QED
        BY <3>1, <3>2 DEF ShiftedAt
    <2> QED
      BY <2>8, <2>9, <2>10
  <1>3. N \in Shifted
    <2>1. N \in 0 .. N
      OBVIOUS
    <2> HIDE DEF ShiftedAt
    <2>2. \A n \in 0 .. N : n # N /\ n \in Shifted => n + 1 \in Shifted
      <3>1. \A n \in 0 .. N : n # N => n + 1 \in 0 .. N
        OBVIOUS
      <3> QED
        BY <1>2, <3>1
    <2> HIDE DEF Shifted
    <2> QED
      BY <1>1, <2>1, <2>2, IntervalInduction
  <1> QED
    BY <1>3

\* A sum of natural numbers is at least each of them.
LEMMA SumCovers ==
    ASSUME NEW N \in Nat, NEW e \in [0 .. N -> Nat],
           NEW f \in [0 .. N -> Int], SumsUpTo(f, e, N)
    PROVE  f[N] >= 0 /\ \A id \in 1 .. N : f[N] >= e[id]
  <1> DEFINE Covers ==
        { n \in 0 .. N : f[n] >= 0 /\ \A id \in 1 .. N : id <= n => f[n] >= e[id] }
  <1>1. 0 \in Covers
    BY DEF SumsUpTo
  <1>2. ASSUME NEW m \in 0 .. N, m # N, m \in Covers
        PROVE  m + 1 \in Covers
    <2>1. /\ m + 1 \in 1 .. N /\ m + 1 - 1 = m
          /\ f[m] \in Int /\ e[m + 1] \in Nat
      BY <1>2
    <2>2. f[m + 1] = f[m] + e[m + 1]
      BY <2>1 DEF SumsUpTo
    <2>3. f[m] >= 0 /\ \A id \in 1 .. N : id <= m => f[m] >= e[id]
      BY <1>2
    <2>4. ASSUME NEW id \in 1 .. N, id <= m + 1
          PROVE  f[m + 1] >= e[id]
      <3>1. e[id] \in Nat
        OBVIOUS
      <3>2. CASE id = m + 1
        BY <2>1, <2>2, <2>3, <3>2
      <3>3. CASE id <= m
        BY <2>1, <2>2, <2>3, <3>1, <3>3
      <3> QED
        BY <2>1, <2>4, <3>2, <3>3
    <2> QED
      BY <2>1, <2>2, <2>3, <2>4
  <1>3. N \in Covers
    <2>1. N \in 0 .. N
      OBVIOUS
    <2> HIDE DEF Covers
    <2>2. \A n \in 0 .. N : n # N /\ n \in Covers => n + 1 \in Covers
      BY <1>2
    <2> QED
      BY <1>1, <2>1, <2>2, IntervalInduction
  <1> QED
    BY <1>3

\* Running sums of integers are integers.
LEMMA SumsAreIntegers ==
    ASSUME NEW N \in Nat, NEW e \in [0 .. N -> Int],
           NEW f, f = [n \in 0 .. N |-> f[n]], SumsUpTo(f, e, N)
    PROVE  f \in [0 .. N -> Int]
  <1> DEFINE Typed == { n \in 0 .. N : f[n] \in Int }
  <1>1. 0 \in Typed
    BY DEF SumsUpTo
  <1>2. ASSUME NEW m \in 0 .. N, m # N, m \in Typed
        PROVE  m + 1 \in Typed
    <2>1. m + 1 \in 1 .. N /\ m + 1 - 1 = m /\ f[m] \in Int /\ e[m + 1] \in Int
      BY <1>2
    <2>2. f[m + 1] = f[m] + e[m + 1]
      BY <1>2, SumStep
    <2> QED
      BY <2>1, <2>2
  <1>3. \A n \in 0 .. N : n \in Typed
    <2> HIDE DEF Typed
    <2>1. \A n \in 0 .. N : n # N /\ n \in Typed => n + 1 \in Typed
      BY <1>2
    <2> QED
      BY <1>1, <2>1, IntervalInduction
  <1> QED
    BY <1>3

-----------------------------------------------------------------------------
(* The escrows of the bookings.                                            *)

Escrows == [id \in 0 .. U64_MAX |-> EscrowOf(id)]

Summed ==
    /\ Escrows \in [0 .. U64_MAX -> Nat]
    /\ EscrowUpTo \in [0 .. U64_MAX -> Int]
    /\ SumsUpTo(EscrowUpTo, Escrows, U64_MAX)

\* EscrowUpTo satisfies its defining equation.
LEMMA EscrowUpToSums == Inv => Summed
  <1> SUFFICES ASSUME Inv PROVE Summed
    OBVIOUS
  <1> DEFINE Eqn(f) == f = [n \in 0 .. U64_MAX |->
                              IF n = 0 THEN 0 ELSE f[n - 1] + EscrowOf(n)]
  <1>1. U64_MAX \in Nat
    BY BookingAssumption
  <1>2. Escrows \in [0 .. U64_MAX -> Nat]
    <2>1. ASSUME NEW id \in 0 .. U64_MAX
          PROVE  EscrowOf(id) \in Nat
      BY InvRecord, I128Range DEF EscrowOf, RecordOK, Bookings
    <2> QED
      BY <2>1 DEF Escrows
  <1>3. PICK f \in [0 .. U64_MAX -> Int] : SumsUpTo(f, Escrows, U64_MAX)
    <2>1. Escrows \in [0 .. U64_MAX -> Int]
      BY <1>2
    <2> QED
      BY <1>1, <2>1, RunningSumsExist
  <1>4. ASSUME NEW g, SumsUpTo(g, Escrows, U64_MAX), g \in [0 .. U64_MAX -> Int]
        PROVE  Eqn(g)
    BY <1>1, <1>4 DEF SumsUpTo, Escrows
  <1>5. EscrowUpTo = CHOOSE g : Eqn(g)
    BY DEF EscrowUpTo
  <1>6. Eqn(EscrowUpTo)
    <2> HIDE DEF Eqn
    <2> QED
      BY <1>3, <1>4, <1>5
  <1>7. SumsUpTo(EscrowUpTo, Escrows, U64_MAX)
           /\ EscrowUpTo = [n \in 0 .. U64_MAX |-> EscrowUpTo[n]]
    <2> DEFINE h == EscrowUpTo
    <2>1. Eqn(h)
      BY <1>6
    <2> HIDE DEF h
    <2>2. SumsUpTo(h, Escrows, U64_MAX) /\ h = [n \in 0 .. U64_MAX |-> h[n]]
      BY <1>1, <2>1 DEF SumsUpTo, Escrows
    <2> QED
      BY <2>2 DEF h
  <1>8. Escrows \in [0 .. U64_MAX -> Int]
    BY <1>2
  <1>9. EscrowUpTo \in [0 .. U64_MAX -> Int]
    BY <1>1, <1>7, <1>8, SumsAreIntegers
  <1> QED
    BY <1>2, <1>7, <1>9 DEF Summed

\* The sums before and after a step that changes at most the escrow of one
\* booking, by d.
LEMMA OneEscrowChanges ==
    ASSUME Inv, Inv', NEW id \in 1 .. U64_MAX, NEW d \in Int,
           EscrowOf(id)' = EscrowOf(id) + d,
           \A k \in 1 .. U64_MAX : k # id => EscrowOf(k)' = EscrowOf(k)
    PROVE  EscrowUpTo[U64_MAX]' = EscrowUpTo[U64_MAX] + d
  <1>1. Summed
    BY EscrowUpToSums
  <1>2. Summed'
    <2>1. (Inv => Summed)'
      BY EscrowUpToSums, PTL
    <2> QED
      BY <2>1
  <1>3. U64_MAX \in Nat
    BY BookingAssumption
  <1> DEFINE e == Escrows
             f == EscrowUpTo
             e2 == Escrows'
             g == EscrowUpTo'
  <1>4. e \in IntsUpTo(U64_MAX) /\ f \in IntsUpTo(U64_MAX) /\ SumsUpTo(f, e, U64_MAX)
    BY <1>1 DEF Summed, IntsUpTo
  <1>5. e2 \in IntsUpTo(U64_MAX) /\ g \in IntsUpTo(U64_MAX) /\ SumsUpTo(g, e2, U64_MAX)
    BY <1>2 DEF Summed, SumsUpTo, IntsUpTo
  <1>6. \A k \in 0 .. U64_MAX : e[k] = EscrowOf(k) /\ e2[k] = EscrowOf(k)'
    BY DEF Escrows
  <1>7. id \in 0 .. U64_MAX /\ \A k \in 1 .. U64_MAX : k \in 0 .. U64_MAX
    OBVIOUS
  <1>8. ElementShifts(e, e2, U64_MAX, id, d)
    BY <1>6, <1>7 DEF ElementShifts
  <1> HIDE DEF e, f, e2, g
  <1>9. g[U64_MAX] = f[U64_MAX] + d
    BY <1>3, <1>4, <1>5, <1>8, SumShifts
  <1> QED
    BY <1>9 DEF f, g

\* With no booking there is no escrow.
LEMMA NoEscrowAtFirst ==
    ASSUME Inv, DOMAIN booking = {}
    PROVE  EscrowUpTo[U64_MAX] = 0
  <1>1. U64_MAX \in Nat /\ 1 \in 1 .. U64_MAX /\ 0 \in Int
    BY BookingAssumption
  <1> DEFINE zeros == [n \in 0 .. U64_MAX |-> 0]
             e == Escrows
             f == EscrowUpTo
  <1>2. zeros \in IntsUpTo(U64_MAX) /\ SumsUpTo(zeros, zeros, U64_MAX)
    BY <1>1 DEF IntsUpTo, SumsUpTo
  <1>3. e \in IntsUpTo(U64_MAX) /\ f \in IntsUpTo(U64_MAX) /\ SumsUpTo(f, e, U64_MAX)
    BY EscrowUpToSums DEF Summed, IntsUpTo
  <1>4. ElementShifts(zeros, e, U64_MAX, 1, 0)
    <2>1. \A k \in 1 .. U64_MAX : e[k] = 0 /\ zeros[k] = 0
      BY <1>1 DEF Escrows, EscrowOf
    <2> HIDE DEF zeros, e
    <2> QED
      BY <1>1, <2>1 DEF ElementShifts
  <1>5. zeros[U64_MAX] = 0
    BY <1>1
  <1> HIDE DEF zeros, e, f
  <1>6. f[U64_MAX] = zeros[U64_MAX] + 0
    BY <1>1, <1>2, <1>3, <1>4, SumShifts
  <1> QED
    BY <1>5, <1>6 DEF f

\* The escrow total is the sum of the bookings' escrows, by whatever route
\* each booking was settled (storage.rs, increase_total_escrowed and
\* decrease_total_escrowed).
THEOREM EscrowTotal == Spec => []EscrowAccounted
  <1>1. Init => EscrowAccounted
    <2> SUFFICES ASSUME Init PROVE EscrowAccounted
      OBVIOUS
    <2>1. Inv /\ DOMAIN booking = {} /\ total_escrowed = 0
      BY InitInv DEF Init
    <2> QED
      BY <2>1, NoEscrowAtFirst DEF EscrowAccounted
  <1>2. ASSUME Inv, EscrowAccounted, [Next]_vars
        PROVE  EscrowAccounted'
    <2>1. Inv' /\ StepKind
      BY <1>2, StepInv
    <2>2. /\ DOMAIN booking \subseteq 1 .. U64_MAX /\ total_escrowed \in Int
          /\ 1 \in 1 .. U64_MAX
      BY <1>2, BookingAssumption DEF Inv, TypeOK
    <2>3. \A id \in DOMAIN booking : EscrowOf(id) \in Nat
      BY <1>2, InvRecord, I128Range DEF EscrowOf, RecordOK, Bookings
    <2>4. ASSUME NEW id \in 1 .. U64_MAX, NEW d \in Int,
                 total_escrowed' = total_escrowed + d,
                 EscrowOf(id)' = EscrowOf(id) + d,
                 \A k \in 1 .. U64_MAX : k # id => EscrowOf(k)' = EscrowOf(k)
          PROVE  total_escrowed' = EscrowUpTo[U64_MAX]'
      <3>1. EscrowUpTo[U64_MAX]' = EscrowUpTo[U64_MAX] + d
        BY <1>2, <2>1, <2>4, OneEscrowChanges
      <3> QED
        BY <1>2, <2>4, <3>1 DEF EscrowAccounted
    <2>5. ASSUME \A k \in 1 .. U64_MAX : EscrowOf(k)' = EscrowOf(k),
                 total_escrowed' = total_escrowed
          PROVE  total_escrowed' = EscrowUpTo[U64_MAX]'
      <3>1. EscrowOf(1)' = EscrowOf(1) + 0 /\ total_escrowed' = total_escrowed + 0
        <4>1. EscrowOf(1) \in Int
          BY <2>3 DEF EscrowOf
        <4> QED
          BY <2>2, <2>5, <4>1
      <3> QED
        BY <2>2, <2>4, <2>5, <3>1
    <2>6. ASSUME NEW new \in 1 .. U64_MAX, Created(new)
          PROVE  total_escrowed' = EscrowUpTo[U64_MAX]'
      <3>1. \A k \in 1 .. U64_MAX : EscrowOf(k)' = EscrowOf(k)
        BY <2>6 DEF Created, EscrowOf
      <3> QED
        BY <2>5, <2>6, <3>1 DEF Created
    <2>7. ASSUME NEW id \in DOMAIN booking, Rewritten(id)
          PROVE  total_escrowed' = EscrowUpTo[U64_MAX]'
      <3>1. \A k \in 1 .. U64_MAX : EscrowOf(k)' = EscrowOf(k)
        BY <2>7 DEF Rewritten, EscrowOf
      <3> QED
        BY <2>5, <2>7, <3>1 DEF Rewritten
    <2>8. ASSUME NEW id \in DOMAIN booking, Funded(id)
          PROVE  total_escrowed' = EscrowUpTo[U64_MAX]'
      <3>1. booking[id].escrow_amount = 0
        BY <1>2, <2>8, InvRecord DEF Funded, RecordOK, Consistent
      <3>2. PICK n \in Nat : n = booking'[id].escrow_amount
        BY <2>8 DEF Funded
      <3>3. /\ EscrowOf(id) = 0 /\ EscrowOf(id)' = n
            /\ total_escrowed' = total_escrowed + n
            /\ \A k \in 1 .. U64_MAX : k # id => EscrowOf(k)' = EscrowOf(k)
        BY <2>8, <3>1, <3>2 DEF Funded, EscrowOf
      <3>4. EscrowOf(id)' = EscrowOf(id) + n /\ id \in 1 .. U64_MAX /\ n \in Int
        BY <2>2, <3>3
      <3> QED
        BY <2>4, <3>3, <3>4
    <2>9. ASSUME NEW id \in DOMAIN booking, Settled(id)
          PROVE  total_escrowed' = EscrowUpTo[U64_MAX]'
      <3>1. PICK n \in Nat : n = EscrowOf(id)
        BY <2>3
      <3>2. booking'[id].escrow_amount = 0 /\ n = booking[id].escrow_amount
        BY <1>2, <2>1, <2>9, <3>1, InvRecord DEF Settled, EscrowOf, OtherRecordsKept
      <3>3. /\ EscrowOf(id)' = 0 /\ total_escrowed' = total_escrowed - n
            /\ \A k \in 1 .. U64_MAX : k # id => EscrowOf(k)' = EscrowOf(k)
        BY <2>9, <3>1, <3>2 DEF Settled, EscrowOf, OtherRecordsKept
      <3>4. /\ EscrowOf(id)' = EscrowOf(id) + (-n)
            /\ total_escrowed' = total_escrowed + (-n)
            /\ id \in 1 .. U64_MAX /\ -n \in Int
        BY <2>2, <3>1, <3>3
      <3> QED
        BY <2>4, <3>3, <3>4
    <2>10. ASSUME Outside
           PROVE  total_escrowed' = EscrowUpTo[U64_MAX]'
      BY <2>5, <2>10 DEF Outside, EscrowOf
    <2>11. total_escrowed' = EscrowUpTo[U64_MAX]'
      BY <2>1, <2>6, <2>7, <2>8, <2>9, <2>10 DEF StepKind
    <2> QED
      BY <2>11 DEF EscrowAccounted
  <1> QED
    BY <1>1, <1>2, Invariance, PTL DEF Spec

\* What is accounted for covers every single booking, so that the checked
\* subtraction of decrease_total_escrowed never falls below zero.
THEOREM TotalCoversEach ==
    Spec => [](total_escrowed >= 0 /\ \A id \in DOMAIN booking :
                  total_escrowed >= booking[id].escrow_amount)
  <1> DEFINE Covers == total_escrowed >= 0 /\ \A id \in DOMAIN booking :
                          total_escrowed >= booking[id].escrow_amount
  <1>1. Inv /\ EscrowAccounted => Covers
    <2> SUFFICES ASSUME Inv, EscrowAccounted PROVE Covers
      OBVIOUS
    <2>1. Summed /\ U64_MAX \in Nat
      BY EscrowUpToSums, BookingAssumption
    <2> DEFINE e == Escrows
               f == EscrowUpTo
    <2>2. /\ e \in [0 .. U64_MAX -> Nat] /\ f \in [0 .. U64_MAX -> Int]
          /\ SumsUpTo(f, e, U64_MAX)
      BY <2>1 DEF Summed
    <2>3. \A id \in DOMAIN booking :
            id \in 1 .. U64_MAX /\ e[id] = booking[id].escrow_amount
      BY DEF Inv, TypeOK, Escrows, EscrowOf
    <2> HIDE DEF e, f
    <2>4. f[U64_MAX] >= 0 /\ \A id \in 1 .. U64_MAX : f[U64_MAX] >= e[id]
      BY <2>1, <2>2, SumCovers
    <2>5. total_escrowed = f[U64_MAX]
      BY DEF f, EscrowAccounted
    <2> QED
      BY <2>3, <2>4, <2>5
  <1> QED
    BY <1>1, Invariance, EscrowTotal, PTL

-----------------------------------------------------------------------------
(* A booking's life goes one way.  This is the half of EveryEscrowReleased *)
(* that the provers reach: the one loop is the one that Stello must leave, *)
(* by insisting on resolve_dispute.                                        *)

\* From record b to record c on the way, or round the loop of disputes.
GoesOn(b, c) ==
    \/ Stage(c) > Stage(b)
    \/ /\ b.checked_in /\ Stage(c) = 3
       /\ {b.state, c.state} = {"Completed", "Disputed"}

\* Only a settled booking has reached the last stage.
LEMMA StageBounds ==
    ASSUME NEW b
    PROVE  Stage(b) \in 0 .. 4 /\ (~b.settled => Stage(b) < 4)
  BY DEF Stage

\* A call that sets the state (and the check-in mark) takes the booking on:
\* the guards of check_in, complete and open_dispute leave no way back.
LEMMA StateCallGoesOn ==
    ASSUME Inv, NEW id \in DOMAIN booking,
           CheckIn(id) \/ Complete(id) \/ OpenDispute(id)
    PROVE  GoesOn(booking[id], booking'[id])
  <1> DEFINE b == booking[id]
  <1>1. b \in Bookings /\ Consistent(b)
    BY InvRecord DEF RecordOK
  <1>2. CASE CheckIn(id)
    <2> DEFINE c == [b EXCEPT !.state = "CheckedIn", !.checked_in = TRUE]
    <2>1. b.state = "Escrowed" /\ booking'[id] = c
      BY <1>2 DEF CheckIn, ValidTransition, StelloSets
    <2>2. ~b.settled /\ ~b.checked_in
      BY <1>1, <2>1 DEF Consistent
    <2>3. c.state = "CheckedIn" /\ c.checked_in /\ ~c.settled
      BY <1>1, <2>2 DEF Bookings
    <2>4. Stage(b) \in {0, 1} /\ Stage(c) = 2
      BY <2>1, <2>2, <2>3 DEF Stage
    <2> QED
      BY <2>1, <2>4 DEF GoesOn
  <1>3. CASE Complete(id)
    <2> DEFINE c == [b EXCEPT !.state = "Completed"]
    <2>1. /\ b.state \in {"CheckedIn", "Disputed"} /\ b.checked_in
          /\ booking'[id] = c
      BY <1>3 DEF Complete, ValidTransition, StelloSets
    <2>2. ~b.settled
      BY <1>1, <2>1 DEF Consistent
    <2>3. c.state = "Completed" /\ ~c.settled
      BY <1>1, <2>2 DEF Bookings
    <2>4. Stage(c) = 3 /\ (b.state = "CheckedIn" => Stage(b) = 2)
      BY <2>1, <2>2, <2>3 DEF Stage
    <2> QED
      BY <2>1, <2>3, <2>4 DEF GoesOn
  <1>4. CASE OpenDispute(id)
    <2> DEFINE c == [b EXCEPT !.state = "Disputed"]
    <2>1. /\ b.state \in {"Escrowed", "Completed"} /\ ~b.settled
          /\ booking'[id] = c
      BY <1>4 DEF OpenDispute, StelloSets
    <2>2. /\ b.state = "Completed" => b.checked_in
          /\ b.state = "Escrowed" => ~b.checked_in
      BY <1>1, <2>1 DEF Consistent
    <2>3. c.state = "Disputed" /\ ~c.settled
      BY <1>1, <2>1 DEF Bookings
    <2>4. Stage(c) = 3 /\ (b.state = "Escrowed" => Stage(b) \in {0, 1})
      BY <2>1, <2>2, <2>3 DEF Stage
    <2> QED
      BY <2>1, <2>2, <2>3, <2>4 DEF GoesOn
  <1> QED
    BY <1>2, <1>3, <1>4

\* Every call that changes the state of a booking takes it on.
LEMMA CallGoesOn ==
    ASSUME Inv, NEW id \in DOMAIN booking, BookingCall(id),
           booking'[id].state # booking[id].state
    PROVE  GoesOn(booking[id], booking'[id])
  <1> DEFINE b == booking[id]
  <1>1. b \in Bookings /\ Consistent(b)
    BY InvRecord DEF RecordOK
  <1>2. ~UpdateCall(id)
    BY <1>1 DEF UpdateCall, UpdateBooking, StelloSets, Bookings
  <1>3. ASSUME NEW amount \in AmountArgs, LockEscrow(id, amount)
        PROVE  GoesOn(b, booking'[id])
    <2> DEFINE c == [b EXCEPT !.state = "Escrowed", !.escrow_locked = TRUE,
                              !.escrow_amount = amount]
    <2>1. b.state = "Created" /\ ~b.escrow_locked /\ ~b.settled
      BY <1>3 DEF LockEscrow
    <2>2. booking' = [booking EXCEPT ![id] = c]
      BY <1>3, LockEscrowInv
    <2>3. ~b.checked_in
      BY <1>1, <2>1 DEF Consistent
    <2>4. c.state = "Escrowed" /\ c.escrow_locked /\ ~c.checked_in /\ ~c.settled
      BY <1>1, <2>1, <2>3 DEF Bookings
    <2>5. Stage(b) = 0 /\ Stage(c) = 1
      BY <2>1, <2>3, <2>4 DEF Stage
    <2>6. booking'[id] = c
      BY <2>2
    <2> QED
      BY <2>5, <2>6 DEF GoesOn
  <1>4. ASSUME Settled(id)
        PROVE  GoesOn(b, booking'[id])
    <2>1. ~b.settled /\ booking'[id].settled
      BY <1>4 DEF Settled
    <2>2. Stage(booking'[id]) = 4
      BY <2>1 DEF Stage
    <2>3. Stage(b) \in 0 .. 4 /\ Stage(b) < 4
      BY <2>1, StageBounds
    <2> QED
      BY <2>2, <2>3 DEF GoesOn
  <1>5. CASE ExecuteSplit(id) \/ CancelByTraveller(id) \/ CancelByHost(id)
               \/ \E bps \in BpsArgs : ResolveDispute(id, bps)
    BY <1>4, <1>5, ExecuteSplitInv, CancelByTravellerInv, CancelByHostInv,
       ResolveDisputeInv
  <1> QED
    BY <1>2, <1>3, <1>5, StateCallGoesOn DEF BookingCall

\* Nothing leads back: a booking is funded once, stayed in once and settled
\* once, in this order, and a dispute opened instead of the stay ends only by
\* being settled.
THEOREM LifeGoesOneWay == Spec => OnlyDisputesLoop
  <1> DEFINE OneWay ==
        \A id \in DOMAIN booking : booking'[id].state # booking[id].state =>
          \/ Stage(booking'[id]) > Stage(booking[id])
          \/ /\ booking[id].checked_in /\ Stage(booking'[id]) = 3
             /\ {booking[id].state, booking'[id].state} = {"Completed", "Disputed"}
  <1>1. ASSUME Inv, [Next]_vars
        PROVE  OneWay
    <2> SUFFICES ASSUME NEW id \in DOMAIN booking,
                        booking'[id].state # booking[id].state
                 PROVE  GoesOn(booking[id], booking'[id])
      BY DEF GoesOn
    <2>1. ASSUME NEW k \in DOMAIN booking, BookingCall(k)
          PROVE  GoesOn(booking[id], booking'[id])
      <3>1. k = id
        BY <1>1, <2>1, AmountCall
      <3> QED
        BY <1>1, <2>1, <3>1, CallGoesOn
    <2>2. ~BookCall
      <3>1. ASSUME BookCall
            PROVE  \E new \in 1 .. U64_MAX : Created(new)
        BY <1>1, <3>1, BookStep DEF BookCall
      <3> QED
        BY <3>1 DEF Created
    <2>3. ~(World \/ (\E hash \in Wasms : Upgrade(hash)) \/ UNCHANGED vars)
      BY <1>1, WorldInv, UpgradeInv, StutterInv DEF Outside
    <2> QED
      BY <1>1, <2>1, <2>2, <2>3 DEF Next
  <1>2. Inv /\ [Next]_vars => [OneWay]_vars
    BY <1>1
  <1> QED
    BY <1>2, Invariance, PTL DEF Spec, OnlyDisputesLoop

-----------------------------------------------------------------------------
(* There is always a way out.  Recoverable says so of the calls that are   *)
(* ENABLED, which TLC computes and the provers do not; what makes a call   *)
(* succeed is here a condition on the state.                               *)

\* The checks of open_dispute, of complete, and of resolve_dispute with the
\* pushes it ends in.
MayOpenDispute(id) ==
    LET b == booking[id]
    IN  /\ ~b.settled /\ b.state \in {"Escrowed", "Completed"}
        /\ ValidTransition(b.state, "Disputed") /\ b.escrow_amount > 0

MayComplete(id) ==
    LET b == booking[id]
    IN  /\ ValidTransition(b.state, "Completed")
        /\ b.escrow_locked /\ b.checked_in

MayResolve(id, bps) ==
    LET b      == booking[id]
        shares == BpsAmounts(b.escrow_amount, bps)
    IN  /\ b.state = "Disputed" /\ ValidTransition(b.state, "Completed")
        /\ ValidBps(bps) /\ BpsAmountsFits(b.escrow_amount, bps)
        /\ \A r \in Roles : shares[r] <= b.escrow_amount
        /\ ~b.settled /\ b.escrow_amount > 0 /\ Solvent
        /\ Sum(shares) = b.escrow_amount
        /\ CanPush(balance, shares, Payee(b))

\* What resolve_dispute does once they are passed.
Resolves(id, bps) ==
    LET b      == booking[id]
        shares == BpsAmounts(b.escrow_amount, bps)
    IN  /\ RequireAuth(config.stello_wallet)
        /\ booking' = [booking EXCEPT ![id] =
              [[b EXCEPT !.state = "Completed"] EXCEPT !.settled = TRUE,
                                                       !.escrow_amount = 0]]
        /\ DecreaseTotalEscrowed(b.escrow_amount)
        /\ balance' = Push(balance, shares, Payee(b))
        /\ UNCHANGED <<config, next_booking_id, booking_ref_index,
                       cancel_settlement, wasm, now, refusing>>

\* A call succeeds in exactly the states that pass its checks.
LEMMA CallsByTheirChecks ==
    ASSUME NEW id, NEW bps
    PROVE  /\ OpenDispute(id) <=>
                /\ MayOpenDispute(id)
                /\ StelloSets(id, [booking[id] EXCEPT !.state = "Disputed"])
           /\ Complete(id) <=>
                /\ MayComplete(id)
                /\ StelloSets(id, [booking[id] EXCEPT !.state = "Completed"])
           /\ ResolveDispute(id, bps) <=> MayResolve(id, bps) /\ Resolves(id, bps)
  <1>1. OpenDispute(id) <=>
          /\ MayOpenDispute(id)
          /\ StelloSets(id, [booking[id] EXCEPT !.state = "Disputed"])
    BY DEF OpenDispute, MayOpenDispute
  <1>2. Complete(id) <=>
          /\ MayComplete(id)
          /\ StelloSets(id, [booking[id] EXCEPT !.state = "Completed"])
    BY DEF Complete, MayComplete
  <1>3. ResolveDispute(id, bps) <=> MayResolve(id, bps) /\ Resolves(id, bps)
    BY DEF ResolveDispute, MayResolve, Settle, Resolves
  <1> QED
    BY <1>1, <1>2, <1>3

\* The whole escrow to one role.
AllTo(one) == [r \in Roles |-> IF r = one THEN BPS_DENOM ELSE 0]

\* Such an allocation is accepted, leaves no dust and pays nobody else, not
\* even the traveller, to whom the dust would go.
LEMMA AllToOnePays ==
    ASSUME NEW amount \in Nat, NEW one \in Roles
    PROVE  /\ AllTo(one) \in Shares /\ ValidBps(AllTo(one))
           /\ \A r \in Roles : r # one => BpsAmounts(amount, AllTo(one))[r] = 0
  <1> DEFINE bps    == AllTo(one)
             shares == BpsAmounts(amount, bps)
  <1>1. bps \in Shares /\ Sum(bps) = BPS_DENOM
    BY DEF AllTo, Shares, Sum, Roles, BPS_DENOM
  <1>2. ValidBps(bps)
    BY <1>1, IntWidths DEF ValidBps
  <1>3. bps[one] = BPS_DENOM /\ \A r \in Roles : r # one => bps[r] = 0
    BY DEF AllTo
  <1>4. /\ shares \in Shares /\ Sum(shares) = amount
        /\ \A r \in Roles : r # "traveller" => shares[r] - BpsFloor(amount, bps[r]) = 0
        /\ shares["traveller"] - BpsFloor(amount, bps["traveller"]) \in 0 .. 5
    <2>1. "traveller" \in Roles
      BY DEF Roles
    <2> HIDE DEF bps
    <2>2. /\ Allocate(amount, bps, "traveller") \in Shares
          /\ Sum(Allocate(amount, bps, "traveller")) = amount
          /\ \A r \in Roles :
               Allocate(amount, bps, "traveller")[r] - BpsFloor(amount, bps[r])
                 \in IF r = "traveller" THEN 0 .. 5 ELSE {0}
      BY <1>1, <2>1, AllocationExact
    <2> QED
      BY <2>1, <2>2 DEF BpsAmounts
  <1>5. BpsFloor(amount, BPS_DENOM) = amount
    <2>1. PICK n : n = BpsFloor(amount, BPS_DENOM)
      OBVIOUS
    <2>2. BPS_DENOM \in Nat
      BY DEF BPS_DENOM
    <2>3. /\ n \in Nat /\ BPS_DENOM * n <= amount * BPS_DENOM
          /\ amount * BPS_DENOM < BPS_DENOM * n + BPS_DENOM
      BY <2>1, <2>2, BpsFloorIsFloor
    <2> QED
      BY <2>1, <2>3 DEF BPS_DENOM
  <1>6. \A r \in Roles : shares[r] \in Nat
    BY <1>4 DEF Shares
  <1>7. \A r \in Roles : r # one /\ r # "traveller" => shares[r] = 0
    BY <1>3, <1>4, <1>6, BpsFloorZero
  <1>8. one # "traveller" => shares["traveller"] = 0
    <2> SUFFICES ASSUME one # "traveller" PROVE shares["traveller"] = 0
      OBVIOUS
    <2>1. shares[one] = amount
      BY <1>3, <1>4, <1>5, <1>6
    <2> HIDE DEF shares
    <2> QED
      BY <1>4, <1>6, <1>7, <2>1 DEF Sum, Roles
  <1> QED
    BY <1>1, <1>2, <1>7, <1>8

\* The way out of a booking's escrow.  A booking in dispute can be settled in
\* favour of whichever payee receives, if only one does.
WayOut(id) ==
    LET b == booking[id]
    IN  \/ b.state \in {"Escrowed", "Completed"} /\ MayOpenDispute(id)
        \/ b.state = "CheckedIn" /\ MayComplete(id)
        \/ /\ b.state = "Disputed"
           /\ \A one \in Roles : Solvent /\ Payee(b)[one] \notin refusing =>
                 MayResolve(id, AllTo(one))

\* No escrow is ever stuck (lib.rs, execute_split: "Recovery: open_dispute
\* then resolve_dispute"), whatever the amounts and whoever refuses.
THEOREM NeverStuck ==
    Spec => [](\A id \in DOMAIN booking : booking[id].escrow_amount > 0 => WayOut(id))
  <1> DEFINE Covers == total_escrowed >= 0 /\ \A id \in DOMAIN booking :
                          total_escrowed >= booking[id].escrow_amount
             Never == \A id \in DOMAIN booking :
                          booking[id].escrow_amount > 0 => WayOut(id)
  <1>1. Inv /\ Covers => Never
    <2> SUFFICES ASSUME Inv, Covers, NEW id \in DOMAIN booking,
                        booking[id].escrow_amount > 0
                 PROVE  WayOut(id)
      OBVIOUS
    <2> DEFINE b == booking[id]
    <2>1. /\ b \in Bookings /\ Consistent(b)
          /\ b.escrow_amount \in 1 .. I128_MAX
      BY InvRecord, EscrowHeld DEF RecordOK
    <2>2. b.escrow_locked /\ ~b.settled
      BY <2>1 DEF Consistent
    <2>3. b.state \in {"Escrowed", "CheckedIn", "Completed", "Disputed"}
      BY <2>1, <2>2 DEF Bookings, States, Consistent
    <2>4. CASE b.state \in {"Escrowed", "Completed"}
      BY <2>2, <2>4 DEF WayOut, MayOpenDispute, ValidTransition
    <2>5. CASE b.state = "CheckedIn"
      BY <2>1, <2>2, <2>5 DEF WayOut, MayComplete, ValidTransition, Consistent
    <2>6. CASE b.state = "Disputed"
      <3> SUFFICES ASSUME NEW one \in Roles, Solvent, Payee(b)[one] \notin refusing
                   PROVE  MayResolve(id, AllTo(one))
        BY <2>6 DEF WayOut
      <3>1. PICK amount \in Nat : amount = b.escrow_amount
        BY <2>1, I128Range
      <3>2. PICK bps : bps = AllTo(one)
        OBVIOUS
      <3>3. PICK shares : shares = BpsAmounts(amount, bps)
        OBVIOUS
      <3>4. /\ bps \in Shares /\ ValidBps(bps)
            /\ \A r \in Roles : r # one => shares[r] = 0
        BY <3>2, <3>3, AllToOnePays
      <3>5. amount \in 1 .. I128_MAX
        BY <2>1, <3>1
      <3>6. /\ BpsAmountsFits(amount, bps) /\ shares \in Shares
            /\ Sum(shares) = amount
        BY <3>3, <3>4, <3>5, SettlementsExact
      <3>7. \A r \in Roles : shares[r] \in Nat /\ shares[r] <= amount
        BY <3>6, SumBounds
      <3>8. CanPush(balance, shares, Payee(b))
        <4>1. balance[Contract] \in Int /\ total_escrowed \in Int
          BY LedgerAssumption DEF Inv, TypeOK, TokenTypeOK
        <4>2. Sum(shares) <= balance[Contract]
          BY <3>1, <3>6, <4>1 DEF Solvent
        <4>3. \A r \in Roles : shares[r] > 0 => Payee(b)[r] \notin refusing
          BY <3>4
        <4> QED
          BY <4>2, <4>3 DEF CanPush
      <3> QED
        BY <2>2, <2>6, <3>1, <3>2, <3>3, <3>4, <3>5, <3>6, <3>7, <3>8
           DEF MayResolve, ValidTransition
    <2> QED
      BY <2>3, <2>4, <2>5, <2>6
  <1> QED
    BY <1>1, Invariance, TotalCoversEach, PTL
=============================================================================
