--------------------------- MODULE BackfillProofs ---------------------------
(***************************************************************************)
(* What the backfill generator writes, for every calendar of months of 28  *)
(* to 31 days, every table of records and every option.                    *)
(*                                                                         *)
(* The argument: the months of a calendar follow each other, so the last   *)
(* days of the months from the overdue start on grow, and only the first   *)
(* of them can be the day the deal became overdue; a chain is therefore    *)
(* the history from its first or second month on, and the deal's own       *)
(* period behind it.  The loop writes each selected line once, expanded or *)
(* as it was, until the self-check meets a deal it does not accept.        *)
(***************************************************************************)
EXTENDS BackfillChain, FiniteSetTheorems, SequenceTheorems, WellFoundedInduction, TLAPS

-----------------------------------------------------------------------------
(***************************************************************************)
(* Least and greatest numbers, and selections from a sequence.             *)
(***************************************************************************)
\* A set of numbers has a least member.
LEMMA LeastExists ==
  ASSUME NEW T, T \subseteq Nat, T # {}
  PROVE  \E x \in T : \A y \in T : x <= y
<1> DEFINE R == {ss \in Nat \X Nat : ss[1] < ss[2]}
<1>1. IsWellFoundedOn(R, Nat)
  BY NatLessThanWellFounded DEF OpToRel
<1>2. PICK x \in T : \A y \in T : <<y, x>> \notin R
  BY <1>1, WFMin
<1>3. ASSUME NEW y \in T
      PROVE  x <= y
  <2>1. x \in Nat /\ y \in Nat /\ ~(y < x)
    BY <1>2
  <2>2. QED
    BY <2>1
<1>4. QED
  BY <1>3

\* A function to numbers is greatest somewhere on a finite set: a least subset without such
\* a place would have one when a member is taken away.
LEMMA GreatestAt ==
  ASSUME NEW S, IsFiniteSet(S), S # {}, NEW f \in [S -> Nat]
  PROVE  \E x \in S : \A y \in S : f[y] <= f[x]
<1> DEFINE Tops(U) == {x \in U : \A y \in U : f[y] <= f[x]}
           Bad == {U \in FiniteSubsetsOf(S) : U # {} /\ Tops(U) = {}}
<1>1. SUFFICES ASSUME Tops(S) = {} PROVE FALSE
  OBVIOUS
<1>2. Bad \subseteq FiniteSubsetsOf(S) /\ Bad # {}
  BY <1>1 DEF FiniteSubsetsOf
<1>3. PICK U \in Bad : \A V \in Bad : ~(<<V, U>> \in StrictSubsetOrdering(S))
  <2>1. IsWellFoundedOn(StrictSubsetOrdering(S), FiniteSubsetsOf(S))
    BY FS_StrictSubsetOrderingWellFounded
  <2>2. QED
    BY <1>2, <2>1, WFMin
<1>4. U \subseteq S /\ IsFiniteSet(U) /\ Tops(U) = {}
  BY DEF FiniteSubsetsOf
<1>5. PICK x \in U : TRUE
  OBVIOUS
<1> DEFINE V == U \ {x}
<1>6. V \in FiniteSubsetsOf(S)
  BY <1>4, FS_RemoveElement DEF FiniteSubsetsOf
<1>7. <<V, U>> \in StrictSubsetOrdering(S)
  BY <1>4, <1>5 DEF StrictSubsetOrdering
<1>8. V = {} \/ Tops(V) # {}
  BY <1>3, <1>6, <1>7
<1>9. CASE V = {}
  BY <1>4, <1>5, <1>9
<1>10. CASE Tops(V) # {}
  <2>1. PICK z \in V : \A y \in V : f[y] <= f[z]
    BY <1>10
  <2>2. f[x] \in Nat /\ f[z] \in Nat /\ \A y \in V : f[y] \in Nat
    BY <1>4, <1>5
  <2>3. CASE f[x] <= f[z]
    BY <1>4, <1>5, <2>1, <2>2, <2>3
  <2>4. CASE ~(f[x] <= f[z])
    BY <1>4, <1>5, <2>1, <2>2, <2>4
  <2>5. QED
    BY <2>3, <2>4
<1>11. QED
  BY <1>8, <1>9, <1>10

\* The number of positions that do not exceed one.
Rank(K, k) == Cardinality({j \in K : j <= k})

\* Among so many positions each rank is taken.
LEMMA RankExists ==
  ASSUME NEW K, K \subseteq Nat, IsFiniteSet(K), NEW i \in 1..Cardinality(K)
  PROVE  \E k \in K : Rank(K, k) = i
<1> DEFINE Upto(k) == {j \in K : j <= k}
           T == {k \in K : Rank(K, k) >= i}
<1>1. \A k \in K : IsFiniteSet(Upto(k)) /\ Rank(K, k) \in Nat
  BY FS_Subset, FS_CardinalityType DEF Rank
<1>2. \A L \in SUBSET K : L # {} => \E k \in L : \A j \in L : j <= k
  <2>1. SUFFICES ASSUME NEW L \in SUBSET K, L # {}
                 PROVE  \E k \in L : \A j \in L : j <= k
    OBVIOUS
  <2> DEFINE self == [j \in L |-> j]
  <2>2. IsFiniteSet(L) /\ self \in [L -> Nat]
    BY FS_Subset
  <2>3. \A j \in L : self[j] = j
    OBVIOUS
  <2> HIDE DEF self
  <2>4. PICK k \in L : \A j \in L : self[j] <= self[k]
    BY <2>1, <2>2, GreatestAt
  <2>5. QED
    BY <2>3, <2>4
<1>3. Cardinality(K) \in Nat /\ K # {}
  BY FS_CardinalityType, FS_EmptySet
<1>4. T # {}
  <2>1. PICK k \in K : \A j \in K : j <= k
    BY <1>2, <1>3
  <2>2. Upto(k) = K
    BY <2>1
  <2>3. QED
    BY <1>3, <2>2 DEF Rank
<1>5. PICK k \in T : \A j \in T : k <= j
  BY <1>4, LeastExists
<1>6. ASSUME Rank(K, k) # i
      PROVE  FALSE
  <2> DEFINE Below == Upto(k) \ {k}
  <2>1. IsFiniteSet(Below) /\ Cardinality(Below) = Rank(K, k) - 1
    <3>1. k \in K /\ k \in Upto(k) /\ IsFiniteSet(Upto(k))
      BY <1>1
    <3>2. Rank(K, k) = Cardinality(Upto(k))
      BY DEF Rank
    <3> HIDE DEF Upto
    <3>3. QED
      BY <3>1, <3>2, FS_RemoveElement
  <2>2. Cardinality(Below) >= i /\ Below # {}
    <3>1. i \in Nat /\ i >= 1
      BY <1>3
    <3>2. Rank(K, k) \in Nat /\ Rank(K, k) >= i
      BY <1>1
    <3>3. Cardinality(Below) >= i
      BY <1>6, <2>1, <3>1, <3>2
    <3>4. QED
      BY <3>1, <3>3, FS_EmptySet
  <2>3. PICK l \in Below : \A j \in Below : j <= l
    BY <1>2, <2>2
  <2>4. Upto(l) = Below
    <3>1. \A j \in Below : j \in Nat /\ j <= k /\ j # k
      OBVIOUS
    <3>2. \A j \in K : j \in Nat
      OBVIOUS
    <3>3. l < k /\ l \in Nat /\ k \in Nat
      BY <3>1, <3>2
    <3>4. \A j \in K : j <= l => j \in Below
      BY <3>2, <3>3
    <3>5. QED
      BY <2>3, <3>4
  <2>5. l \in T
    BY <2>2, <2>3, <2>4 DEF Rank
  <2>6. QED
    BY <1>5, <2>3, <2>5
<1>7. QED
  BY <1>5, <1>6

\* What a selection holds, and in which order.
LEMMA Selection ==
  ASSUME NEW S, NEW seq \in Seq(S), NEW K \in SUBSET (1..Len(seq))
  PROVE  /\ IsFiniteSet(K) /\ Cardinality(K) \in Nat
         /\ At(seq, K) \in Seq(S) /\ Len(At(seq, K)) = Cardinality(K)
         /\ \A i \in 1..Cardinality(K) :
               \E k \in K : Rank(K, k) = i /\ At(seq, K)[i] = seq[k]
<1> DEFINE c == Cardinality(K)
           pos(i) == CHOOSE k \in K : Cardinality({j \in K : j <= k}) = i
<1>1. Len(seq) \in Nat /\ \A k \in 1..Len(seq) : k \in Nat /\ seq[k] \in S
  BY ElementOfSeq, LenProperties
<1>2. IsFiniteSet(K) /\ c \in Nat /\ K \subseteq Nat
  <2>1. IsFiniteSet(1..Len(seq))
    BY <1>1, FS_Interval
  <2>2. IsFiniteSet(K)
    BY <2>1, FS_Subset
  <2>3. QED
    BY <1>1, <2>2, FS_CardinalityType
<1>3. ASSUME NEW i \in 1..c
      PROVE  pos(i) \in K /\ Rank(K, pos(i)) = i
  <2>1. PICK k \in K : Rank(K, k) = i
    BY <1>2, RankExists
  <2>2. Cardinality({j \in K : j <= k}) = i
    BY <2>1 DEF Rank
  <2>3. pos(i) \in K /\ Cardinality({j \in K : j <= pos(i)}) = i
    BY <2>2
  <2>4. QED
    BY <2>3 DEF Rank
<1>4. At(seq, K) = [i \in 1..c |-> seq[pos(i)]]
  BY DEF At
<1> HIDE DEF pos, c
<1>5. At(seq, K) \in [1..c -> S]
  BY <1>1, <1>3, <1>4
<1>6. At(seq, K) \in Seq(S) /\ Len(At(seq, K)) = c
  BY <1>2, <1>5
<1>7. \A i \in 1..c : \E k \in K : Rank(K, k) = i /\ At(seq, K)[i] = seq[k]
  BY <1>3, <1>4
<1>8. QED
  BY <1>2, <1>6, <1>7 DEF c

\* The positions from one on are a tail.
LEMMA SelectTail ==
  ASSUME NEW S, NEW seq \in Seq(S), NEW a \in 1..(Len(seq) + 1)
  PROVE  /\ Len(At(seq, a..Len(seq))) = Len(seq) - a + 1
         /\ \A i \in 1..(Len(seq) - a + 1) : At(seq, a..Len(seq))[i] = seq[a + i - 1]
<1> DEFINE b == Len(seq)
           K == a..b
<1>1. a \in Nat /\ a >= 1 /\ b \in Nat /\ a <= b + 1
  BY LenProperties
<1> HIDE DEF b
<1>2. K \in SUBSET (1..b) /\ Cardinality(K) = b - a + 1
  <2>1. a \in Int /\ b \in Int
    BY <1>1
  <2>2. Cardinality(a..b) = IF a > b THEN 0 ELSE b - a + 1
    BY <2>1, FS_Interval
  <2>3. QED
    BY <1>1, <2>2
<1>3. \A k \in K : Rank(K, k) = k - a + 1
  <2>1. TAKE k \in K
  <2>2. {j \in K : j <= k} = a..k
    BY <1>1
  <2>3. k \in Int /\ a <= k
    BY <1>1
  <2>4. Cardinality(a..k) = IF a > k THEN 0 ELSE k - a + 1
    BY <1>1, <2>3, FS_Interval
  <2>5. Rank(K, k) = Cardinality(a..k)
    BY <2>2, Zenon DEF Rank
  <2>6. ~(a > k)
    BY <1>1, <2>3
  <2>7. QED
    BY <2>4, <2>5, <2>6
<1> HIDE DEF K
<1>4. Len(At(seq, K)) = b - a + 1
  BY <1>2, Selection DEF b
<1>5. ASSUME NEW i \in 1..(b - a + 1)
      PROVE  At(seq, K)[i] = seq[a + i - 1]
  <2>1. i \in 1..Cardinality(K) /\ K \in SUBSET (1..Len(seq))
    BY <1>2 DEF b
  <2>2. PICK k \in K : Rank(K, k) = i /\ At(seq, K)[i] = seq[k]
    BY <2>1, Selection
  <2>3. k \in Int /\ i \in Int
    BY <1>1 DEF K
  <2>4. k = a + i - 1
    BY <1>1, <1>3, <2>2, <2>3
  <2>5. QED
    BY <2>2, <2>4
<1>6. QED
  BY <1>4, <1>5 DEF K, b

-----------------------------------------------------------------------------
(***************************************************************************)
(* The calendar.                                                           *)
(***************************************************************************)
\* Months are 28 to 31 days long (calendar.monthrange).
LEMMA MonthLength ==
  ASSUME NEW m \in Month
  PROVE  /\ m \in Nat /\ m - 1 \in 0..Months /\ m \in 0..Months
         /\ LastDay[m - 1] \in Nat /\ LastDay[m] \in Nat
         /\ LastDay[m - 1] + 28 <= LastDay[m] /\ LastDay[m] <= LastDay[m - 1] + 31
<1>1. Months \in Nat /\ LastDay \in [0..Months -> Nat] /\ LastDay[m] - LastDay[m - 1] \in 28..31
  BY BackfillAssumption
<1>2. m \in Nat /\ m - 1 \in 0..Months /\ m \in 0..Months
  BY <1>1 DEF Month
<1>3. LastDay[m - 1] \in Nat /\ LastDay[m] \in Nat
  BY <1>1, <1>2
<1>4. QED
  BY <1>1, <1>2, <1>3

\* The last days of months grow: the first month that broke the order would follow one that
\* does not.
LEMMA CalendarGrows ==
  ASSUME NEW l \in 0..Months, NEW m \in 0..Months, l < m
  PROVE  LastDay[l] + 28 <= LastDay[m]
<1> DEFINE T == {k \in Month : l < k /\ ~(LastDay[l] + 28 <= LastDay[k])}
<1>1. Months \in Nat /\ LastDay \in [0..Months -> Nat]
  BY BackfillAssumption
<1>2. l \in Nat /\ m \in Month /\ LastDay[l] \in Nat /\ T \subseteq Nat
  BY <1>1 DEF Month
<1>3. ASSUME T # {}
      PROVE  FALSE
  <2>1. PICK k \in T : \A j \in T : k <= j
    BY <1>2, <1>3, LeastExists
  <2>2. k \in Nat /\ k - 1 \in 0..Months /\ LastDay[k - 1] + 28 <= LastDay[k]
    BY MonthLength
  <2>3. LastDay[k - 1] \in Nat /\ LastDay[k] \in Nat
    BY MonthLength
  <2>4. CASE k - 1 = l
    BY <2>2, <2>4
  <2>5. CASE k - 1 # l
    <3>1. l < k - 1 /\ k - 1 \in Month /\ ~(k <= k - 1)
      BY <1>1, <1>2, <2>2, <2>5 DEF Month
    <3>2. LastDay[l] + 28 <= LastDay[k - 1]
      BY <2>1, <3>1
    <3>3. QED
      BY <1>2, <2>2, <2>3, <3>2
  <2>6. QED
    BY <2>4, <2>5
<1>4. QED
  BY <1>2, <1>3

\* A day lies in one month (the year and month of a date).
LEMMA DayInMonth ==
  ASSUME NEW day \in Day
  PROVE  /\ MonthOf(day) \in Month /\ day \in Nat
         /\ LastDay[MonthOf(day) - 1] < day /\ day <= LastDay[MonthOf(day)]
<1> DEFINE T == {k \in Month : day <= LastDay[k]}
<1>1. /\ Months \in Nat /\ LastDay \in [0..Months -> Nat] /\ LastDay[0] = 0
      /\ day \in Nat /\ day >= 1 /\ day <= LastDay[Months]
  <2>1. Months \in Nat /\ LastDay \in [0..Months -> Nat] /\ LastDay[0] = 0
    BY BackfillAssumption
  <2>2. LastDay[Months] \in Nat
    BY <2>1
  <2>3. QED
    BY <2>1, <2>2 DEF Day
<1>2. Months \in Month /\ T # {} /\ T \subseteq Nat
  BY <1>1 DEF Month
<1>3. PICK m \in T : \A k \in T : m <= k
  BY <1>2, LeastExists
<1>4. m \in Nat /\ m - 1 \in 0..Months /\ LastDay[m - 1] \in Nat /\ LastDay[m] \in Nat
  BY MonthLength
<1>5. LastDay[m - 1] < day
  <2>1. CASE m - 1 = 0
    BY <1>1, <2>1
  <2>2. CASE m - 1 # 0
    <3>1. m - 1 \in Month /\ ~(m <= m - 1)
      BY <1>1, <1>4, <2>2 DEF Month
    <3>2. ~(day <= LastDay[m - 1])
      BY <1>3, <3>1
    <3>3. QED
      BY <1>1, <1>4, <3>2
  <2>3. QED
    BY <2>1, <2>2
<1>6. day \in (LastDay[m - 1] + 1)..LastDay[m]
  BY <1>1, <1>4, <1>5
<1>7. MonthOf(day) \in Month /\ day \in (LastDay[MonthOf(day) - 1] + 1)..LastDay[MonthOf(day)]
  BY <1>6 DEF MonthOf
<1>8. LastDay[MonthOf(day) - 1] \in Nat /\ LastDay[MonthOf(day)] \in Nat
  BY <1>7, MonthLength
<1>9. QED
  BY <1>1, <1>7, <1>8

\* And in no other.
LEMMA MonthIsUnique ==
  ASSUME NEW m \in Month, NEW day \in Day, LastDay[m - 1] < day, day <= LastDay[m]
  PROVE  MonthOf(day) = m
<1> DEFINE k == MonthOf(day)
<1>1. k \in Month /\ day \in Nat /\ LastDay[k - 1] < day /\ day <= LastDay[k]
  BY DayInMonth
<1> HIDE DEF k
<1>2. /\ Months \in Nat /\ k \in Nat /\ m \in Nat
      /\ {k, m, k - 1, m - 1} \subseteq 0..Months
  BY <1>1, MonthLength, BackfillAssumption
<1>3. \A l \in 0..Months : LastDay[l] \in Nat
  BY BackfillAssumption
<1>4. CASE k < m
  <2>1. k = m - 1 \/ LastDay[k] + 28 <= LastDay[m - 1]
    BY <1>2, <1>4, CalendarGrows
  <2>2. QED
    BY <1>1, <1>2, <1>3, <2>1
<1>5. CASE m < k
  <2>1. m = k - 1 \/ LastDay[m] + 28 <= LastDay[k - 1]
    BY <1>2, <1>5, CalendarGrows
  <2>2. QED
    BY <1>1, <1>2, <1>3, <2>1
<1>6. QED
  BY <1>2, <1>4, <1>5 DEF k

\* The last day of a month is a day, and it lies in that month.
LEMMA LastDayInMonth ==
  ASSUME NEW m \in Month
  PROVE  LastDay[m] \in Day /\ MonthOf(LastDay[m]) = m
<1>1. /\ Months \in Nat /\ m \in Nat /\ m \in 0..Months /\ Months \in 0..Months
      /\ LastDay[m - 1] \in Nat /\ LastDay[m] \in Nat /\ LastDay[m - 1] + 28 <= LastDay[m]
      /\ LastDay[Months] \in Nat
  BY MonthLength, BackfillAssumption
<1>2. m = Months \/ LastDay[m] + 28 <= LastDay[Months]
  BY <1>1, CalendarGrows DEF Month
<1>3. LastDay[m] \in Day
  BY <1>1, <1>2 DEF Day
<1>4. QED
  BY <1>1, <1>3, MonthIsUnique

-----------------------------------------------------------------------------
(***************************************************************************)
(* The chain of one deal.                                                  *)
(***************************************************************************)
\* A slice that _make_slice builds: the period of its calculation date, the days from the
\* overdue start to that date, and no malformed end date.
LEMMA MadeSlice ==
  ASSUME NEW s \in Slice, s.dpf # None, NEW clc \in Day, NEW historical \in BOOLEAN
  PROVE  /\ MakeSlice(s, clc, historical) \in Slice
         /\ MakeSlice(s, clc, historical).month = MonthOf(clc)
         /\ MakeSlice(s, clc, historical).exp = Overdue(clc, s.dpf)
         /\ MakeSlice(s, clc, historical).owed = s.owed
         /\ MakeSlice(s, clc, historical).ff # Malformed
         /\ MakeSlice(s, clc, historical).ff = (IF historical THEN None ELSE Clean(s).ff)
<1>1. s.dpf \in Nat /\ clc \in Nat /\ MonthOf(clc) \in Month
  BY DayInMonth DEF Slice
<1>2. Overdue(clc, s.dpf) \in Nat
  BY <1>1 DEF Overdue
<1>3. Clean(s) \in Slice /\ Clean(s).ff # Malformed /\ Clean(s).owed = s.owed
  BY BackfillAssumption DEF Clean, Slice
<1>4. None # Malformed
  BY BackfillAssumption
<1>5. QED
  BY <1>1, <1>2, <1>3, <1>4 DEF MakeSlice, Slice

\* The calculation date of the final slice is a day, and for a sound deal one of its period.
LEMMA FinalDay ==
  ASSUME NEW s \in Slice, s.month \in Month
  PROVE  /\ FinalClc(s) \in Day
         /\ Sound(s) => MonthOf(FinalClc(s)) = s.month
<1>1. s.clc \in Day \cup {None}
  BY DEF Slice
<1>2. QED
  BY <1>1, LastDayInMonth DEF FinalClc, Sound

\* The first month of a chain: that of the overdue start, unless the deal became overdue on
\* its last day.
FirstMonth(s) ==
  IF LastDay[MonthOf(s.dpf)] = s.dpf THEN MonthOf(s.dpf) + 1 ELSE MonthOf(s.dpf)

HistoryLength(s) == IF s.month > FirstMonth(s) THEN s.month - FirstMonth(s) ELSE 0

\* The overdue start lies in the first month of the chain, before its last day, or on the
\* last day of the month before.
LEMMA FirstMonthFacts ==
  ASSUME NEW s \in Slice, s.dpf # None
  PROVE  /\ s.dpf \in Nat /\ FirstMonth(s) \in Nat
         /\ FirstMonth(s) - 1 \in 0..Months /\ LastDay[FirstMonth(s) - 1] \in Nat
         /\ LastDay[FirstMonth(s) - 1] <= s.dpf
         /\ FirstMonth(s) \in Month => s.dpf < LastDay[FirstMonth(s)]
<1> DEFINE start == MonthOf(s.dpf)
<1>1. /\ start \in Month /\ s.dpf \in Nat
      /\ LastDay[start - 1] < s.dpf /\ s.dpf <= LastDay[start]
  BY DayInMonth DEF Slice
<1>2. /\ start \in Nat /\ start \in 0..Months /\ start - 1 \in 0..Months
      /\ LastDay[start] \in Nat /\ LastDay[start - 1] \in Nat
  BY <1>1, MonthLength
<1> HIDE DEF start
<1>3. CASE LastDay[start] = s.dpf
  <2>1. FirstMonth(s) = start + 1
    BY <1>3 DEF FirstMonth, start
  <2>2. start + 1 \in Month => LastDay[start] + 28 <= LastDay[start + 1]
    BY <1>2, MonthLength
  <2>3. start + 1 \in Month => LastDay[start + 1] \in Nat
    BY MonthLength
  <2>4. QED
    BY <1>1, <1>2, <1>3, <2>1, <2>2, <2>3
<1>4. CASE LastDay[start] # s.dpf
  <2>1. FirstMonth(s) = start
    BY <1>4 DEF FirstMonth, start
  <2>2. QED
    BY <1>1, <1>2, <1>4, <2>1
<1>5. QED
  BY <1>3, <1>4

\* On the last day of each later month the deal is overdue (the comment above the loop of
\* expand_deal: only the first slice can have zero days).
LEMMA LaterMonths ==
  ASSUME NEW s \in Slice, s.dpf # None, NEW m \in Month, m >= FirstMonth(s)
  PROVE  /\ s.dpf < LastDay[m] /\ LastDay[m] \in Nat /\ LastDay[m] \in Day
         /\ Overdue(LastDay[m], s.dpf) = LastDay[m] - s.dpf
         /\ Overdue(LastDay[m], s.dpf) \in Nat \ {0}
<1>1. /\ Months \in Nat /\ m \in Nat /\ m \in 0..Months
      /\ LastDay[m] \in Nat /\ LastDay[m] \in Day
  BY MonthLength, LastDayInMonth, BackfillAssumption
<1>2. /\ s.dpf \in Nat /\ FirstMonth(s) \in Nat
      /\ FirstMonth(s) - 1 \in 0..Months
  BY FirstMonthFacts
<1>3. s.dpf < LastDay[m]
  <2>1. FirstMonth(s) \in Month
    BY <1>1, <1>2 DEF Month
  <2>2. s.dpf < LastDay[FirstMonth(s)] /\ LastDay[FirstMonth(s)] \in Nat
    BY <2>1, FirstMonthFacts, MonthLength
  <2>3. FirstMonth(s) = m \/ LastDay[FirstMonth(s)] + 28 <= LastDay[m]
    <3>1. FirstMonth(s) \in 0..Months
      BY <2>1, MonthLength
    <3>2. QED
      BY <1>1, <1>2, <3>1, CalendarGrows
  <2>4. QED
    BY <1>1, <1>2, <2>2, <2>3
<1>4. QED
  BY <1>1, <1>2, <1>3 DEF Overdue

\* The slices month_iter yields, with those of zero days.
LEMMA HistoryFacts ==
  ASSUME NEW s \in Slice, s.dpf # None, s.month \in Month
  PROVE  LET start == MonthOf(s.dpf)
             all == IF s.month > start THEN s.month - start ELSE 0
         IN  /\ History(s) \in Seq(Slice) /\ Len(History(s)) = all
             /\ \A i \in 1..all :
                   /\ start + i - 1 \in Month
                   /\ History(s)[i] = MakeSlice(s, LastDay[start + i - 1], TRUE)
                   /\ History(s)[i].exp = Overdue(LastDay[start + i - 1], s.dpf)
<1> DEFINE start == MonthOf(s.dpf)
           all == IF s.month > start THEN s.month - start ELSE 0
           slice(i) == MakeSlice(s, LastDay[start + i - 1], TRUE)
<1>1. start \in Month /\ start \in Nat /\ s.month \in Nat /\ Months \in Nat
  BY DayInMonth, MonthLength, BackfillAssumption DEF Slice
<1>2. History(s) = [i \in 1..(s.month - start) |-> slice(i)]
  BY DEF History
<1> HIDE DEF start
<1>3. all \in Nat /\ 1..(s.month - start) = 1..all
  BY <1>1
<1>4. ASSUME NEW i \in 1..all
      PROVE  /\ start + i - 1 \in Month /\ slice(i) \in Slice
             /\ slice(i).exp = Overdue(LastDay[start + i - 1], s.dpf)
  <2>1. i \in Nat /\ i >= 1 /\ start + i - 1 <= s.month
    BY <1>1, <1>3
  <2>2. start + i - 1 \in Month
    BY <1>1, <2>1 DEF Month
  <2>3. QED
    BY <2>2, LastDayInMonth, MadeSlice
<1> HIDE DEF all, slice
<1>5. History(s) = [i \in 1..all |-> slice(i)]
  BY <1>2, <1>3
<1>6. History(s) \in [1..all -> Slice]
  BY <1>4, <1>5
<1>7. History(s) \in Seq(Slice) /\ Len(History(s)) = all
  BY <1>3, <1>6
<1>8. \A i \in 1..all : /\ start + i - 1 \in Month
                        /\ History(s)[i] = slice(i)
                        /\ History(s)[i].exp = Overdue(LastDay[start + i - 1], s.dpf)
  BY <1>4, <1>5
<1>9. QED
  BY <1>7, <1>8 DEF start, all, slice

\* A chain is the slices of the months from the first on, and the final slice.
LEMMA ChainShape ==
  ASSUME NEW s \in Slice, Expands(s)
  PROVE  /\ s.month \in Month /\ HistoryLength(s) \in Nat
         /\ Chain(s) \in Seq(Slice) /\ Len(Chain(s)) = HistoryLength(s) + 1
         /\ \A i \in 1..HistoryLength(s) :
               /\ FirstMonth(s) + i - 1 \in Month
               /\ Chain(s)[i] = MakeSlice(s, LastDay[FirstMonth(s) + i - 1], TRUE)
         /\ Chain(s)[HistoryLength(s) + 1] = MakeSlice(s, FinalClc(s), FALSE)
<1> DEFINE start == MonthOf(s.dpf)
           all == IF s.month > start THEN s.month - start ELSE 0
           history == History(s)
           overdue == {i \in DOMAIN history : history[i].exp # 0}
           a == IF LastDay[start] = s.dpf /\ all >= 1 THEN 2 ELSE 1
           final == MakeSlice(s, FinalClc(s), FALSE)
<1>1. s.dpf # None /\ s.month \in Month
  BY DEF Expands, Kept, Slice
<1>2. /\ start \in Month /\ start \in Nat /\ s.month \in Nat /\ s.dpf \in Nat
      /\ s.dpf <= LastDay[start] /\ LastDay[start] \in Nat
  BY <1>1, DayInMonth, MonthLength DEF Slice
<1>3. /\ history \in Seq(Slice) /\ Len(history) = all
      /\ \A i \in 1..all :
            /\ start + i - 1 \in Month
            /\ history[i] = MakeSlice(s, LastDay[start + i - 1], TRUE)
            /\ history[i].exp = Overdue(LastDay[start + i - 1], s.dpf)
  BY <1>1, HistoryFacts
<1>4. FirstMonth(s) = (IF LastDay[start] = s.dpf THEN start + 1 ELSE start)
  BY DEF FirstMonth
<1>5. Chain(s) = Append(At(history, overdue), final)
  BY DEF Chain
<1>6. final \in Slice
  BY <1>1, FinalDay, MadeSlice
<1> HIDE DEF history, start, final
<1>7. all \in Nat /\ a \in 1..(all + 1)
  BY <1>2
<1> HIDE DEF all
<1>8. DOMAIN history = 1..all
  BY <1>3, <1>7, LenProperties
<1>9. overdue = a..all
  <2>1. ASSUME NEW i \in 1..all
        PROVE  history[i].exp # 0 <=> i >= a
    <3>1. start + i - 1 \in Month /\ history[i].exp = Overdue(LastDay[start + i - 1], s.dpf)
      BY <1>3
    <3>2. CASE start + i - 1 >= FirstMonth(s)
      <4>1. history[i].exp # 0
        BY <1>1, <3>1, <3>2, LaterMonths
      <4>2. i >= a
        BY <1>2, <1>4, <1>7, <3>2
      <4>3. QED
        BY <4>1, <4>2
    <3>3. CASE ~(start + i - 1 >= FirstMonth(s))
      <4>1. i = 1 /\ LastDay[start] = s.dpf
        BY <1>2, <1>4, <1>7, <3>3
      <4>2. history[i].exp = 0 /\ ~(i >= a)
        BY <1>2, <1>7, <3>1, <4>1 DEF Overdue
      <4>3. QED
        BY <4>2
    <3>4. QED
      BY <3>2, <3>3
  <2>2. a \in Nat /\ a >= 1
    OBVIOUS
  <2>3. QED
    BY <1>7, <1>8, <2>1, <2>2
<1> HIDE DEF overdue
<1> DEFINE kept == At(history, overdue)
<1>10. /\ Len(kept) = all - a + 1
       /\ \A i \in 1..(all - a + 1) : kept[i] = history[a + i - 1]
  <2>1. history \in Seq(Slice) /\ a \in 1..(Len(history) + 1)
    BY <1>3, <1>7
  <2> HIDE DEF a
  <2>2. /\ Len(At(history, a..Len(history))) = Len(history) - a + 1
        /\ \A i \in 1..(Len(history) - a + 1) :
              At(history, a..Len(history))[i] = history[a + i - 1]
    BY <2>1, SelectTail
  <2>3. QED
    BY <1>3, <1>9, <2>2
<1>11. kept \in Seq(Slice)
  <2>1. overdue \in SUBSET (1..Len(history))
    BY <1>3, <1>8 DEF overdue
  <2>2. QED
    BY <1>3, <2>1, Selection
<1>12. HistoryLength(s) \in Nat /\ all - a + 1 = HistoryLength(s)
  BY <1>2, <1>4, <1>7 DEF HistoryLength, all
<1>13. ASSUME NEW i \in 1..HistoryLength(s)
       PROVE  /\ FirstMonth(s) + i - 1 \in Month
              /\ kept[i] = MakeSlice(s, LastDay[FirstMonth(s) + i - 1], TRUE)
  <2>1. a + i - 1 \in 1..all /\ start + (a + i - 1) - 1 = FirstMonth(s) + i - 1
    BY <1>2, <1>4, <1>7, <1>12
  <2>2. QED
    BY <1>3, <1>10, <1>12, <2>1
<1> HIDE DEF kept
<1>14. /\ Chain(s) \in Seq(Slice) /\ Len(Chain(s)) = HistoryLength(s) + 1
       /\ \A i \in 1..HistoryLength(s) : Chain(s)[i] = kept[i]
       /\ Chain(s)[HistoryLength(s) + 1] = final
  BY <1>5, <1>6, <1>10, <1>11, <1>12, AppendProperties DEF kept
<1>15. QED
  BY <1>1, <1>12, <1>13, <1>14 DEF final

\* The historical slices of a chain: a month each from the first on, the days from the overdue
\* start to its last day, no end date.
LEMMA ChainHistory ==
  ASSUME NEW s \in Slice, Expands(s), NEW i \in 1..HistoryLength(s)
  PROVE  LET m == FirstMonth(s) + i - 1
         IN  /\ m \in Month /\ m < s.month
             /\ Chain(s)[i].month = m /\ Chain(s)[i].exp = LastDay[m] - s.dpf
             /\ Chain(s)[i].exp \in Nat \ {0}
             /\ Chain(s)[i].owed /\ Chain(s)[i].ff = None
<1> DEFINE m == FirstMonth(s) + i - 1
<1>1. /\ s.dpf # None /\ s.owed /\ s.month \in Month /\ HistoryLength(s) \in Nat
      /\ m \in Month /\ Chain(s)[i] = MakeSlice(s, LastDay[m], TRUE)
  BY ChainShape DEF Expands, Kept
<1>2. FirstMonth(s) \in Nat /\ s.month \in Nat
  BY <1>1, FirstMonthFacts, MonthLength
<1>3. i \in Nat /\ i >= 1 /\ m < s.month /\ m >= FirstMonth(s)
  BY <1>1, <1>2 DEF HistoryLength
<1> HIDE DEF m
<1>4. LastDay[m] \in Day /\ MonthOf(LastDay[m]) = m
  BY <1>1, LastDayInMonth
<1>5. /\ Chain(s)[i].month = m /\ Chain(s)[i].exp = Overdue(LastDay[m], s.dpf)
      /\ Chain(s)[i].owed /\ Chain(s)[i].ff = None
  <2> DEFINE t == MakeSlice(s, LastDay[m], TRUE)
  <2>1. /\ t.month = MonthOf(LastDay[m]) /\ t.exp = Overdue(LastDay[m], s.dpf)
        /\ t.owed = s.owed /\ t.ff = None
    BY <1>1, <1>4, MadeSlice
  <2> HIDE DEF t
  <2>2. Chain(s)[i] = t
    BY <1>1 DEF t
  <2>3. QED
    BY <1>1, <1>4, <2>1, <2>2, Zenon
<1>6. /\ Overdue(LastDay[m], s.dpf) = LastDay[m] - s.dpf
      /\ Overdue(LastDay[m], s.dpf) \in Nat \ {0}
  BY <1>1, <1>3, LaterMonths
<1>7. QED
  BY <1>1, <1>3, <1>5, <1>6 DEF m

\* The final slice.
LEMMA ChainFinal ==
  ASSUME NEW s \in Slice, Expands(s)
  PROVE  LET last == Chain(s)[HistoryLength(s) + 1]
         IN  /\ last.month = MonthOf(FinalClc(s)) /\ last.exp = Overdue(FinalClc(s), s.dpf)
             /\ last.owed /\ last.ff # Malformed /\ last.ff = Clean(s).ff
<1>1. s.dpf # None /\ s.owed /\ s.month \in Month
  BY DEF Expands, Kept, Slice
<1>2. FinalClc(s) \in Day
  BY <1>1, FinalDay
<1>3. Chain(s)[HistoryLength(s) + 1] = MakeSlice(s, FinalClc(s), FALSE)
  BY ChainShape
<1>4. /\ MakeSlice(s, FinalClc(s), FALSE).month = MonthOf(FinalClc(s))
      /\ MakeSlice(s, FinalClc(s), FALSE).exp = Overdue(FinalClc(s), s.dpf)
      /\ MakeSlice(s, FinalClc(s), FALSE).owed
      /\ MakeSlice(s, FinalClc(s), FALSE).ff # Malformed
      /\ MakeSlice(s, FinalClc(s), FALSE).ff = Clean(s).ff
  BY <1>1, <1>2, MadeSlice
<1>5. QED
  BY <1>3, <1>4

\* How a chain of several slices begins and goes on: with at most a month of overdue days,
\* and a month more in each slice; the last step may be short.
LEMMA ChainGrowth ==
  ASSUME NEW s \in Slice, Expands(s), Sound(s), HistoryLength(s) # 0
  PROVE  /\ Chain(s)[1].exp \in 1..31
         /\ \A i \in 2..HistoryLength(s) :
               Chain(s)[i].exp - Chain(s)[i - 1].exp \in 28..31
         /\ Chain(s)[HistoryLength(s) + 1].exp - Chain(s)[HistoryLength(s)].exp \in 1..31
         /\ Chain(s)[HistoryLength(s) + 1].exp \in Nat \ {0}
<1> DEFINE L == HistoryLength(s)
           first == FirstMonth(s)
<1>1. s.dpf # None /\ s.month \in Month /\ L \in Nat /\ L >= 1
  <2>1. s.dpf # None
    BY DEF Expands, Kept
  <2>2. s.month \in Month /\ L \in Nat
    BY ChainShape
  <2>3. QED
    BY <2>1, <2>2
<1>2. /\ s.dpf \in Nat /\ first \in Nat /\ s.month \in Nat
      /\ LastDay[first - 1] \in Nat /\ LastDay[first - 1] <= s.dpf
  BY <1>1, FirstMonthFacts, MonthLength
<1>3. first + L = s.month
  BY <1>1, <1>2 DEF HistoryLength
<1> HIDE DEF L, first
<1>4. \A i \in 1..L : /\ first + i - 1 \in Month
                      /\ Chain(s)[i].exp = LastDay[first + i - 1] - s.dpf
                      /\ Chain(s)[i].exp \in Nat \ {0}
  BY ChainHistory DEF L, first
<1>5. Chain(s)[1].exp \in 1..31
  <2>1. 1 \in 1..L /\ first + 1 - 1 = first
    BY <1>1, <1>2
  <2>2. first \in Month /\ Chain(s)[1].exp = LastDay[first] - s.dpf /\ Chain(s)[1].exp \in Nat \ {0}
    BY <1>4, <2>1
  <2>3. LastDay[first] <= LastDay[first - 1] + 31 /\ LastDay[first] \in Nat
    BY <2>2, MonthLength
  <2>4. QED
    BY <1>2, <2>2, <2>3
<1>6. ASSUME NEW i \in 2..L
      PROVE  Chain(s)[i].exp - Chain(s)[i - 1].exp \in 28..31
  <2>1. i \in 1..L /\ i - 1 \in 1..L /\ i \in Nat
    BY <1>1
  <2> DEFINE m == first + i - 1
  <2>2. first + (i - 1) - 1 = m - 1
    BY <1>2, <2>1
  <2> HIDE DEF m
  <2>3. m \in Month /\ Chain(s)[i].exp = LastDay[m] - s.dpf
    BY <1>4, <2>1 DEF m
  <2>4. Chain(s)[i - 1].exp = LastDay[m - 1] - s.dpf
    BY <1>4, <2>1, <2>2
  <2>5. /\ LastDay[m - 1] \in Nat /\ LastDay[m] \in Nat
        /\ LastDay[m - 1] + 28 <= LastDay[m] /\ LastDay[m] <= LastDay[m - 1] + 31
    BY <2>3, MonthLength
  <2>6. (LastDay[m] - s.dpf) - (LastDay[m - 1] - s.dpf) \in 28..31
    BY <1>2, <2>5
  <2>7. QED
    BY <2>3, <2>4, <2>6, Zenon
<1>7. /\ Chain(s)[L + 1].exp - Chain(s)[L].exp \in 1..31
      /\ Chain(s)[L + 1].exp \in Nat \ {0}
  <2> DEFINE m == s.month
             clc == FinalClc(s)
  <2>1. L \in 1..L /\ first + L - 1 = m - 1
    BY <1>1, <1>2, <1>3
  <2>2. Chain(s)[L].exp = LastDay[m - 1] - s.dpf /\ Chain(s)[L].exp \in Nat \ {0}
    BY <1>4, <2>1
  <2>3. clc \in Day /\ MonthOf(clc) = m /\ Chain(s)[L + 1].exp = Overdue(clc, s.dpf)
    BY <1>1, FinalDay, ChainFinal DEF L
  <2>4. clc \in Nat /\ LastDay[m - 1] < clc /\ clc <= LastDay[m]
    BY <2>3, DayInMonth
  <2>5. /\ LastDay[m - 1] \in Nat /\ LastDay[m] \in Nat /\ LastDay[m] <= LastDay[m - 1] + 31
    BY <1>1, MonthLength
  <2> HIDE DEF m, clc
  <2>6. Chain(s)[L + 1].exp = clc - s.dpf
    BY <1>2, <2>2, <2>3, <2>4, <2>5 DEF Overdue
  <2>7. QED
    BY <1>2, <2>2, <2>4, <2>5, <2>6
<1>8. QED
  BY <1>5, <1>6, <1>7 DEF L

\* The self-check accepts the chain of a sound deal (assert_chain_sane).
LEMMA SoundChainIsSane ==
  ASSUME NEW s \in Slice, Expands(s), Sound(s)
  PROVE  ChainSane(Chain(s))
<1> DEFINE L == HistoryLength(s)
           c == Chain(s)
<1>1. /\ s.month \in Month /\ L \in Nat
      /\ Len(c) = L + 1 /\ DOMAIN c = 1..(L + 1)
  BY ChainShape, LenProperties
<1>2. CASE L = 0
  BY <1>1, <1>2 DEF ChainSane
<1>3. CASE L # 0
  <2>1. /\ c[1].exp \in 1..31 /\ c[L + 1].exp \in Nat \ {0}
        /\ \A i \in 2..L : c[i].exp - c[i - 1].exp \in 28..31
        /\ c[L + 1].exp - c[L].exp \in 1..31
    BY <1>3, ChainGrowth
  <2>2. /\ MonthOf(FinalClc(s)) = s.month /\ c[L + 1].month = s.month /\ c[L + 1].owed
    BY <1>1, FinalDay, ChainFinal
  <2>3. \A i \in 1..L : /\ FirstMonth(s) + i - 1 < s.month /\ c[i].month = FirstMonth(s) + i - 1
                        /\ c[i].exp \in Nat \ {0} /\ c[i].owed
    BY ChainHistory
  <2>4. MaxStep \in Nat /\ MaxStep >= 31 /\ FirstMonth(s) \in Nat /\ s.month \in Nat
    BY <1>1, FirstMonthFacts, MonthLength, BackfillAssumption DEF Expands, Kept
  <2> HIDE DEF c, L
  <2>5. \A i \in DOMAIN c : c[i].exp \in Nat /\ (c[i].exp = 0) = ~c[i].owed
    <3>1. TAKE i \in DOMAIN c
    <3>2. i \in 1..L \/ i = L + 1
      BY <1>1
    <3>3. c[i].exp \in Nat \ {0} /\ c[i].owed
      BY <2>1, <2>2, <2>3, <3>2
    <3>4. QED
      BY <3>3
  <2>6. ASSUME NEW i \in 2..Len(c)
        PROVE  /\ c[i].exp >= c[i - 1].exp /\ c[i].exp - c[i - 1].exp <= MaxStep
               /\ c[i].month > c[i - 1].month
    <3>1. i \in Nat /\ i - 1 \in 1..L /\ i \in DOMAIN c /\ i - 1 \in DOMAIN c
      BY <1>1
    <3>2. c[i].exp \in Nat /\ c[i - 1].exp \in Nat
      BY <2>5, <3>1
    <3>3. c[i].exp - c[i - 1].exp \in 1..31 /\ c[i].month > c[i - 1].month
      <4>1. CASE i = L + 1
        <5>1. i - 1 = L /\ L \in 1..L
          BY <1>1, <3>1, <4>1
        <5>2. c[i].exp - c[i - 1].exp \in 1..31 /\ c[i].month = s.month
          BY <2>1, <2>2, <4>1, <5>1
        <5>3. FirstMonth(s) + L - 1 < s.month /\ c[i - 1].month = FirstMonth(s) + L - 1
          BY <2>3, <5>1
        <5>4. QED
          BY <1>1, <2>4, <5>2, <5>3
      <4>2. CASE i # L + 1
        <5>1. i \in 1..L /\ i \in 2..L
          BY <1>1, <4>2
        <5>2. c[i].exp - c[i - 1].exp \in 28..31
          BY <2>1, <5>1
        <5>3. c[i].month = FirstMonth(s) + i - 1 /\ c[i - 1].month = FirstMonth(s) + (i - 1) - 1
          BY <2>3, <3>1, <5>1
        <5>4. QED
          BY <2>4, <3>1, <3>2, <5>2, <5>3
      <4>3. QED
        BY <4>1, <4>2
    <3>4. \A x, y \in Nat : x - y \in 1..31 => x >= y /\ x - y <= MaxStep
      BY <2>4
    <3>5. QED
      BY <3>2, <3>3, <3>4, Zenon
  <2>7. c[1].exp <= 31
    BY <2>1
  <2>8. QED
    BY <2>5, <2>6, <2>7, Zenon DEF ChainSane, c
<1>4. QED
  BY <1>2, <1>3

-----------------------------------------------------------------------------
(***************************************************************************)
(* One subject, and the lines of a run.                                    *)
(***************************************************************************)
\* A deal is left as it was, cut to its first slice, or expanded (expand_deal,
\* expand_subject); deals keep their places.
LEMMA ExpandedSubject ==
  ASSUME NEW deals \in Seq(Seq(Slice))
  PROVE  /\ ExpandSubject(deals) \in Seq(Seq(Slice))
         /\ Len(ExpandSubject(deals)) = Len(deals)
         /\ \A j \in 1..Len(deals) :
               /\ IsExpanded(deals, deals[j]) =>
                     /\ deals[j][1] \in Slice /\ Expands(deals[j][1])
                     /\ ExpandSubject(deals)[j] = Chain(deals[j][1])
               /\ ~IsExpanded(deals, deals[j]) =>
                     \/ /\ ExpandSubject(deals)[j] = deals[j] /\ Len(deals[j]) # 1
                        /\ IsTried(deals)
                     \/ Len(ExpandSubject(deals)[j]) = 1
<1> DEFINE new(j) == IF IsTried(deals) THEN ExpandDeal(deals[j])
                     ELSE IF deals[j] = <<>> THEN <<Empty>> ELSE <<Clean(Head(deals[j]))>>
<1>1. Len(deals) \in Nat /\ DOMAIN deals = 1..Len(deals)
  BY LenProperties
<1>2. ExpandSubject(deals) = [j \in 1..Len(deals) |-> new(j)]
  BY <1>1 DEF ExpandSubject
<1> HIDE DEF new
<1>3. \A s \in Slice : <<Clean(s)>> \in Seq(Slice) /\ Len(<<Clean(s)>>) = 1
  <2>1. TAKE s \in Slice
  <2>2. Clean(s) \in Slice
    BY DEF Clean, Slice
  <2>3. QED
    BY <2>2
<1>4. <<Empty>> \in Seq(Slice) /\ Len(<<Empty>>) = 1
  <2>1. Empty \in Slice
    BY DEF Empty, Slice
  <2>2. QED
    BY <2>1
<1>5. ASSUME NEW j \in 1..Len(deals)
      PROVE  /\ new(j) \in Seq(Slice)
             /\ IsExpanded(deals, deals[j]) =>
                   deals[j][1] \in Slice /\ Expands(deals[j][1]) /\ new(j) = Chain(deals[j][1])
             /\ ~IsExpanded(deals, deals[j]) =>
                   \/ new(j) = deals[j] /\ Len(deals[j]) # 1 /\ IsTried(deals)
                   \/ Len(new(j)) = 1
  <2>1. deals[j] \in Seq(Slice) /\ Len(deals[j]) \in Nat
    BY ElementOfSeq, LenProperties
  <2>2. Len(deals[j]) = 1 => deals[j][1] \in Slice
    BY <2>1, ElementOfSeq
  <2>3. deals[j] # <<>> => Head(deals[j]) \in Slice
    BY <2>1, HeadTailProperties
  <2>4. CASE ~IsTried(deals)
    <3>1. ~IsExpanded(deals, deals[j])
      BY <2>4 DEF IsExpanded
    <3>2. new(j) = IF deals[j] = <<>> THEN <<Empty>> ELSE <<Clean(Head(deals[j]))>>
      BY <2>4 DEF new
    <3>3. QED
      BY <1>3, <1>4, <2>3, <3>1, <3>2
  <2>5. CASE IsTried(deals)
    <3>1. new(j) = ExpandDeal(deals[j])
      BY <2>5 DEF new
    <3>2. CASE Len(deals[j]) # 1
      BY <2>1, <2>5, <3>1, <3>2 DEF ExpandDeal, IsExpanded
    <3>3. CASE Len(deals[j]) = 1 /\ ~Expands(deals[j][1])
      <4>1. new(j) = <<Clean(deals[j][1])>> /\ ~IsExpanded(deals, deals[j])
        BY <3>1, <3>3 DEF ExpandDeal, IsExpanded
      <4>2. QED
        BY <1>3, <2>2, <3>3, <4>1
    <3>4. CASE Len(deals[j]) = 1 /\ Expands(deals[j][1])
      <4>1. new(j) = Chain(deals[j][1]) /\ IsExpanded(deals, deals[j])
        BY <2>5, <3>1, <3>4 DEF ExpandDeal, IsExpanded
      <4>2. new(j) \in Seq(Slice)
        BY <2>2, <3>4, <4>1, ChainShape
      <4>3. QED
        BY <2>2, <3>4, <4>1, <4>2
    <3>5. QED
      BY <3>2, <3>3, <3>4
  <2>6. QED
    BY <2>4, <2>5
<1>6. ExpandSubject(deals) \in [1..Len(deals) -> Seq(Slice)]
  BY <1>2, <1>5
<1>7. ExpandSubject(deals) \in Seq(Seq(Slice)) /\ Len(ExpandSubject(deals)) = Len(deals)
  BY <1>1, <1>6
<1>8. \A j \in 1..Len(deals) : ExpandSubject(deals)[j] = new(j)
  BY <1>2
<1>9. QED
  BY <1>5, <1>7, <1>8

\* What the self-check refuses: a deal it was given with several slices, or a deal that was
\* expanded and is calculated outside its own period.
LEMMA RefusedBySelfCheck ==
  ASSUME NEW deals \in Seq(Seq(Slice)), NEW j \in DOMAIN ExpandSubject(deals),
         ~ChainSane(ExpandSubject(deals)[j])
  PROVE  /\ j \in DOMAIN deals
         /\ IsTried(deals)
         /\ \/ Len(deals[j]) > 1
            \/ Len(deals[j]) = 1 /\ ~Kept(deals[j][1]) /\ ~Sound(deals[j][1])
<1>1. DOMAIN deals = 1..Len(deals) /\ DOMAIN ExpandSubject(deals) = 1..Len(deals)
  BY ExpandedSubject, LenProperties
<1>2. j \in 1..Len(deals) /\ deals[j] \in Seq(Slice) /\ Len(deals[j]) \in Nat
  BY <1>1, ElementOfSeq, LenProperties
<1>3. Len(ExpandSubject(deals)[j]) >= 2
  BY Zenon DEF ChainSane
<1>4. CASE IsExpanded(deals, deals[j])
  <2>1. /\ Len(deals[j]) = 1 /\ deals[j][1] \in Slice /\ Expands(deals[j][1])
        /\ ExpandSubject(deals)[j] = Chain(deals[j][1])
    BY <1>2, <1>4, ExpandedSubject DEF IsExpanded
  <2>2. ~Sound(deals[j][1])
    BY <2>1, SoundChainIsSane
  <2>3. IsTried(deals) /\ ~Kept(deals[j][1])
    BY <1>4, <2>1 DEF IsExpanded, Expands
  <2>4. QED
    BY <1>1, <1>2, <2>1, <2>2, <2>3
<1>5. CASE ~IsExpanded(deals, deals[j])
  <2>1. \/ ExpandSubject(deals)[j] = deals[j] /\ IsTried(deals)
        \/ Len(ExpandSubject(deals)[j]) = 1
    BY <1>2, <1>5, ExpandedSubject
  <2>2. \A x : x >= 2 => x # 1
    OBVIOUS
  <2>3. Len(deals[j]) >= 2 /\ IsTried(deals)
    BY <1>3, <2>1, <2>2, Zenon
  <2>4. Len(deals[j]) > 1
    BY <1>2, <2>3
  <2>5. QED
    BY <1>1, <1>2, <2>3, <2>4
<1>6. QED
  BY <1>4, <1>5

\* The lines are rows of the table, as many as are selected (read_db_lines).
LEMMA LinesFacts ==
  ASSUME rows \in Seq(Row)
  PROVE  /\ Lines \in Seq(Row) /\ Len(Lines) \in Nat /\ DOMAIN Lines = 1..Len(Lines)
         /\ Len(Lines) = Cardinality({i \in Refused : rows[i].file = FileId})
         /\ \A i \in 1..Len(Lines) : Lines[i].deals \in Seq(Seq(Slice))
<1> DEFINE K == {i \in Refused : rows[i].file = FileId}
<1>1. K \in SUBSET (1..Len(rows))
  BY LenProperties DEF Refused
<1>2. Lines = At(rows, K)
  BY DEF Lines
<1>3. Lines \in Seq(Row) /\ Len(Lines) = Cardinality(K)
  BY <1>1, <1>2, Selection
<1>4. Len(Lines) \in Nat /\ DOMAIN Lines = 1..Len(Lines)
  BY <1>3, LenProperties
<1>5. \A i \in 1..Len(Lines) : Lines[i] \in Row
  BY <1>3, ElementOfSeq
<1>6. \A i \in 1..Len(Lines) : Lines[i].deals \in Seq(Seq(Slice))
  BY <1>5 DEF Row
<1>7. QED
  BY <1>3, <1>4, <1>6

-----------------------------------------------------------------------------
(***************************************************************************)
(* The run.                                                                *)
(***************************************************************************)
\* What each line would be written as, if nothing stood against it (expand_subject).
Expansion == [i \in DOMAIN Lines |-> ExpandSubject(Lines[i].deals)]

\* The table and the options are of their types.
TableInv == rows \in Seq(Row) /\ opt \in Option

\* Every processed line has been written once, in order: expanded if it parses and fits,
\* and else as it was.
Written(i) ==
  IF Lines[i].parses /\ Slices(Expansion[i]) <= MaxSlices THEN Expansion[i] ELSE Lines[i].deals

OutputInv ==
  /\ n \in 0..Len(Lines) /\ Len(out) = n
  /\ out \in Seq([src : Nat, deals : Seq(Seq(Slice))])
  /\ \A i \in 1..n : out[i].src = i /\ out[i].deals = Written(i)

\* A run ends at the end of the lines, at its limit, or at a line that the self-check
\* does not accept or that has a period that is no number.
StopInv ==
  /\ pc \in {"loop", "done", "raised"}
  /\ pc = "done" => ~(n < Len(Lines) /\ (opt.limit = 0 \/ n < opt.limit))
  /\ pc = "raised" => /\ n + 1 \in DOMAIN Lines
                      /\ \/ \E j \in DOMAIN Expansion[n + 1] : ~ChainSane(Expansion[n + 1][j])
                         \/ HasBadPeriod(Lines[n + 1].deals)

BackfillInv == TableInv /\ OutputInv /\ StopInv

\* Neither the table nor the options change in a run, so the lines do not (read_db_lines).
LEMMA SameLines ==
  ASSUME UNCHANGED <<rows, opt>>
  PROVE  /\ Lines' = Lines /\ Expansion' = Expansion
         /\ \A deals : HasBadPeriod(deals)' = HasBadPeriod(deals)
         /\ \A i : Written(i)' = Written(i)
<1>1. Refused' = Refused
  BY DEF Refused
<1>2. FileId' = FileId
  BY <1>1 DEF FileId
<1>3. Lines' = Lines
  BY <1>1, <1>2 DEF Lines
<1>4. \A deal : ExpandDeal(deal)' = ExpandDeal(deal)
  BY DEF ExpandDeal, Expands, Kept
<1>5. \A deals : ExpandSubject(deals)' = ExpandSubject(deals)
  BY <1>4 DEF ExpandSubject, IsTried
<1>6. Expansion' = Expansion
  BY <1>3, <1>5 DEF Expansion
<1>7. \A deals : HasBadPeriod(deals)' = HasBadPeriod(deals)
  BY DEF HasBadPeriod, IsTried, Kept
<1>8. \A i : Written(i)' = Written(i)
  BY <1>3, <1>6 DEF Written
<1>9. QED
  BY <1>3, <1>6, <1>7, <1>8

\* What the loop sees of its line.
LEMMA CurrentLine ==
  ASSUME TableInv, OutputInv, MoreLines
  PROVE  /\ n \in Nat /\ n + 1 \in 1..Len(Lines) /\ DOMAIN Lines = 1..Len(Lines)
         /\ Line = Lines[n + 1] /\ Result = Expansion[n + 1]
         /\ Line.deals \in Seq(Seq(Slice)) /\ Result \in Seq(Seq(Slice))
<1>1. /\ DOMAIN Lines = 1..Len(Lines) /\ Len(Lines) \in Nat
      /\ \A i \in 1..Len(Lines) : Lines[i].deals \in Seq(Seq(Slice))
  BY LinesFacts DEF TableInv
<1>2. n \in Nat /\ n + 1 \in 1..Len(Lines)
  BY <1>1 DEF OutputInv, MoreLines
<1>3. Line = Lines[n + 1] /\ Result = Expansion[n + 1]
  BY <1>1, <1>2 DEF Line, Result, Expansion
<1>4. Line.deals \in Seq(Seq(Slice))
  BY <1>1, <1>2, <1>3
<1>5. Result \in Seq(Seq(Slice))
  BY <1>4, ExpandedSubject DEF Result
<1>6. QED
  BY <1>1, <1>2, <1>3, <1>4, <1>5

\* Writing a line, expanded just where it may be, keeps the output in step.
LEMMA WrittenLine ==
  ASSUME TableInv, OutputInv, MoreLines, UNCHANGED <<rows, opt>>, n' = n + 1,
         NEW deals, Write(deals), deals = Written(n + 1)
  PROVE  TableInv' /\ OutputInv'
<1> DEFINE new == [src |-> n + 1, deals |-> deals]
           Entry == [src : Nat, deals : Seq(Seq(Slice))]
<1>1. Lines' = Lines /\ \A i : Written(i)' = Written(i)
  BY SameLines
<1>2. /\ n \in Nat /\ n + 1 \in 1..Len(Lines) /\ Len(Lines) \in Nat
      /\ Line = Lines[n + 1] /\ Result = Expansion[n + 1]
      /\ Line.deals \in Seq(Seq(Slice)) /\ Result \in Seq(Seq(Slice))
  BY CurrentLine, LinesFacts DEF TableInv
<1>3. deals \in Seq(Seq(Slice))
  BY <1>2 DEF Written
<1>4. /\ out \in Seq(Entry) /\ Len(out) = n /\ new \in Entry
      /\ \A i \in 1..n : out[i].src = i /\ out[i].deals = Written(i)
  BY <1>2, <1>3 DEF OutputInv
<1> HIDE DEF Entry
<1>5. out' = Append(out, new)
  BY DEF Write
<1>6. /\ out' \in Seq(Entry) /\ Len(out') = n + 1 /\ out'[n + 1] = new
      /\ \A i \in 1..n : out'[i] = out[i]
  <2> HIDE DEF new
  <2>1. QED
    BY <1>4, <1>5, AppendProperties
<1>7. \A i \in 1..(n + 1) : out'[i].src = i /\ out'[i].deals = Written(i)
  <2>1. TAKE i \in 1..(n + 1)
  <2>2. CASE i = n + 1
    BY <1>6, <2>2
  <2>3. CASE i # n + 1
    <3>1. i \in 1..n
      BY <1>2, <2>3
    <3>2. QED
      BY <1>4, <1>6, <3>1
  <2>4. QED
    BY <2>2, <2>3
<1>8. OutputInv'
  <2>1. n' \in 0..Len(Lines)' /\ Len(out') = n' /\ out' \in Seq(Entry)
    BY <1>1, <1>2, <1>6
  <2>2. \A i \in 1..n' : out'[i].src = i /\ out'[i].deals = Written(i)'
    BY <1>1, <1>7
  <2>3. QED
    BY <2>1, <2>2 DEF OutputInv, Entry
<1>9. QED
  BY <1>8 DEF TableInv

\* The invariant is inductive: a run of the generator is the loop over the lines of
\* main (backfill_deallife.py).
THEOREM BackfillInvariant == Spec => []BackfillInv
<1>1. Init => BackfillInv
  <2>1. SUFFICES ASSUME Init PROVE BackfillInv
    OBVIOUS
  <2>2. TableInv
    <3>1. PICK sc \in Scenes : rows \in sc.tables /\ opt \in sc.options
      BY <2>1 DEF Init
    <3>2. QED
      BY <3>1, BackfillAssumption DEF TableInv
  <2>3. n = 0 /\ out = <<>> /\ pc = "loop"
    BY <2>1 DEF Init
  <2>4. Len(Lines) \in Nat
    BY <2>2, LinesFacts DEF TableInv
  <2>5. OutputInv
    BY <2>3, <2>4, EmptySeq DEF OutputInv
  <2>6. StopInv
    BY <2>3 DEF StopInv
  <2>7. QED
    BY <2>2, <2>5, <2>6 DEF BackfillInv
<1>2. BackfillInv /\ [Next]_vars => BackfillInv'
  <2>1. SUFFICES ASSUME BackfillInv, [Next]_vars PROVE BackfillInv'
    OBVIOUS
  <2>2. TableInv /\ OutputInv /\ StopInv
    BY <2>1 DEF BackfillInv
  <2>3. CASE PassThrough
    <3>1. /\ MoreLines /\ n' = n + 1 /\ UNCHANGED <<rows, opt, pc>> /\ Write(Line.deals)
          /\ ~Line.parses /\ pc = "loop"
      BY <2>3 DEF PassThrough, MoreLines
    <3>2. Line.deals = Written(n + 1)
      BY <2>2, <3>1, CurrentLine DEF Written
    <3>3. TableInv' /\ OutputInv'
      BY <2>2, <3>1, <3>2, WrittenLine
    <3>4. QED
      BY <3>1, <3>3 DEF BackfillInv, StopInv
  <2>4. CASE WriteExpanded
    <3>1. /\ MoreLines /\ Line.parses /\ Slices(Result) <= MaxSlices
          /\ n' = n + 1 /\ UNCHANGED <<rows, opt, pc>> /\ Write(Result) /\ pc = "loop"
      BY <2>4 DEF WriteExpanded, Checked, Expanded, Fits, MoreLines
    <3>2. Result = Written(n + 1)
      BY <2>2, <3>1, CurrentLine DEF Written
    <3>3. TableInv' /\ OutputInv'
      BY <2>2, <3>1, <3>2, WrittenLine
    <3>4. QED
      BY <3>1, <3>3 DEF BackfillInv, StopInv
  <2>5. CASE WriteOriginal
    <3>1. /\ MoreLines /\ n' = n + 1 /\ UNCHANGED <<rows, opt, pc>> /\ Write(Line.deals)
          /\ ~(Slices(Result) <= MaxSlices) /\ pc = "loop"
      BY <2>5 DEF WriteOriginal, Checked, Expanded, Fits, MoreLines
    <3>2. Line.deals = Written(n + 1)
      BY <2>2, <3>1, CurrentLine DEF Written
    <3>3. TableInv' /\ OutputInv'
      BY <2>2, <3>1, <3>2, WrittenLine
    <3>4. QED
      BY <3>1, <3>3 DEF BackfillInv, StopInv
  <2>6. CASE SelfCheckRaises \/ BadPeriodRaises
    <3>1. /\ MoreLines /\ pc' = "raised" /\ UNCHANGED <<rows, opt, n, out>>
          /\ (\E j \in DOMAIN Result : ~ChainSane(Result[j])) \/ HasBadPeriod(Line.deals)
      BY <2>6 DEF SelfCheckRaises, BadPeriodRaises, Expanded
    <3>2. n + 1 \in DOMAIN Lines /\ Result = Expansion[n + 1] /\ Line = Lines[n + 1]
      BY <2>2, <3>1, CurrentLine
    <3>3. /\ Lines' = Lines /\ Expansion' = Expansion
          /\ \A deals : HasBadPeriod(deals)' = HasBadPeriod(deals)
          /\ \A i : Written(i)' = Written(i)
      BY <3>1, SameLines
    <3>4. StopInv'
      BY <3>1, <3>2, <3>3 DEF StopInv
    <3>5. TableInv' /\ OutputInv'
      BY <2>2, <3>1, <3>3 DEF TableInv, OutputInv
    <3>6. QED
      BY <3>4, <3>5 DEF BackfillInv
  <2>7. CASE Done
    <3>1. /\ pc = "loop" /\ ~(n < Len(Lines) /\ (opt.limit = 0 \/ n < opt.limit))
          /\ pc' = "done" /\ UNCHANGED <<rows, opt, n, out>>
      BY <2>7 DEF Done, MoreLines
    <3>2. Lines' = Lines /\ \A i : Written(i)' = Written(i)
      BY <3>1, SameLines
    <3>3. StopInv'
      BY <3>1, <3>2 DEF StopInv
    <3>4. TableInv' /\ OutputInv'
      BY <2>2, <3>1, <3>2 DEF TableInv, OutputInv
    <3>5. QED
      BY <3>3, <3>4 DEF BackfillInv
  <2>8. CASE UNCHANGED vars
    <3>1. UNCHANGED <<rows, opt, n, out, pc>>
      BY <2>8 DEF vars
    <3>2. /\ Lines' = Lines /\ Expansion' = Expansion
          /\ \A deals : HasBadPeriod(deals)' = HasBadPeriod(deals)
          /\ \A i : Written(i)' = Written(i)
      BY <3>1, SameLines
    <3>3. TableInv' /\ OutputInv'
      BY <2>2, <3>1, <3>2 DEF TableInv, OutputInv
    <3>4. StopInv'
      BY <2>2, <3>1, <3>2 DEF StopInv
    <3>5. QED
      BY <3>3, <3>4 DEF BackfillInv
  <2>9. QED
    BY <2>1, <2>3, <2>4, <2>5, <2>6, <2>7, <2>8 DEF Next
<1>3. QED
  BY <1>1, <1>2, PTL DEF Spec

\* No line is written twice, or written that was not selected; what is written is of the
\* type of the source (main).
THEOREM BackfillTypes == Spec => []TypeOK
<1>1. BackfillInv => TypeOK
  <2>1. SUFFICES ASSUME BackfillInv PROVE TypeOK
    OBVIOUS
  <2>2. /\ n \in 0..Len(Lines) /\ Len(out) = n /\ DOMAIN Lines = 1..Len(Lines)
        /\ out \in Seq([src : Nat, deals : Seq(Seq(Slice))]) /\ Len(Lines) \in Nat
        /\ \A i \in 1..n : out[i].src = i
    BY LinesFacts, <2>1 DEF BackfillInv, TableInv, OutputInv
  <2>3. n \in Nat /\ DOMAIN out = 1..n
    BY <2>2, LenProperties
  <2>4. ASSUME NEW i \in DOMAIN out
        PROVE  out[i].src \in DOMAIN Lines /\ out[i].deals \in Seq(Seq(Slice))
    <3>1. i \in 1..n /\ out[i] \in [src : Nat, deals : Seq(Seq(Slice))]
      BY <2>2, <2>3, ElementOfSeq
    <3>2. QED
      BY <2>2, <2>3, <3>1
  <2>5. QED
    BY <2>1, <2>2, <2>3, <2>4 DEF TypeOK, BackfillInv, StopInv
<1>2. QED
  BY <1>1, BackfillInvariant, PTL

\* assert_chain_sane and int() end the run only for a deal of the line in hand that came
\* with several slices, or that is to be expanded and was calculated outside its own period:
\* every other line is written, whatever the fields of the lines.
THEOREM SoundInputIsAlwaysProcessed == Spec => []SoundInputIsProcessed
<1> DEFINE Culprit(deal) ==
             Len(deal) > 1 \/ (Len(deal) = 1 /\ ~Kept(deal[1]) /\ ~Sound(deal[1]))
<1>1. BackfillInv => SoundInputIsProcessed
  <2>1. SUFFICES ASSUME BackfillInv, pc = "raised"
                 PROVE  /\ n + 1 \in DOMAIN Lines /\ IsTried(Lines[n + 1].deals)
                        /\ \E j \in DOMAIN Lines[n + 1].deals : Culprit(Lines[n + 1].deals[j])
    BY DEF SoundInputIsProcessed
  <2> DEFINE i == n + 1
             deals == Lines[i].deals
  <2>2. /\ i \in DOMAIN Lines
        /\ (\E j \in DOMAIN Expansion[i] : ~ChainSane(Expansion[i][j])) \/ HasBadPeriod(deals)
    BY <2>1 DEF BackfillInv, StopInv
  <2>3. Expansion[i] = ExpandSubject(deals)
    BY <2>2 DEF Expansion
  <2>4. deals \in Seq(Seq(Slice))
    BY <2>1, <2>2, LinesFacts DEF BackfillInv, TableInv
  <2> HIDE DEF deals
  <2>5. IsTried(deals) /\ \E j \in DOMAIN deals : Culprit(deals[j])
    <3>1. CASE HasBadPeriod(deals)
      <4>1. PICK j \in DOMAIN deals :
               Len(deals[j]) = 1 /\ ~Kept(deals[j][1]) /\ deals[j][1].month = Malformed
        BY <3>1 DEF HasBadPeriod
      <4>2. ~Sound(deals[j][1])
        BY <4>1, BackfillAssumption DEF Sound
      <4>3. QED
        BY <3>1, <4>1, <4>2 DEF HasBadPeriod
    <3>2. CASE \E j \in DOMAIN Expansion[i] : ~ChainSane(Expansion[i][j])
      <4>1. PICK j \in DOMAIN ExpandSubject(deals) : ~ChainSane(ExpandSubject(deals)[j])
        BY <2>3, <3>2
      <4>2. QED
        BY <2>4, <4>1, RefusedBySelfCheck
    <3>3. QED
      BY <2>2, <3>1, <3>2 DEF deals
  <2>6. QED
    BY <2>2, <2>5 DEF deals
<1>2. QED
  BY <1>1, BackfillInvariant, PTL

\* The chains of the output are chains of slices that expand_deal expands.
LEMMA WrittenChains ==
  ASSUME BackfillInv, NEW c \in Chains
  PROVE  c[1] \in Slice /\ Expands(c[1]) /\ c[2] = Chain(c[1])
<1>1. PICK i \in DOMAIN out :
         \E j \in ExpandedIn(Lines[out[i].src].deals) :
            /\ out[i].deals # Lines[out[i].src].deals
            /\ c = <<Lines[out[i].src].deals[j][1], out[i].deals[j]>>
  BY DEF Chains
<1>2. /\ i \in 1..n /\ i \in DOMAIN Lines /\ out[i].src = i
      /\ out[i].deals = Lines[i].deals \/ out[i].deals = Expansion[i]
      /\ Lines[i].deals \in Seq(Seq(Slice))
  <2>1. /\ n \in 0..Len(Lines) /\ Len(out) = n /\ Len(Lines) \in Nat
        /\ DOMAIN Lines = 1..Len(Lines) /\ out \in Seq([src : Nat, deals : Seq(Seq(Slice))])
    BY LinesFacts DEF BackfillInv, TableInv, OutputInv
  <2>2. i \in 1..n /\ i \in 1..Len(Lines)
    BY <2>1, LenProperties
  <2>3. QED
    BY <2>1, <2>2, LinesFacts DEF BackfillInv, TableInv, OutputInv, Written
<1> DEFINE deals == Lines[i].deals
<1>3. PICK j \in ExpandedIn(deals) : /\ out[i].deals # deals
                                     /\ c = <<deals[j][1], out[i].deals[j]>>
  BY <1>1, <1>2
<1>4. out[i].deals = ExpandSubject(deals)
  BY <1>2, <1>3 DEF Expansion
<1>5. deals \in Seq(Seq(Slice)) /\ DOMAIN deals = 1..Len(deals)
  BY <1>2, LenProperties
<1> HIDE DEF deals
<1>6. j \in 1..Len(deals) /\ IsExpanded(deals, deals[j])
  BY <1>5 DEF ExpandedIn
<1>7. /\ deals[j][1] \in Slice /\ Expands(deals[j][1])
      /\ ExpandSubject(deals)[j] = Chain(deals[j][1])
  BY <1>5, <1>6, ExpandedSubject
<1>8. c[1] = deals[j][1] /\ c[2] = ExpandSubject(deals)[j]
  BY <1>3, <1>4
<1>9. QED
  BY <1>7, <1>8

\* The written chain of a deal calculated in its own period misses no month (expand_deal).
THEOREM ChainsAreUnbroken == Spec => []ChainIsUnbroken
<1>1. ASSUME NEW s \in Slice, Expands(s), Sound(s)
      PROVE  {Chain(s)[i].month : i \in DOMAIN Chain(s)} =
                {m \in MonthOf(s.dpf)..s.month : LastDay[m] # s.dpf} \cup {s.month}
  <2> DEFINE L == HistoryLength(s)
             start == MonthOf(s.dpf)
             first == FirstMonth(s)
             c == Chain(s)
  <2>1. /\ s.dpf # None /\ s.month \in Month /\ s.month \in Nat
        /\ Len(c) = L + 1 /\ DOMAIN c = 1..(L + 1)
        /\ start \in Month /\ start \in Nat /\ first \in Nat
    <3>1. s.dpf # None /\ s.dpf \in Day
      BY <1>1 DEF Expands, Kept, Slice
    <3>2. s.month \in Month /\ start \in Month /\ first \in Nat
      BY <1>1, <3>1, ChainShape, DayInMonth, FirstMonthFacts
    <3>3. s.month \in Nat /\ start \in Nat
      BY <3>2, MonthLength
    <3>4. Len(c) = L + 1 /\ DOMAIN c = 1..(L + 1)
      <4>1. c \in Seq(Slice) /\ Len(c) = L + 1
        BY <1>1, ChainShape
      <4>2. QED
        BY <4>1, LenProperties, Zenon
    <3>5. QED
      BY <3>1, <3>2, <3>3, <3>4
  <2>2. c[L + 1].month = s.month
    BY <1>1, <2>1, FinalDay, ChainFinal
  <2>3. \A i \in 1..L : c[i].month = first + i - 1
    BY <1>1, ChainHistory
  <2>4. /\ L = IF s.month > first THEN s.month - first ELSE 0
        /\ first = IF LastDay[start] = s.dpf THEN start + 1 ELSE start
    BY DEF HistoryLength, FirstMonth
  <2>5. \A m \in start..s.month : LastDay[m] # s.dpf <=> m >= first
    <3>1. TAKE m \in start..s.month
    <3>2. m \in Month /\ m \in Nat /\ m >= start
      <4>1. Months \in Nat
        BY BackfillAssumption
      <4>2. QED
        BY <2>1, <4>1 DEF Month
    <3>3. CASE m >= first
      <4>1. s.dpf < LastDay[m] /\ LastDay[m] \in Nat /\ s.dpf \in Nat
        BY <1>1, <2>1, <3>2, <3>3, LaterMonths, FirstMonthFacts
      <4>2. QED
        BY <3>3, <4>1
    <3>4. CASE ~(m >= first)
      <4>1. m = start /\ LastDay[start] = s.dpf
        BY <2>1, <2>4, <3>2, <3>4
      <4>2. QED
        BY <3>4, <4>1
    <3>5. QED
      BY <3>3, <3>4
  <2> HIDE DEF L, start, first, c
  <2>6. L \in Nat
    BY <2>1, <2>4
  <2>7. {c[i].month : i \in DOMAIN c} = (first..(s.month - 1)) \cup {s.month}
    <3>1. ASSUME NEW i \in DOMAIN c
          PROVE  c[i].month \in (first..(s.month - 1)) \cup {s.month}
      <4>1. CASE i = L + 1
        BY <2>2, <4>1
      <4>2. CASE i # L + 1
        <5>1. i \in 1..L
          BY <2>1, <2>6, <4>2
        <5>2. first + i - 1 \in first..(s.month - 1)
          BY <2>1, <2>4, <5>1
        <5>3. QED
          BY <2>3, <5>1, <5>2
      <4>3. QED
        BY <4>1, <4>2
    <3>2. ASSUME NEW m \in (first..(s.month - 1)) \cup {s.month}
          PROVE  \E i \in DOMAIN c : c[i].month = m
      <4>1. CASE m = s.month
        <5>1. L + 1 \in DOMAIN c
          BY <2>1, <2>6
        <5>2. QED
          BY <2>2, <4>1, <5>1
      <4>2. CASE m # s.month
        <5>1. m \in first..(s.month - 1)
          BY <4>2
        <5>2. m - first + 1 \in 1..L /\ m - first + 1 \in DOMAIN c
          BY <2>1, <2>4, <2>6, <5>1
        <5>3. c[m - first + 1].month = first + (m - first + 1) - 1
          BY <2>3, <5>2
        <5>4. first + (m - first + 1) - 1 = m
          BY <2>1, <5>1
        <5>5. QED
          BY <5>2, <5>3, <5>4
      <4>3. QED
        BY <4>1, <4>2
    <3>3. QED
      BY <3>1, <3>2
  <2>8. {m \in start..s.month : LastDay[m] # s.dpf} \cup {s.month}
          = (first..(s.month - 1)) \cup {s.month}
    <3>1. ASSUME NEW m \in start..s.month, LastDay[m] # s.dpf
          PROVE  m \in (first..(s.month - 1)) \cup {s.month}
      <4>1. m >= first
        BY <2>5, <3>1
      <4>2. QED
        BY <2>1, <4>1
    <3>2. ASSUME NEW m \in first..(s.month - 1)
          PROVE  m \in start..s.month /\ LastDay[m] # s.dpf
      <4>1. m \in start..s.month /\ m >= first
        BY <2>1, <2>4
      <4>2. QED
        BY <2>5, <4>1
    <3>3. QED
      BY <3>1, <3>2
  <2>9. QED
    BY <2>7, <2>8 DEF c, start
<1>2. BackfillInv => ChainIsUnbroken
  <2>1. SUFFICES ASSUME BackfillInv, NEW c \in Chains, Sound(c[1])
                 PROVE  {c[2][i].month : i \in DOMAIN c[2]} =
                          {m \in MonthOf(c[1].dpf)..c[1].month : LastDay[m] # c[1].dpf}
                             \cup {c[1].month}
    BY DEF ChainIsUnbroken
  <2>2. c[1] \in Slice /\ Expands(c[1]) /\ c[2] = Chain(c[1])
    BY <2>1, WrittenChains
  <2>3. {Chain(c[1])[i].month : i \in DOMAIN Chain(c[1])} =
           {m \in MonthOf(c[1].dpf)..c[1].month : LastDay[m] # c[1].dpf} \cup {c[1].month}
    BY <1>1, <2>1, <2>2
  <2>4. QED
    BY <2>2, <2>3
<1>3. QED
  BY <1>2, BackfillInvariant, PTL

\* In such a chain the overdue days begin with at most a month and grow by a month each
\* time, the last step by no more than a month (expand_deal).
THEOREM OverdueAlwaysGrowsByTheMonth == Spec => []OverdueGrowsByTheMonth
<1>1. ASSUME NEW s \in Slice, Expands(s), Sound(s)
      PROVE  /\ Len(Chain(s)) > 1 => Chain(s)[1].exp \in 1..31
             /\ \A i \in 2..Len(Chain(s)) : Chain(s)[i].exp - Chain(s)[i - 1].exp \in
                   (IF i = Len(Chain(s)) THEN 1 ELSE 28)..31
  <2> DEFINE L == HistoryLength(s)
             c == Chain(s)
  <2>1. L \in Nat /\ Len(c) = L + 1
    BY <1>1, ChainShape
  <2>2. L # 0 => /\ c[1].exp \in 1..31
                 /\ \A i \in 2..L : c[i].exp - c[i - 1].exp \in 28..31
                 /\ c[L + 1].exp - c[L].exp \in 1..31
    BY <1>1, ChainGrowth
  <2> HIDE DEF L, c
  <2>3. Len(c) > 1 => c[1].exp \in 1..31
    BY <2>1, <2>2
  <2>4. ASSUME NEW i \in 2..Len(c)
        PROVE  c[i].exp - c[i - 1].exp \in (IF i = Len(c) THEN 1 ELSE 28)..31
    <3>1. CASE i = L + 1
      <4>1. i = Len(c) /\ i - 1 = L /\ L # 0
        BY <2>1, <3>1
      <4>2. QED
        BY <2>2, <3>1, <4>1
    <3>2. CASE i # L + 1
      <4>1. i \in 2..L /\ i # Len(c) /\ L # 0
        BY <2>1, <3>2
      <4>2. QED
        BY <2>2, <4>1
    <3>3. QED
      BY <3>1, <3>2
  <2>5. QED
    BY <2>3, <2>4 DEF c
<1>2. BackfillInv => OverdueGrowsByTheMonth
  <2>1. SUFFICES ASSUME BackfillInv, NEW c \in Chains, Sound(c[1])
                 PROVE  /\ Len(c[2]) > 1 => c[2][1].exp \in 1..31
                        /\ \A i \in 2..Len(c[2]) : c[2][i].exp - c[2][i - 1].exp \in
                              (IF i = Len(c[2]) THEN 1 ELSE 28)..31
    BY DEF OverdueGrowsByTheMonth
  <2>2. c[1] \in Slice /\ Expands(c[1]) /\ c[2] = Chain(c[1])
    BY <2>1, WrittenChains
  <2>3. QED
    BY <1>1, <2>1, <2>2
<1>3. QED
  BY <1>2, BackfillInvariant, PTL

\* No chain has what the bureau refuses a package for: no malformed end date; none in a
\* historical slice, nor zero overdue days there, and in the final one only for a deal that
\* was calculated before it was overdue; and none outside its period, if the deal was
\* calculated and ended in its own period (_make_slice, _clean, expand_deal).  The final
\* slice of any other deal keeps the end date while its period moves.
THEOREM ChainsBreakNoRule == Spec => []ChainBreaksNoRule
<1>1. ASSUME NEW s \in Slice, Expands(s)
      PROVE  /\ \A i \in DOMAIN Chain(s) : Chain(s)[i].ff # Malformed
             /\ \A i \in 1..(Len(Chain(s)) - 1) : Chain(s)[i].ff = None /\ Chain(s)[i].exp > 0
             /\ Chain(s)[Len(Chain(s))].exp = 0 => s.dpf >= FinalClc(s)
             /\ (Sound(s) /\ s.ff \in {None, Malformed, s.month}) =>
                  \A i \in DOMAIN Chain(s) : Chain(s)[i].ff \in {None, Chain(s)[i].month}
  <2> DEFINE L == HistoryLength(s)
             c == Chain(s)
             clc == FinalClc(s)
  <2>1. /\ L \in Nat /\ Len(c) = L + 1 /\ DOMAIN c = 1..(L + 1)
        /\ s.dpf # None /\ s.month \in Month /\ clc \in Day /\ s.dpf \in Day
    <3>1. s.dpf # None /\ s.dpf \in Day
      BY <1>1 DEF Expands, Kept, Slice
    <3>2. QED
      BY <1>1, <3>1, ChainShape, FinalDay, LenProperties
  <2>2. \A i \in 1..L : c[i].ff = None /\ c[i].exp \in Nat \ {0}
    BY <1>1, ChainHistory
  <2>3. /\ c[L + 1].ff # Malformed /\ c[L + 1].exp = Overdue(clc, s.dpf)
        /\ c[L + 1].ff = Clean(s).ff /\ c[L + 1].month = MonthOf(clc)
    BY <1>1, ChainFinal
  <2>4. clc \in Nat /\ s.dpf \in Nat /\ None # Malformed
    BY <2>1, DayInMonth, BackfillAssumption
  <2>5. /\ Sound(s) => MonthOf(clc) = s.month
        /\ s.ff \in {None, Malformed, s.month} => Clean(s).ff \in {None, s.month}
    BY <2>1, FinalDay DEF Clean, Slice
  <2> HIDE DEF L, c, clc
  <2>6. \A i \in DOMAIN c : i \in 1..L \/ i = L + 1
    BY <2>1
  <2>7. \A i \in DOMAIN c : c[i].ff # Malformed
    BY <2>2, <2>3, <2>4, <2>6
  <2>8. \A i \in 1..(Len(c) - 1) : c[i].ff = None /\ c[i].exp > 0
    <3>1. TAKE i \in 1..(Len(c) - 1)
    <3>2. i \in 1..L
      BY <2>1
    <3>3. QED
      BY <2>2, <3>2
  <2>9. c[Len(c)].exp = 0 => s.dpf >= clc
    BY <2>1, <2>3, <2>4 DEF Overdue
  <2>10. (Sound(s) /\ s.ff \in {None, Malformed, s.month}) =>
            \A i \in DOMAIN c : c[i].ff \in {None, c[i].month}
    <3>1. SUFFICES ASSUME Sound(s), s.ff \in {None, Malformed, s.month}, NEW i \in DOMAIN c
                   PROVE  c[i].ff \in {None, c[i].month}
      OBVIOUS
    <3>2. c[L + 1].ff \in {None, s.month} /\ c[L + 1].month = s.month
      BY <2>3, <2>5, <3>1
    <3>3. QED
      BY <2>2, <2>6, <3>2
  <2>11. QED
    BY <2>7, <2>8, <2>9, <2>10 DEF c, clc
<1>2. BackfillInv => ChainBreaksNoRule
  <2>1. SUFFICES ASSUME BackfillInv, NEW c \in Chains
                 PROVE  /\ \A i \in DOMAIN c[2] : c[2][i].ff # Malformed
                        /\ \A i \in 1..(Len(c[2]) - 1) : c[2][i].ff = None /\ c[2][i].exp > 0
                        /\ c[2][Len(c[2])].exp = 0 =>
                             c[1].dpf >= (IF c[1].clc = None THEN LastDay[c[1].month]
                                          ELSE c[1].clc)
                        /\ (Sound(c[1]) /\ c[1].ff \in {None, Malformed, c[1].month}) =>
                             \A i \in DOMAIN c[2] : c[2][i].ff \in {None, c[2][i].month}
    BY DEF ChainBreaksNoRule
  <2>2. c[1] \in Slice /\ Expands(c[1]) /\ c[2] = Chain(c[1])
    BY <2>1, WrittenChains
  <2>3. FinalClc(c[1]) = IF c[1].clc = None THEN LastDay[c[1].month] ELSE c[1].clc
    BY DEF FinalClc
  <2>4. QED
    BY <1>1, <2>2, <2>3
<1>3. QED
  BY <1>2, BackfillInvariant, PTL

\* The newest file with a refused subject is found (read_db_lines).
LEMMA NewestFile ==
  ASSUME rows \in Seq(Row), opt.file = 0
  PROVE  {i \in Refused : rows[i].file = FileId} =
            {i \in Refused : \A j \in Refused : rows[j].file <= rows[i].file}
<1> DEFINE files == {rows[i].file : i \in Refused}
           f == [i \in Refused |-> rows[i].file]
<1>1. CASE Refused = {}
  BY <1>1
<1>2. CASE Refused # {}
  <2>1. Refused \subseteq 1..Len(rows) /\ \A i \in Refused : rows[i].file \in Nat
    <3>1. DOMAIN rows = 1..Len(rows) /\ \A i \in 1..Len(rows) : rows[i] \in Row
      BY LenProperties, ElementOfSeq
    <3>2. QED
      BY <3>1 DEF Refused, Row
  <2>2. IsFiniteSet(Refused)
    <3>1. IsFiniteSet(1..Len(rows))
      BY LenProperties, FS_Interval
    <3>2. QED
      BY <2>1, <3>1, FS_Subset
  <2>3. f \in [Refused -> Nat] /\ \A i \in Refused : f[i] = rows[i].file
    BY <2>1
  <2> HIDE DEF f
  <2>4. PICK top \in Refused : \A j \in Refused : f[j] <= f[top]
    BY <1>2, <2>2, <2>3, GreatestAt
  <2>5. \A j \in Refused : rows[j].file <= rows[top].file
    BY <2>3, <2>4
  <2>6. FileId = Max(files)
    BY <1>2 DEF FileId
  <2>7. FileId \in files /\ \A x \in files : FileId >= x
    <3>1. rows[top].file \in files /\ \A x \in files : rows[top].file >= x
      BY <2>1, <2>5
    <3>2. QED
      BY <2>6, <3>1 DEF Max
  <2>8. FileId = rows[top].file
    <3>1. rows[top].file \in files /\ rows[top].file \in Nat /\ \A x \in files : x <= rows[top].file
      BY <2>1, <2>5
    <3>2. files \subseteq Nat
      BY <2>1
    <3> HIDE DEF files
    <3>3. FileId <= rows[top].file /\ FileId >= rows[top].file /\ FileId \in Nat
      BY <2>7, <3>1, <3>2
    <3>4. QED
      BY <3>1, <3>3
  <2>9. \A i \in Refused :
           rows[i].file = FileId <=> \A j \in Refused : rows[j].file <= rows[i].file
    <3>1. TAKE i \in Refused
    <3>2. CASE rows[i].file = rows[top].file
      BY <2>5, <2>8, <3>2
    <3>3. CASE rows[i].file # rows[top].file
      <4>1. rows[i].file <= rows[top].file /\ rows[i].file \in Nat /\ rows[top].file \in Nat
        BY <2>1, <2>5
      <4>2. ~(rows[top].file <= rows[i].file)
        BY <3>3, <4>1
      <4>3. QED
        BY <2>8, <3>3, <4>2
    <3>4. QED
      BY <3>2, <3>3
  <2>10. QED
    BY <2>9
<1>3. QED
  BY <1>1, <1>2

\* A run without a limit and without a chosen file writes every refused subject of the
\* newest file, once and in order: expanded, or as it was if it does not parse or is too
\* long expanded (main, read_db_lines).
THEOREM EveryStuckSubjectIsAlwaysWritten == Spec => []EveryStuckSubjectIsWritten
<1>1. BackfillInv => EveryStuckSubjectIsWritten
  <2> DEFINE newest == {i \in Refused : \A j \in Refused : rows[j].file <= rows[i].file}
             sent(i) == LET expanded == ExpandSubject(Lines[i].deals)
                        IN  IF Lines[i].parses /\ Slices(expanded) <= MaxSlices
                            THEN expanded ELSE Lines[i].deals
  <2>1. SUFFICES ASSUME BackfillInv, pc = "done", opt.limit = 0, opt.file = 0
                 PROVE  /\ Len(out) = Cardinality(newest)
                        /\ \A i \in DOMAIN out : out[i].src = i /\ out[i].deals = sent(i)
    BY DEF EveryStuckSubjectIsWritten
  <2>2. /\ n \in 0..Len(Lines) /\ Len(out) = n /\ Len(Lines) \in Nat
        /\ DOMAIN Lines = 1..Len(Lines)
        /\ out \in Seq([src : Nat, deals : Seq(Seq(Slice))])
        /\ \A i \in 1..n : out[i].src = i /\ out[i].deals = Written(i)
    BY <2>1, LinesFacts DEF BackfillInv, TableInv, OutputInv
  <2>3. ~(n < Len(Lines))
    BY <2>1 DEF BackfillInv, StopInv
  <2>4. n = Len(Lines)
    <3> DEFINE len == Len(Lines)
    <3>1. n \in 0..len /\ len \in Nat /\ ~(n < len)
      BY <2>2, <2>3, Zenon
    <3> HIDE DEF len
    <3>2. n = len
      BY <3>1
    <3>3. QED
      BY <3>2 DEF len
  <2>5. Len(Lines) = Cardinality(newest)
    BY <2>1, LinesFacts, NewestFile DEF BackfillInv, TableInv
  <2>6. \A i \in DOMAIN Lines : Written(i) = sent(i)
    BY DEF Written, Expansion
  <2>7. DOMAIN out = 1..n
    BY <2>2, LenProperties, Zenon
  <2>8. QED
    BY <2>2, <2>4, <2>5, <2>6, <2>7
<1>2. QED
  BY <1>1, BackfillInvariant, PTL
=============================================================================
