----------------------------- MODULE SendProofs -----------------------------
(***************************************************************************)
(* The safety of the send stage for every table, window, threshold and     *)
(* cap, and that each of its steps is one the send stage of Uploader       *)
(* allows.                                                                 *)
(*                                                                         *)
(* The argument: a record is in at most one place of the window, what is   *)
(* in the window is counted nowhere, and what is counted nowhere is in the *)
(* window, waits for the second wave, or was never selected.               *)
(***************************************************************************)
EXTENDS SendRecords, FiniteSetTheorems, TLAPS

Distinct(s) == \A i, j \in 1..Len(s) : s[i] = s[j] => i = j

\* The window: how full it is, and where the main thread may be while it is not
\* empty.
WindowInv ==
  /\ IsFiniteSet(flying) /\ IsFiniteSet(answers)
  /\ InFlight <= Concurrency
  /\ pc \notin {"fill", "wave", "refill"} => flying = {} /\ answers = {}
  /\ pc \in {"select", "auth", "fill", "refill", "reauth"} => ~aborted
  /\ pc = "refill" => InFlight < Concurrency
  /\ pc \in {"reauth", "end"} /\ ~aborted => pending = <<>>
  /\ pending # <<>> /\ ~aborted => /\ pc = "wave" => InFlight = Concurrency
                                   /\ pc = "refill" => InFlight + 1 = Concurrency

\* The streak never reaches the threshold unnoticed, and from then on every
\* further error has to come out of the window.
StreakInv ==
  /\ ~aborted => streak < Threshold
  /\ aborted => streak + InFlight <= Threshold + Concurrency - 1

\* One authentication before each wave.
AuthInv ==
  /\ pc \in {"select", "auth"} => auths = 0 /\ ~final
  /\ pc \in {"fill", "wave", "refill", "reauth"} /\ ~final => auths <= 1
  /\ pc = "reauth" => ~final /\ expired # <<>>
  /\ AtMostTwoAuths

\* A record is in one place, and comes back only for the second wave.
HandInv ==
  /\ Distinct(pending) /\ Distinct(expired)
  /\ RangeOf(pending) \cap (flying \cup Answered) = {}
  /\ flying \cap Answered = {}
  /\ \A x, y \in answers : x[1] = y[1] => x = y
  /\ pc = "select" => pending = <<>> /\ tally = [r \in Records |-> "none"]
  /\ pc \in {"select", "auth"} => touched = {} /\ expired = <<>>
  /\ RangeOf(expired) \subseteq touched
  /\ ~final => Hand \cap touched = {}
  /\ final => Hand \subseteq RangeOf(expired)

\* A record counted under an outcome has that outcome.
TallyIsStatus == \A r \in Records : tally[r] # "none" => tally[r] = status[r]

\* What is counted, and what is not.
TallyInv ==
  /\ TallyIsStatus
  /\ \A r \in Hand : tally[r] = "none"
  /\ \A r \in RangeOf(expired) :
        ~final /\ pc # "end" => tally[r] = "none" /\ status[r] = "failed"
  /\ pc # "select" =>
        \A r \in ToSend : tally[r] = "none" =>
           r \in Hand \/ (~final /\ r \in RangeOf(expired))
  /\ pc = "end" /\ ~aborted /\ ~final => \A r \in RangeOf(expired) : tally[r] # "none"

\* What is going to be written is sendable, so that the cap holds.
CapInv ==
  /\ \A r \in Records : status[r] = "pending" => attempts[r] = 0
  /\ Hand \subseteq ToSend
  /\ ~final => RangeOf(expired) \subseteq ToSend

\* The integers are the sizes of the sets of counted records.
CountInv ==
  /\ final => reauthed
  /\ reauthed /\ ~final => pc = "end" /\ Hand = {}
  /\ \A r \in Records : tally[r] # "none" <=> r \in touched \ Uncounted
  /\ \A o \in Outcome : counts[o] = Cardinality({r \in Records : tally[r] = o})

SInv == /\ TypeOK /\ CapInv /\ WindowInv /\ StreakInv /\ AuthInv /\ HandInv /\ TallyInv
        /\ CountInv

-----------------------------------------------------------------------------
(***************************************************************************)
(* Answers, sequences, sizes.                                              *)
(***************************************************************************)

\* The assumptions, with the table as a sequence of records.
LEMMA Constants ==
  /\ Order \in Seq(Records) /\ Len(Order) \in Nat
  /\ \A i, j \in 1..Len(Order) : Order[i] = Order[j] => i = j
  /\ Answers \subseteq BureauResults
  /\ RetryCap \in Nat /\ Concurrency \in Nat /\ Threshold \in Nat
  /\ RetryCap > 0 /\ Concurrency > 0 /\ Threshold > 0
<1>1. Order \in Seq(Records)
  BY SendAssumption
<1>2. Len(Order) \in Nat
  BY <1>1
<1>3. QED
  BY <1>1, <1>2, SendAssumption

\* What an answer writes; a stale one is a failure that burns no attempt.
LEMMA ResultFacts ==
  ASSUME NEW res \in SendResults
  PROVE  /\ res.status \in {"sent", "failed", "rejected"}
         /\ res.sessionExpired => res.status = "failed" /\ res.isNetworkError
         /\ res.isNetworkError => res.status = "failed"
<1>1. res \in {Accepted, Refused, Garbled, Unreachable, Stale, TooLarge}
  BY DEF SendResults, BureauResults
<1>2. QED
  BY <1>1 DEF Accepted, Refused, Garbled, Unreachable, Stale, TooLarge, Result

\* A sequence in table order is a sequence of records without repetition.
LEMMA ListsFacts ==
  ASSUME NEW n \in Nat, NEW s \in [1..n -> Records], NEW R, Lists(s, R)
  PROVE  s \in Seq(Records) /\ Distinct(s) /\ RangeOf(s) = R
<1>1. s \in Seq(Records) /\ Len(s) = n
  OBVIOUS
<1>2. ASSUME NEW i \in 1..Len(s), NEW j \in 1..Len(s), i < j
      PROVE  s[i] # s[j]
  BY <1>2, Constants DEF Lists
<1>3. Distinct(s)
  BY <1>1, <1>2 DEF Distinct
<1>4. QED
  BY <1>1, <1>3 DEF Lists

\* The empty wave.
LEMMA EmptyFacts ==
  ASSUME NEW S, NEW s \in Seq(S)
  PROVE  /\ s = <<>> <=> RangeOf(s) = {}
         /\ RangeOf(s) \subseteq S
<1>1. s # <<>> => s[1] \in RangeOf(s)
  BY DEF RangeOf
<1>2. Len(s) \in Nat /\ \A i \in 1..Len(s) : s[i] \in S
  OBVIOUS
<1>3. RangeOf(s) \subseteq S
  BY <1>2 DEF RangeOf
<1>4. s = <<>> => RangeOf(s) = {}
  BY DEF RangeOf
<1>5. QED
  BY <1>1, <1>3, <1>4

\* Taking the next record from the iterator.
LEMMA HeadFacts ==
  ASSUME NEW S, NEW s \in Seq(S), s # <<>>, Distinct(s)
  PROVE  /\ Head(s) \in RangeOf(s)
         /\ Tail(s) \in Seq(S)
         /\ Distinct(Tail(s))
         /\ RangeOf(Tail(s)) = RangeOf(s) \ {Head(s)}
<1>1. /\ Len(s) \in Nat /\ 1 \in 1..Len(s) /\ Head(s) = s[1]
      /\ Tail(s) \in Seq(S) /\ Len(Tail(s)) = Len(s) - 1
      /\ \A i \in 1..Len(Tail(s)) : Tail(s)[i] = s[i + 1]
  OBVIOUS
<1>2. Distinct(Tail(s))
  BY <1>1 DEF Distinct
<1>3. ASSUME NEW x \in RangeOf(Tail(s))
      PROVE  x \in RangeOf(s) \ {Head(s)}
  BY <1>1, <1>3 DEF RangeOf, Distinct
<1>4. ASSUME NEW x \in RangeOf(s), x # Head(s)
      PROVE  x \in RangeOf(Tail(s))
  <2>1. PICK i \in 1..Len(s) : s[i] = x
    BY DEF RangeOf
  <2>2. i # 1 /\ i - 1 \in 1..Len(Tail(s))
    BY <1>1, <1>4, <2>1
  <2>3. Tail(s)[i - 1] = x
    BY <1>1, <2>1, <2>2
  <2>4. QED
    BY <2>2, <2>3 DEF RangeOf
<1>5. QED
  BY <1>1, <1>2, <1>3, <1>4 DEF RangeOf

\* Putting a stale record aside for the second wave.
LEMMA AppendFacts ==
  ASSUME NEW S, NEW s \in Seq(S), NEW r \in S
  PROVE  /\ Append(s, r) \in Seq(S)
         /\ RangeOf(Append(s, r)) = RangeOf(s) \cup {r}
         /\ Distinct(s) /\ r \notin RangeOf(s) => Distinct(Append(s, r))
<1>1. /\ Len(s) \in Nat /\ Append(s, r) \in Seq(S) /\ Len(Append(s, r)) = Len(s) + 1
      /\ \A i \in 1..Len(s) : Append(s, r)[i] = s[i]
      /\ Append(s, r)[Len(s) + 1] = r
  OBVIOUS
<1>2. RangeOf(Append(s, r)) \subseteq RangeOf(s) \cup {r}
  BY <1>1 DEF RangeOf
<1>3. ASSUME NEW x \in RangeOf(s)
      PROVE  x \in RangeOf(Append(s, r))
  BY <1>1, <1>3 DEF RangeOf
<1>4. r \in RangeOf(Append(s, r))
  BY <1>1 DEF RangeOf
<1>5. Distinct(s) /\ r \notin RangeOf(s) => Distinct(Append(s, r))
  BY <1>1 DEF RangeOf, Distinct
<1>6. QED
  BY <1>1, <1>2, <1>3, <1>4, <1>5

\* The size of the window after a submission, an answer and a commit.
LEMMA InFlightFacts ==
  ASSUME IsFiniteSet(flying), IsFiniteSet(answers)
  PROVE  /\ InFlight \in Nat
         /\ flying = {} /\ answers = {} <=> InFlight = 0
BY FS_CardinalityType, FS_EmptySet DEF InFlight

\* A submit adds one request to the window.
LEMMA SubmitSize ==
  ASSUME IsFiniteSet(flying), IsFiniteSet(answers), NEW r, r \notin flying,
         flying' = flying \cup {r}, UNCHANGED answers
  PROVE  /\ IsFiniteSet(flying)' /\ IsFiniteSet(answers)'
         /\ InFlight' = InFlight + 1
<1>1. Cardinality(flying) \in Nat /\ Cardinality(answers) \in Nat
  BY FS_CardinalityType
<1>2. IsFiniteSet(flying') /\ Cardinality(flying') = Cardinality(flying) + 1
  BY FS_AddElement
<1>3. QED
  BY <1>1, <1>2 DEF InFlight

\* A request that gets its answer stays in the window until the main thread takes it.
LEMMA SendSize ==
  ASSUME IsFiniteSet(flying), IsFiniteSet(answers), NEW r \in flying, NEW x, x \notin answers,
         flying' = flying \ {r}, answers' = answers \cup {x}
  PROVE  /\ IsFiniteSet(flying)' /\ IsFiniteSet(answers)'
         /\ InFlight' = InFlight
<1>1. Cardinality(flying) \in Nat /\ Cardinality(answers) \in Nat
  BY FS_CardinalityType
<1>2. IsFiniteSet(flying') /\ Cardinality(flying') = Cardinality(flying) - 1
  BY FS_RemoveElement
<1>3. IsFiniteSet(answers') /\ Cardinality(answers') = Cardinality(answers) + 1
  BY FS_AddElement
<1>4. QED
  BY <1>1, <1>2, <1>3 DEF InFlight

\* Taking an answer makes room for one request.
LEMMA CommitSize ==
  ASSUME IsFiniteSet(flying), IsFiniteSet(answers), NEW x \in answers,
         UNCHANGED flying, answers' = answers \ {x}
  PROVE  /\ IsFiniteSet(flying)' /\ IsFiniteSet(answers)'
         /\ InFlight' = InFlight - 1
<1>1. Cardinality(flying) \in Nat /\ Cardinality(answers) \in Nat
  BY FS_CardinalityType
<1>2. IsFiniteSet(answers') /\ Cardinality(answers') = Cardinality(answers) - 1
  BY FS_RemoveElement
<1>3. QED
  BY <1>1, <1>2 DEF InFlight

-----------------------------------------------------------------------------
(***************************************************************************)
(* What the steps do to the hand of the pass.                              *)
(***************************************************************************)

\* A submission moves a record within the hand.
LEMMA SubmitHand ==
  ASSUME TypeOK, HandInv, pending # <<>>, Submit, UNCHANGED answers
  PROVE  /\ pending' \in Seq(Records) /\ flying' \subseteq Records /\ Distinct(pending)'
         /\ Head(pending) \in Records /\ Head(pending) \notin flying
         /\ flying' = flying \cup {Head(pending)}
         /\ RangeOf(pending)' \cap (flying \cup Answered)' = {}
         /\ flying' \cap Answered' = {}
         /\ Hand' = Hand
<1>1. /\ Head(pending) \in RangeOf(pending)
      /\ Tail(pending) \in Seq(Records)
      /\ Distinct(Tail(pending))
      /\ RangeOf(Tail(pending)) = RangeOf(pending) \ {Head(pending)}
  BY HeadFacts DEF TypeOK, HandInv
<1>2. RangeOf(pending) \subseteq Records
  BY EmptyFacts DEF TypeOK
<1>3. pending' = Tail(pending) /\ flying' = flying \cup {Head(pending)} /\ Answered' = Answered
  BY DEF Submit, Answered
<1>4. RangeOf(pending)' = RangeOf(pending) \ {Head(pending)} /\ Distinct(pending)'
  BY <1>1, <1>3 DEF RangeOf, Distinct
<1>5. QED
  BY <1>1, <1>2, <1>3, <1>4 DEF TypeOK, HandInv, Hand

\* An answer moves a record within the hand.
LEMMA SendHand ==
  ASSUME TypeOK, HandInv, NEW r \in Records, SendOne(r)
  PROVE  /\ \E res \in SendResults : /\ <<r, res>> \notin answers
                                     /\ answers' = answers \cup {<<r, res>>}
         /\ r \in flying /\ flying' = flying \ {r}
         /\ Answered' = Answered \cup {r} /\ r \notin Answered
         /\ \A x, y \in answers' : x[1] = y[1] => x = y
         /\ Hand' = Hand
<1>1. PICK res \in SendResults : answers' = answers \cup {<<r, res>>}
  BY DEF SendOne
<1>2. r \in flying /\ flying' = flying \ {r} /\ r \notin Answered /\ pending' = pending
  BY DEF SendOne, HandInv
<1>3. \A s \in SendResults : <<r, s>> \notin answers
  BY <1>2 DEF Answered
<1>4. Answered' = Answered \cup {r}
  BY <1>1 DEF Answered
<1>5. \A x \in answers : x[1] # r
  BY <1>3 DEF TypeOK
<1>6. \A x, y \in answers' : x[1] = y[1] => x = y
  BY <1>1, <1>5 DEF HandInv
<1>7. Hand' = Hand
  BY <1>2, <1>4 DEF Hand, RangeOf
<1>8. QED
  BY <1>1, <1>2, <1>3, <1>4, <1>6, <1>7

\* A commit takes a record out of the hand.
LEMMA CommitHand ==
  ASSUME TypeOK, HandInv, NEW r \in Records, NEW res \in SendResults, Commit(r, res)
  PROVE  /\ Answered' = Answered \ {r} /\ r \in Answered
         /\ UNCHANGED <<pending, flying>>
         /\ Hand' = Hand \ {r} /\ r \in Hand
<1>1. /\ <<r, res>> \in answers /\ answers' = answers \ {<<r, res>>}
      /\ UNCHANGED <<pending, flying>>
  BY DEF Commit
<1>2. \A s \in SendResults : <<r, s>> \in answers => s = res
  BY <1>1 DEF HandInv
<1>3. Answered' = Answered \ {r} /\ r \in Answered
  BY <1>1, <1>2 DEF Answered
<1>4. RangeOf(pending)' = RangeOf(pending)
  BY <1>1 DEF RangeOf
<1>5. QED
  BY <1>1, <1>3, <1>4 DEF Hand, HandInv

\* The stage begins with what the query returned, and the second wave with the
\* stale records.
LEMMA SelectHand ==
  ASSUME SInv, Select
  PROVE  /\ pending' \in Seq(Records) /\ Distinct(pending)'
         /\ RangeOf(pending)' = ToSend
         /\ Hand' = ToSend
<1>1. PICK n \in Nat : \E s \in [1..n -> Records] : Lists(s, ToSend) /\ pending' = s
  BY Constants DEF Select
<1>2. pending' \in Seq(Records) /\ Distinct(pending)' /\ RangeOf(pending)' = ToSend
  BY <1>1, ListsFacts DEF Distinct, RangeOf
<1>3. flying' = {} /\ Answered' = {}
  BY DEF Select, SInv, WindowInv, Answered
<1>4. QED
  BY <1>2, <1>3 DEF Hand

\* The second wave starts with the expired records in hand and nothing else.
LEMMA SecondWaveHand ==
  ASSUME SInv, pc = "reauth", SecondWave, UNCHANGED <<flying, answers>>
  PROVE  /\ pending' \in Seq(Records) /\ Distinct(pending)'
         /\ RangeOf(pending)' = RangeOf(expired)
         /\ flying' = {} /\ Answered' = {}
         /\ Hand' = RangeOf(expired)
<1>1. pending' = expired /\ flying' = {} /\ answers' = {}
  BY DEF SecondWave, SInv, WindowInv
<1>2. Answered' = {}
  BY <1>1 DEF Answered
<1>3. QED
  BY <1>1, <1>2 DEF SInv, TypeOK, HandInv, Hand, RangeOf, Distinct

\* The steps that touch neither hand nor window.
Quiet == \/ NothingToSend \/ UseCached \/ FirstAuth \/ WaveEnd \/ SessionDies
         \/ Reauth /\ UNCHANGED <<pending, final>>
         \/ UNCHANGED vars
         \/ Fill /\ ~(pending # <<>> /\ InFlight < Concurrency)
         \/ Refill /\ pending = <<>>

\* The steps between the waves and at their ends move no record.
LEMMA QuietHand ==
  ASSUME Quiet
  PROVE  /\ UNCHANGED <<table, pending, flying, answers, streak, expired, final, touched>>
         /\ Hand' = Hand /\ Answered' = Answered /\ ToSend' = ToSend /\ InFlight' = InFlight
         /\ RangeOf(pending)' = RangeOf(pending) /\ RangeOf(expired)' = RangeOf(expired)
<1>1. UNCHANGED <<table, pending, flying, answers, streak, expired, final, touched>>
  BY DEF Quiet, NothingToSend, UseCached, FirstAuth, WaveEnd, SessionDies, Reauth, Fill,
     Refill, vars, table, window, verdict, summary
<1>2. QED
  BY <1>1 DEF Hand, Answered, ToSend, InFlight, RangeOf, table

\* Every step is one of these.
LEMMA StepCases ==
  ASSUME [Next]_vars
  PROVE  \/ Quiet
         \/ Select
         \/ Fill /\ pending # <<>> /\ InFlight < Concurrency /\ Submit
         \/ Refill /\ pending # <<>> /\ Submit
         \/ \E r \in Records : SendOne(r)
         \/ \E r \in Records, res \in SendResults : Commit(r, res)
         \/ Reauth /\ AuthOk /\ SecondWave
<1>1. ASSUME Fill
      PROVE  \/ Fill /\ ~(pending # <<>> /\ InFlight < Concurrency)
             \/ Fill /\ pending # <<>> /\ InFlight < Concurrency /\ Submit
  BY <1>1 DEF Fill
<1>2. ASSUME Refill
      PROVE  \/ Refill /\ pending = <<>>
             \/ Refill /\ pending # <<>> /\ Submit
  BY <1>2 DEF Refill
<1>3. ASSUME Reauth
      PROVE  \/ Reauth /\ UNCHANGED <<pending, final>>
             \/ Reauth /\ AuthOk /\ SecondWave
  BY <1>3 DEF Reauth
<1>4. QED
  BY <1>1, <1>2, <1>3 DEF Next, Main, Quiet

-----------------------------------------------------------------------------
(***************************************************************************)
(* Each conjunct of the invariant is preserved.                            *)
(***************************************************************************)

\* A successful reauthentication writes nothing but the session and the wave.
LEMMA ReauthOk ==
  ASSUME SInv, Reauth, AuthOk, SecondWave
  PROVE  /\ UNCHANGED <<table, flying, answers, streak, aborted, expired, summary>>
         /\ pending' = expired /\ final' = TRUE /\ reauthed' = TRUE /\ pc' = "fill"
         /\ sessid' = "good" /\ cached' = "good" /\ auths' = auths + 1
<1>1. ~final /\ final' = TRUE
  BY DEF Reauth, SecondWave, SInv, AuthInv
<1>2. QED
  BY <1>1 DEF Reauth, AuthOk, SecondWave, summary

\* The variables keep their types.
LEMMA TypeStep ==
  ASSUME SInv, [Next]_vars
  PROVE  TypeOK'
<1> USE DEF SInv, TypeOK, table, session, window, verdict, summary
<1>1. CASE Quiet
  <2>1. CASE NothingToSend \/ UseCached \/ WaveEnd \/ SessionDies
    BY <2>1 DEF NothingToSend, UseCached, WaveEnd, SessionDies, Session
  <2>2. CASE FirstAuth
    <3>1. /\ UNCHANGED <<table, reauthed, window, streak, expired, final, summary>>
          /\ cached' \in Session /\ sessid' \in Session /\ auths' \in Nat
          /\ pc' \in {"fill", "end"} /\ aborted' \in BOOLEAN
      <4>1. CASE AuthOk /\ pc' = "fill" /\ UNCHANGED aborted
        BY <2>2, <4>1 DEF FirstAuth, AuthOk, Session
      <4>2. CASE AuthFails /\ pc' = "end" /\ aborted' = TRUE /\ UNCHANGED sessid
        BY <2>2, <4>2 DEF FirstAuth, AuthFails
      <4>3. QED
        BY <2>2, <4>1, <4>2 DEF FirstAuth
    <3>2. QED
      BY <3>1
  <2>3. CASE Reauth /\ UNCHANGED <<pending, final>>
    <3>1. /\ UNCHANGED <<table, flying, answers, streak, aborted, expired, touched, pending, final>>
          /\ cached' \in Session /\ sessid' \in Session /\ reauthed' \in BOOLEAN /\ auths' \in Nat
          /\ pc' \in {"fill", "end"}
      BY <2>3 DEF Reauth, AuthOk, AuthFails, Session
    <3>2. tally' \in [Records -> Outcome \cup {"none"}]
      BY <2>3 DEF Reauth, Outcome
    <3>3. counts' \in [Outcome -> Nat]
      <4>1. Len(expired) \in Nat /\ counts \in [Outcome -> Nat]
        OBVIOUS
      <4>2. \/ counts' = [counts EXCEPT !["failed"] = @ + Len(expired)]
            \/ counts' = counts
        BY <2>3 DEF Reauth
      <4> HIDE DEF SInv, TypeOK
      <4>3. [counts EXCEPT !["failed"] = @ + Len(expired)] \in [Outcome -> Nat]
        <5>1. PICK n \in Nat : n = Len(expired)
          BY <4>1
        <5>2. [counts EXCEPT !["failed"] = @ + n] \in [Outcome -> Nat]
          BY <4>1 DEF Outcome
        <5>3. QED
          BY <5>1, <5>2
      <4>4. QED
        BY <4>1, <4>2, <4>3
    <3>4. QED
      BY <3>1, <3>2, <3>3
  <2>4. CASE \/ Fill /\ ~(pending # <<>> /\ InFlight < Concurrency)
             \/ Refill /\ pending = <<>>
    BY <2>4 DEF Fill, Refill
  <2>5. CASE UNCHANGED vars
    BY <2>5 DEF vars
  <2>6. QED
    BY <1>1, <2>1, <2>2, <2>3, <2>4, <2>5 DEF Quiet
<1>2. CASE Select
  BY <1>2, SelectHand DEF Select
<1>3. CASE (Fill \/ Refill) /\ pending # <<>> /\ Submit
  BY <1>3, SubmitHand DEF Fill, Refill
<1>4. ASSUME NEW r \in Records, SendOne(r)
      PROVE  TypeOK'
  BY <1>4 DEF SendOne
<1>5. ASSUME NEW r \in Records, NEW res \in SendResults, Commit(r, res)
      PROVE  TypeOK'
  <2>1. r \in ToSend
    BY <1>5, CommitHand DEF CapInv
  <2>2. AttemptsAfter(attempts[r], res) \in 0..RetryCap
    BY <2>1, Constants DEF ToSend, Sendable, AttemptsAfter, CapInv
  <2>3. res.status \in {"sent", "failed", "rejected"}
    BY ResultFacts
  <2>4. status' \in [Records -> RecordStatus] /\ attempts' \in [Records -> 0..RetryCap]
    BY <1>5, <2>2, <2>3 DEF Commit, WriteRow, RecordStatus
  <2>5. expired' \in Seq(Records)
    BY <1>5, AppendFacts DEF Commit
  <2>6. streak' \in Nat /\ aborted' \in BOOLEAN
    BY <1>5 DEF Commit, Judge
  <2>7. touched' \subseteq Records /\ tally' \in [Records -> Outcome \cup {"none"}]
    BY <1>5, <2>3 DEF Commit, WriteRow, Outcome
  <2>8. counts' \in [Outcome -> Nat]
    BY <1>5, <2>3 DEF Commit, Count, Outcome
  <2>9. QED
    BY <1>5, <2>4, <2>5, <2>6, <2>7, <2>8 DEF Commit
<1>6. CASE Reauth /\ AuthOk /\ SecondWave
  <2>1. /\ UNCHANGED <<table, flying, answers, streak, aborted, expired, summary>>
        /\ pending' = expired /\ final' = TRUE /\ reauthed' = TRUE /\ pc' = "fill"
        /\ sessid' = "good" /\ cached' = "good" /\ auths' = auths + 1
    BY <1>6, ReauthOk
  <2>2. QED
    BY <2>1 DEF Session
<1>7. QED
  BY <1>1, <1>2, <1>3, <1>4, <1>5, <1>6, StepCases

\* What is in hand stays sendable.
LEMMA CapStep ==
  ASSUME SInv, [Next]_vars
  PROVE  CapInv'
<1> USE DEF SInv, TypeOK, CapInv
<1>1. CASE Quiet
  BY <1>1, QuietHand DEF table
<1>2. CASE Select
  <2>1. UNCHANGED <<table, expired, final>>
    BY <1>2 DEF Select, verdict
  <2>2. QED
    <3>1. ToSend' = ToSend
      BY <2>1 DEF ToSend, table
    <3>2. RangeOf(expired)' = {}
      BY <1>2, <2>1 DEF Select, HandInv, RangeOf
    <3>3. QED
      BY <1>2, <2>1, <3>1, <3>2, SelectHand DEF table
<1>3. CASE (Fill \/ Refill) /\ pending # <<>> /\ Submit
  <2>1. UNCHANGED <<table, expired, final, answers>>
    BY <1>3 DEF Fill, Refill, verdict
  <2>2. QED
    BY <1>3, <2>1, SubmitHand DEF table, ToSend, RangeOf
<1>4. ASSUME NEW r \in Records, SendOne(r)
      PROVE  CapInv'
  <2>1. UNCHANGED <<table, expired, final>>
    BY <1>4 DEF SendOne, verdict
  <2>2. ToSend' = ToSend /\ RangeOf(expired)' = RangeOf(expired)
    BY <2>1 DEF table, ToSend, RangeOf
  <2>3. Hand' = Hand
    BY <1>4, SendHand
  <2>4. QED
    BY <2>1, <2>2, <2>3 DEF table
<1>5. ASSUME NEW r \in Records, NEW res \in SendResults, Commit(r, res)
      PROVE  CapInv'
  <2>1. r \in ToSend /\ Hand' = Hand \ {r} /\ r \in Hand
    BY <1>5, CommitHand
  <2>2. \A s \in Records \ {r} : status'[s] = status[s] /\ attempts'[s] = attempts[s]
    BY <1>5 DEF Commit, WriteRow
  <2>3. status'[r] # "pending"
    BY <1>5, ResultFacts DEF Commit, WriteRow
  <2>4. \A s \in ToSend : s # r => s \in ToSend'
    BY <2>2 DEF ToSend
  <2>5. CASE ~final /\ res.sessionExpired
    <3>1. status'[r] = "failed" /\ attempts'[r] = attempts[r]
      BY <1>5, <2>5, ResultFacts DEF Commit, WriteRow, AttemptsAfter
    <3>2. attempts[r] < RetryCap
      BY <2>1, Constants DEF ToSend, Sendable
    <3>3. r \in ToSend'
      BY <3>1, <3>2 DEF ToSend, Sendable
    <3>4. RangeOf(expired)' = RangeOf(expired) \cup {r}
      <4>1. expired' = Append(expired, r)
        BY <1>5, <2>5 DEF Commit
      <4>2. RangeOf(Append(expired, r)) = RangeOf(expired) \cup {r}
        BY AppendFacts
      <4>3. QED
        BY <4>1, <4>2 DEF RangeOf
    <3>5. final' = final
      BY <1>5 DEF Commit
    <3>6. QED
      BY <2>1, <2>2, <2>3, <2>4, <3>3, <3>4, <3>5
  <2>6. CASE final \/ ~res.sessionExpired
    <3>1. UNCHANGED <<expired, final>>
      BY <1>5, <2>6 DEF Commit
    <3>2. ~final => r \notin RangeOf(expired)
      BY <2>1 DEF HandInv
    <3>3. RangeOf(expired)' = RangeOf(expired)
      BY <3>1 DEF RangeOf
    <3>4. Hand' \subseteq ToSend'
      BY <2>1, <2>4
    <3>5. ~final' => RangeOf(expired)' \subseteq ToSend'
      BY <2>4, <3>1, <3>2, <3>3
    <3>6. \A s \in Records : status'[s] = "pending" => attempts'[s] = 0
      BY <2>2, <2>3
    <3>7. QED
      BY <3>4, <3>5, <3>6
  <2>7. QED
    BY <2>5, <2>6
<1>6. CASE Reauth /\ AuthOk /\ SecondWave
  <2>1. UNCHANGED <<table, expired, flying, answers>> /\ pc = "reauth" /\ final'
    BY <1>6 DEF Reauth, SecondWave
  <2>2. ~final
    BY <2>1 DEF AuthInv
  <2>3. QED
    BY <1>6, <2>1, <2>2, SecondWaveHand DEF table, ToSend
<1>7. QED
  BY <1>1, <1>2, <1>3, <1>4, <1>5, <1>6, StepCases

\* The window is never overfull, and is full while there is something to submit.
LEMMA WindowStep ==
  ASSUME SInv, [Next]_vars
  PROVE  WindowInv'
<1> USE DEF SInv, WindowInv, window, verdict
<1>0. /\ InFlight \in Nat
      /\ flying = {} /\ answers = {} <=> InFlight = 0
      /\ Concurrency \in Nat /\ Concurrency > 0
  BY InFlightFacts, Constants
<1>1. CASE Quiet
  <2>0. UNCHANGED <<pending, flying, answers>> /\ InFlight' = InFlight
    BY <1>1, QuietHand
  <2>1. CASE NothingToSend \/ UseCached \/ SessionDies
    BY <2>0, <2>1 DEF NothingToSend, UseCached, SessionDies
  <2>2. CASE FirstAuth
    BY <2>0, <2>2 DEF FirstAuth
  <2>3. CASE WaveEnd
    <3>1. aborted' = aborted /\ pc' \in {"reauth", "end"} /\ (pc' = "reauth" => ~aborted)
      BY <2>3 DEF WaveEnd
    <3>2. ~aborted => pending = <<>>
      BY <1>0, <2>3 DEF WaveEnd
    <3>3. QED
      BY <2>0, <2>3, <3>1, <3>2 DEF WaveEnd
  <2>4. CASE Reauth /\ UNCHANGED <<pending, final>>
    BY <2>0, <2>4 DEF Reauth
  <2>5. CASE Fill /\ ~(pending # <<>> /\ InFlight < Concurrency)
    <3>1. pc' = "wave" /\ aborted' = aborted
      BY <2>5 DEF Fill
    <3>2. pending # <<>> => InFlight = Concurrency
      BY <1>0, <2>5
    <3>3. QED
      BY <2>0, <3>1, <3>2
  <2>6. CASE Refill /\ pending = <<>>
    BY <2>0, <2>6 DEF Refill
  <2>7. CASE UNCHANGED vars
    BY <2>0, <2>7 DEF vars
  <2>8. QED
    BY <1>1, <2>1, <2>2, <2>3, <2>4, <2>5, <2>6, <2>7 DEF Quiet
<1>2. CASE Select
  BY <1>2 DEF Select, InFlight
<1>3. CASE (Fill \/ Refill) /\ pending # <<>> /\ InFlight < Concurrency /\ Submit
  <2>1. /\ UNCHANGED <<answers, aborted>> /\ ~aborted
        /\ pc' = "fill" \/ (pc = "refill" /\ pc' = "wave")
    BY <1>3 DEF Fill, Refill
  <2>2. IsFiniteSet(flying)' /\ IsFiniteSet(answers)' /\ InFlight' = InFlight + 1
    BY <1>3, <2>1, SubmitHand, SubmitSize
  <2>3. QED
    BY <1>0, <1>3, <2>1, <2>2
<1>4. ASSUME NEW r \in Records, SendOne(r)
      PROVE  WindowInv'
  <2>1. /\ UNCHANGED <<pc, pending, aborted>>
        /\ pc \in {"fill", "wave", "refill"}
    BY <1>4 DEF SendOne
  <2>2. IsFiniteSet(flying)' /\ IsFiniteSet(answers)' /\ InFlight' = InFlight
    BY <1>4, SendHand, SendSize
  <2>3. QED
    BY <1>0, <2>1, <2>2
<1>5. ASSUME NEW r \in Records, NEW res \in SendResults, Commit(r, res)
      PROVE  WindowInv'
  <2>1. /\ UNCHANGED <<pending, flying>> /\ pc = "wave"
        /\ <<r, res>> \in answers /\ answers' = answers \ {<<r, res>>}
        /\ IF aborted' THEN pc' = "wave" ELSE pc' = "refill"
    BY <1>5 DEF Commit
  <2>2. ~aborted' => ~aborted
    BY <1>5 DEF Commit, Judge
  <2>3. IsFiniteSet(flying)' /\ IsFiniteSet(answers)' /\ InFlight' = InFlight - 1
    BY <2>1, CommitSize
  <2>4. QED
    BY <1>0, <2>1, <2>2, <2>3
<1>6. CASE Reauth /\ AuthOk /\ SecondWave
  <2>1. UNCHANGED <<flying, answers, aborted>> /\ pc' = "fill" /\ pc = "reauth"
    BY <1>6, ReauthOk DEF Reauth
  <2>2. InFlight' = InFlight
    BY <2>1 DEF InFlight
  <2>3. QED
    BY <1>0, <2>1, <2>2
<1>7. QED
  BY <1>0, <1>1, <1>2, <1>3, <1>4, <1>5, <1>6, StepCases DEF Refill

\* The outage bound: the last commit that raises the streak to the threshold
\* leaves at most Concurrency - 1 requests in the window.
LEMMA StreakStep ==
  ASSUME SInv, [Next]_vars
  PROVE  StreakInv'
<1> USE DEF SInv, TypeOK, StreakInv, window, verdict
<1>0. InFlight \in Nat /\ InFlight <= Concurrency
      /\ Concurrency \in Nat /\ Concurrency > 0 /\ Threshold \in Nat /\ Threshold > 0
  BY InFlightFacts, Constants DEF WindowInv
<1>1. CASE Quiet
  <2>0. UNCHANGED streak /\ InFlight' = InFlight
    BY <1>1, QuietHand
  <2>1. CASE UNCHANGED aborted
    BY <2>0, <2>1
  <2>2. CASE FirstAuth
    <3>1. ~aborted /\ InFlight = 0
      BY <2>2, InFlightFacts DEF FirstAuth, WindowInv
    <3>2. QED
      BY <1>0, <2>0, <3>1
  <2>3. QED
    BY <1>1, <2>1, <2>2 DEF Quiet, NothingToSend, UseCached, WaveEnd, SessionDies,
       Reauth, Fill, Refill, vars
<1>2. CASE Select
  BY <1>2 DEF Select, InFlight
<1>3. CASE (Fill \/ Refill) /\ pending # <<>> /\ Submit
  <2>1. UNCHANGED <<aborted, streak>> /\ ~aborted
    BY <1>3 DEF Fill, Refill, WindowInv
  <2>2. QED
    BY <2>1
<1>4. ASSUME NEW r \in Records, SendOne(r)
      PROVE  StreakInv'
  <2>1. UNCHANGED <<aborted, streak>>
    BY <1>4 DEF SendOne
  <2>2. InFlight' = InFlight
    BY <1>4, SendHand, SendSize DEF WindowInv
  <2>3. QED
    BY <2>1, <2>2
<1>5. ASSUME NEW r \in Records, NEW res \in SendResults, Commit(r, res)
      PROVE  StreakInv'
  <2>1. InFlight' = InFlight - 1
    BY <1>5, CommitSize DEF WindowInv, Commit
  <2>2. /\ res.isNetworkError => streak' = streak + 1
        /\ ~res.isNetworkError => streak' \in {streak, 0}
        /\ aborted' <=> aborted \/ (res.isNetworkError /\ streak' >= Threshold)
    BY <1>5 DEF Commit, Judge
  <2>3. streak' \in Nat /\ streak' <= streak + 1
    BY <2>2
  <2>4. ~aborted' => ~aborted /\ streak' < Threshold
    BY <1>0, <2>2, <2>3
  <2>5. PICK s, t, n \in Nat, m \in Int :
           s = streak /\ t = streak' /\ n = InFlight /\ m = InFlight' /\ m = n - 1
    BY <1>0, <2>1, <2>3
  <2>6. CASE aborted
    <3>1. s + n <= Threshold + Concurrency - 1 /\ t <= s + 1 /\ m = n - 1
      BY <2>3, <2>5, <2>6
    <3>2. t + m <= Threshold + Concurrency - 1
      BY <1>0, <3>1
    <3>3. QED
      BY <2>2, <2>5, <2>6, <3>2
  <2>7. CASE ~aborted
    <3>1. t <= Threshold /\ n <= Concurrency /\ m = n - 1
      BY <1>0, <2>3, <2>5, <2>7
    <3>2. t + m <= Threshold + Concurrency - 1
      BY <1>0, <3>1
    <3>3. QED
      BY <2>4, <2>5, <3>2
  <2>8. QED
    BY <2>6, <2>7
<1>6. CASE Reauth /\ AuthOk /\ SecondWave
  <2>1. UNCHANGED <<streak, aborted, flying, answers>>
    BY <1>6, ReauthOk
  <2>2. QED
    BY <2>1 DEF InFlight
<1>7. QED
  BY <1>1, <1>2, <1>3, <1>4, <1>5, <1>6, StepCases

\* There is one way into the second wave.
LEMMA AuthStep ==
  ASSUME SInv, [Next]_vars
  PROVE  AuthInv'
<1> USE DEF SInv, TypeOK, AuthInv, AtMostTwoAuths, session, verdict
<1>1. CASE NothingToSend \/ UseCached \/ WaveEnd \/ SessionDies \/ UNCHANGED vars
  BY <1>1 DEF NothingToSend, UseCached, WaveEnd, SessionDies, vars
<1>2. CASE FirstAuth
  BY <1>2 DEF FirstAuth, AuthOk, AuthFails
<1>3. CASE Select \/ Fill \/ Refill \/ \E r \in Records : SendOne(r)
  BY <1>3 DEF Select, Fill, Refill, SendOne
<1>4. ASSUME NEW r \in Records, NEW res \in SendResults, Commit(r, res)
      PROVE  AuthInv'
  BY <1>4 DEF Commit
<1>5. CASE Reauth
  BY <1>5 DEF Reauth, AuthOk, AuthFails, SecondWave
<1>6. QED
  BY <1>1, <1>2, <1>3, <1>4, <1>5 DEF Next, Main

\* A record comes back only for the second wave.
LEMMA HandStep ==
  ASSUME SInv, [Next]_vars
  PROVE  HandInv'
<1> USE DEF SInv, TypeOK, HandInv
<1>1. CASE Quiet
  <2>1. /\ pc' = "select" => pc = "select" /\ tally' = tally
        /\ pc' = "auth" => pc = "auth"
    BY <1>1 DEF Quiet, NothingToSend, UseCached, FirstAuth, WaveEnd, SessionDies, Reauth,
       Fill, Refill, vars, summary
  <2>2. QED
    BY <1>1, <2>1, QuietHand DEF Distinct
<1>2. CASE Select
  <2>1. /\ UNCHANGED <<expired, final, touched, flying, answers>> /\ ~final
        /\ touched = {} /\ expired = <<>> /\ flying = {} /\ answers = {} /\ pc' = "auth"
    BY <1>2 DEF Select, verdict, summary, WindowInv, AuthInv
  <2>2. RangeOf(expired)' = {} /\ Distinct(expired)' /\ Answered' = {}
    BY <2>1 DEF RangeOf, Distinct, Answered
  <2>3. Distinct(pending)'
    BY <1>2, SelectHand
  <2>4. QED
    BY <2>1, <2>2, <2>3
<1>3. CASE (Fill \/ Refill) /\ pending # <<>> /\ Submit
  <2>1. UNCHANGED <<expired, final, touched, answers>> /\ pc' \notin {"select", "auth"}
    BY <1>3 DEF Fill, Refill, verdict, summary
  <2>2. RangeOf(expired)' = RangeOf(expired) /\ Distinct(expired)'
    BY <2>1 DEF RangeOf, Distinct
  <2>3. QED
    BY <1>3, <2>1, <2>2, SubmitHand
<1>4. ASSUME NEW r \in Records, SendOne(r)
      PROVE  HandInv'
  <2>1. UNCHANGED <<pc, pending, expired, final, touched>> /\ pc \notin {"select", "auth"}
    BY <1>4 DEF SendOne, verdict, summary, WindowInv
  <2>2. /\ RangeOf(expired)' = RangeOf(expired) /\ Distinct(expired)'
        /\ RangeOf(pending)' = RangeOf(pending) /\ Distinct(pending)'
    BY <2>1 DEF RangeOf, Distinct
  <2>3. QED
    BY <1>4, <2>1, <2>2, SendHand
<1>5. ASSUME NEW r \in Records, NEW res \in SendResults, Commit(r, res)
      PROVE  HandInv'
  <2>1. /\ answers' \subseteq answers /\ UNCHANGED final
        /\ touched' = touched \cup {r} /\ pc' \notin {"select", "auth"}
    BY <1>5 DEF Commit, WriteRow
  <2>2. /\ Answered' = Answered \ {r} /\ UNCHANGED <<pending, flying>>
        /\ Hand' = Hand \ {r} /\ r \in Hand
    BY <1>5, CommitHand
  <2>3. RangeOf(pending)' = RangeOf(pending) /\ Distinct(pending)'
    BY <2>2 DEF RangeOf, Distinct
  <2>4. /\ Distinct(expired)' /\ RangeOf(expired)' \subseteq RangeOf(expired) \cup {r}
        /\ final => RangeOf(expired)' = RangeOf(expired)
    <3>1. CASE ~final /\ res.sessionExpired
      <4>1. expired' = Append(expired, r) /\ r \notin RangeOf(expired)
        BY <1>5, <2>2, <3>1 DEF Commit
      <4>2. Distinct(Append(expired, r)) /\ RangeOf(Append(expired, r)) = RangeOf(expired) \cup {r}
        BY <4>1, AppendFacts
      <4>3. QED
        BY <3>1, <4>1, <4>2 DEF Distinct, RangeOf
    <3>2. CASE final \/ ~res.sessionExpired
      <4>1. expired' = expired
        BY <1>5, <3>2 DEF Commit
      <4>2. QED
        BY <4>1 DEF Distinct, RangeOf
    <3>3. QED
      BY <3>1, <3>2
  <2>5. QED
    BY <2>1, <2>2, <2>3, <2>4
<1>6. CASE Reauth /\ AuthOk /\ SecondWave
  <2>1. UNCHANGED <<expired, touched, answers>> /\ pc' \notin {"select", "auth"} /\ final' /\ pc = "reauth"
    BY <1>6, ReauthOk DEF Reauth
  <2>2. RangeOf(expired)' = RangeOf(expired) /\ Distinct(expired)'
    BY <2>1 DEF RangeOf, Distinct
  <2>3. QED
    BY <1>6, <2>1, <2>2, SecondWaveHand, ReauthOk
<1>7. QED
  BY <1>1, <1>2, <1>3, <1>4, <1>5, <1>6, StepCases

\* A record is counted when it leaves the hand, unless it waits for the second wave.
LEMMA TallyStep ==
  ASSUME SInv, [Next]_vars
  PROVE  TallyInv'
<1> USE DEF SInv, TypeOK, TallyInv, TallyIsStatus
<1>1. CASE Quiet
  <2>0. /\ UNCHANGED <<status, attempts, pending, final>>
        /\ Hand' = Hand /\ ToSend' = ToSend /\ RangeOf(expired)' = RangeOf(expired)
        /\ expired' = expired
    BY <1>1, QuietHand DEF table
  <2>1. CASE Reauth /\ UNCHANGED <<pending, final>>
    <3>1. ~final /\ pc = "reauth"
      BY <2>1 DEF Reauth, AuthInv
    <3>2. pc' = "end"
      BY <2>1, <3>1 DEF Reauth, SecondWave
    <3>3. tally' = [r \in Records |-> IF r \in RangeOf(expired) THEN "failed" ELSE tally[r]]
      BY <2>1, <3>1 DEF Reauth, SecondWave
    <3>4. \A r \in Records : tally'[r] = IF r \in RangeOf(expired) THEN "failed" ELSE tally[r]
      BY <3>3
    <3>5. Hand = {} /\ RangeOf(expired) \subseteq Records
      BY <3>1, EmptyFacts DEF Hand, WindowInv, Answered
    <3>6. TallyIsStatus'
      BY <2>0, <3>1, <3>4
    <3>7. \A r \in ToSend : tally'[r] # "none"
      BY <3>1, <3>4, <3>5 DEF ToSend
    <3>8. \A r \in RangeOf(expired) : tally'[r] # "none"
      BY <3>4, <3>5
    <3> HIDE DEF TallyIsStatus
    <3>9. QED
      BY <2>0, <3>2, <3>5, <3>6, <3>7, <3>8
  <2>2. CASE WaveEnd
    <3>1. tally' = tally /\ aborted' = aborted /\ pc = "wave"
          /\ (pc' = "end" /\ ~aborted /\ ~final => expired = <<>>)
      BY <2>2 DEF WaveEnd, verdict, summary
    <3>2. pc' = "end" /\ ~aborted /\ ~final => RangeOf(expired) = {}
      BY <3>1, EmptyFacts
    <3>3. QED
      BY <2>0, <3>1, <3>2
  <2>3. CASE NothingToSend \/ FirstAuth
    <3>1. tally' = tally /\ pc = "auth" /\ (pc' = "end" \/ pc' = "fill") /\ touched = {}
      BY <2>3 DEF NothingToSend, FirstAuth, summary, HandInv
    <3>2. RangeOf(expired) = {}
      BY <3>1 DEF HandInv
    <3>3. QED
      BY <2>0, <3>1, <3>2
  <2>4. CASE \/ UseCached \/ SessionDies \/ UNCHANGED vars
             \/ Fill /\ ~(pending # <<>> /\ InFlight < Concurrency)
             \/ Refill /\ pending = <<>>
    <3>1. tally' = tally /\ aborted' = aborted /\ (pc' \in {"select", "end"} => pc' = pc)
          /\ (pc = "select" => pc' = pc)  /\ (pc = "end" => pc' = pc)
      BY <2>4 DEF UseCached, SessionDies, Fill, Refill, vars, verdict, summary
    <3>2. QED
      BY <2>0, <3>1
  <2>5. QED
    BY <1>1, <2>1, <2>2, <2>3, <2>4 DEF Quiet
<1>2. CASE Select
  <2>1. /\ UNCHANGED <<table, expired, final, tally>> /\ pc' = "auth" /\ expired = <<>>
    BY <1>2 DEF Select, verdict, summary, HandInv
  <2>2. RangeOf(expired)' = {} /\ ToSend' = ToSend
    BY <2>1 DEF RangeOf, ToSend, table
  <2>3. \A r \in Records : tally[r] = "none"
    BY <1>2 DEF Select, HandInv
  <2>4. QED
    BY <1>2, <2>1, <2>2, <2>3, SelectHand DEF table, ToSend
<1>3. CASE (Fill \/ Refill) /\ pending # <<>> /\ Submit
  <2>1. /\ UNCHANGED <<table, expired, final, answers, tally>>
        /\ pc \in {"fill", "refill"} /\ pc' \in {"fill", "wave"}
    BY <1>3 DEF Fill, Refill, verdict, summary
  <2>2. RangeOf(expired)' = RangeOf(expired) /\ ToSend' = ToSend
    BY <2>1 DEF RangeOf, ToSend, table
  <2>3. QED
    BY <1>3, <2>1, <2>2, SubmitHand DEF table
<1>4. ASSUME NEW r \in Records, SendOne(r)
      PROVE  TallyInv'
  <2>1. UNCHANGED <<table, pc, expired, final, tally, aborted>>
    BY <1>4 DEF SendOne, verdict, summary
  <2>2. RangeOf(expired)' = RangeOf(expired) /\ ToSend' = ToSend
    BY <2>1 DEF RangeOf, ToSend, table
  <2>3. QED
    BY <1>4, <2>1, <2>2, SendHand DEF table
<1>5. ASSUME NEW r \in Records, NEW res \in SendResults, Commit(r, res)
      PROVE  TallyInv'
  <2>1. /\ status' = [status EXCEPT ![r] = res.status]
        /\ attempts' = [attempts EXCEPT ![r] = AttemptsAfter(@, res)]
        /\ UNCHANGED final /\ pc = "wave" /\ pc' \in {"wave", "refill"}
    BY <1>5 DEF Commit, WriteRow
  <2>2. Hand' = Hand \ {r} /\ r \in Hand /\ tally[r] = "none"
    BY <1>5, CommitHand
  <2>3. \A s \in ToSend' : s # r => s \in ToSend
    BY <2>1 DEF ToSend
  <2>4. CASE ~final /\ res.sessionExpired
    <3>1. tally' = tally /\ expired' = Append(expired, r)
      BY <1>5, <2>4 DEF Commit
    <3>2. RangeOf(expired)' = RangeOf(expired) \cup {r}
      <4>1. RangeOf(Append(expired, r)) = RangeOf(expired) \cup {r}
        BY AppendFacts
      <4>2. RangeOf(expired)' = RangeOf(expired')
        BY DEF RangeOf
      <4>3. QED
        BY <3>1, <4>1, <4>2
    <3>3. res.status = "failed"
      BY <2>4, ResultFacts
    <3>4. \A s \in RangeOf(expired) : s \in Records
      BY EmptyFacts
    <3>5. QED
      BY <2>1, <2>2, <2>3, <2>4, <3>1, <3>2, <3>3, <3>4
  <2>5. CASE final \/ ~res.sessionExpired
    <3>1. tally' = [tally EXCEPT ![r] = res.status] /\ expired' = expired
      BY <1>5, <2>5 DEF Commit
    <3>2. RangeOf(expired)' = RangeOf(expired) /\ RangeOf(expired) \subseteq Records
      BY <3>1, EmptyFacts DEF RangeOf
    <3>3. res.status # "none"
      BY ResultFacts
    <3>4. ~final => r \notin RangeOf(expired)
      BY <2>2 DEF HandInv
    <3>5. Hand \subseteq Records
      BY EmptyFacts DEF Hand, Answered
    <3>6. QED
      BY <2>1, <2>2, <2>3, <3>1, <3>2, <3>3, <3>4, <3>5
  <2>6. QED
    BY <2>4, <2>5
<1>6. CASE Reauth /\ AuthOk /\ SecondWave
  <2>1. UNCHANGED <<table, expired, tally>> /\ pc' = "fill" /\ pc = "reauth" /\ final' /\ ~final
    BY <1>6, ReauthOk DEF Reauth, AuthInv
  <2>2. RangeOf(expired)' = RangeOf(expired) /\ ToSend' = ToSend
    BY <2>1 DEF RangeOf, ToSend, table
  <2>3. Hand = {} /\ Hand' = RangeOf(expired)
    BY <1>6, <2>1, SecondWaveHand, ReauthOk, EmptyFacts DEF Hand, WindowInv, Answered
  <2>4. QED
    BY <2>1, <2>2, <2>3 DEF table
<1>7. QED
  BY <1>1, <1>2, <1>3, <1>4, <1>5, <1>6, StepCases

\* Records is finite, and so is every set of counted records.
LEMMA CountedFinite ==
  ASSUME NEW P, P \subseteq Records
  PROVE  IsFiniteSet(P) /\ Cardinality(P) \in Nat
<1> DEFINE f == [i \in 1..Len(Order) |-> Order[i]]
<1>1. f \in Surjection(1..Len(Order), Records)
  BY DEF Surjection, Records
<1>2. IsFiniteSet(1..Len(Order))
  BY Constants, FS_Interval
<1>3. IsFiniteSet(Records)
  <2> HIDE DEF f
  <2>1. QED
    BY <1>1, <1>2, FS_Surjection
<1>4. IsFiniteSet(P)
  BY <1>3, FS_Subset
<1>5. QED
  BY <1>4, FS_CardinalityType

\* A list without repetition is as long as its set.
LEMMA LengthIsSize ==
  ASSUME NEW S, NEW s \in Seq(S), Distinct(s)
  PROVE  Cardinality(RangeOf(s)) = Len(s)
<1> DEFINE f == [i \in 1..Len(s) |-> s[i]]
<1>1. Len(s) \in Nat
  OBVIOUS
<1>2. f \in [1..Len(s) -> RangeOf(s)]
  BY DEF RangeOf
<1>3. \A i, j \in 1..Len(s) : f[i] = f[j] => i = j
  BY DEF Distinct
<1>4. \A x \in RangeOf(s) : \E i \in 1..Len(s) : f[i] = x
  BY DEF RangeOf
<1> HIDE DEF f
<1>5. f \in Bijection(1..Len(s), RangeOf(s))
  <2>1. f \in Injection(1..Len(s), RangeOf(s))
    BY <1>2, <1>3 DEF Injection, IsInjective
  <2>2. f \in Surjection(1..Len(s), RangeOf(s))
    BY <1>2, <1>4 DEF Surjection
  <2>3. QED
    BY <2>1, <2>2 DEF Bijection
<1>6. ExistsBijection(1..Len(s), RangeOf(s))
  BY <1>5 DEF ExistsBijection
<1>7. QED
  BY <1>1, <1>6, FS_CountingElements

\* Where the counters stand still.
LEMMA CountKept ==
  ASSUME SInv, UNCHANGED <<touched, counts, tally>>, Uncounted' = Uncounted,
         final' => reauthed',
         reauthed' /\ ~final' => pc' = "end" /\ Hand' = {}
  PROVE  CountInv'
<1>1. \A r \in Records : tally'[r] # "none" <=> r \in touched' \ Uncounted'
  BY DEF SInv, CountInv
<1>2. \A o \in Outcome : counts'[o] = Cardinality({r \in Records : tally'[r] = o})
  BY DEF SInv, CountInv
<1>3. QED
  BY <1>1, <1>2 DEF CountInv

\* Every commit that is not to be repeated adds one to one counter; a failed
\* reauthentication adds the records that were waiting for it.
LEMMA CountStep ==
  ASSUME SInv, [Next]_vars
  PROVE  CountInv'
<1>0. /\ final => reauthed
      /\ reauthed /\ ~final => pc = "end" /\ Hand = {}
      /\ \A r \in Records : tally[r] # "none" <=> r \in touched \ Uncounted
      /\ \A o \in Outcome : counts[o] = Cardinality({r \in Records : tally[r] = o})
  BY DEF SInv, CountInv
<1>1. CASE Quiet
  <2>0. /\ UNCHANGED <<touched, final, expired>> /\ Hand' = Hand
        /\ RangeOf(expired)' = RangeOf(expired)
    BY <1>1, QuietHand
  <2>1. CASE Reauth /\ UNCHANGED <<pending, final>>
    <3>1. pc = "reauth" /\ ~final /\ reauthed'
      BY <2>1 DEF Reauth, SInv, AuthInv
    <3>2. /\ pc' = "end"
          /\ tally' = [r \in Records |-> IF r \in RangeOf(expired) THEN "failed" ELSE tally[r]]
          /\ counts' = [counts EXCEPT !["failed"] = @ + Len(expired)]
      BY <2>1, <3>1 DEF Reauth, SecondWave
    <3>3. ~reauthed /\ Uncounted = RangeOf(expired)
      BY <1>0, <3>1 DEF Uncounted
    <3>4. Hand = {} /\ RangeOf(expired) \subseteq Records /\ RangeOf(expired) \subseteq touched
      BY <3>1, EmptyFacts DEF SInv, TypeOK, Hand, WindowInv, Answered, HandInv
    <3>5. Uncounted' = {}
      BY <2>0, <3>1, <3>4 DEF Uncounted
    <3>6. \A r \in Records : tally'[r] # "none" <=> r \in touched' \ Uncounted'
      BY <1>0, <2>0, <3>2, <3>3, <3>4, <3>5
    <3>7. ASSUME NEW o \in Outcome
          PROVE  counts'[o] = Cardinality({r \in Records : tally'[r] = o})
      <4> DEFINE P == {r \in Records : tally[r] = o}
                 N == {r \in Records : tally'[r] = o}
      <4>1. counts \in [Outcome -> Nat] /\ Distinct(expired) /\ expired \in Seq(Records)
        BY DEF SInv, TypeOK, HandInv
      <4>2. counts[o] = Cardinality(P)
        BY <1>0
      <4>3. o # "none"
        BY DEF Outcome
      <4>4. \A r \in RangeOf(expired) : tally[r] = "none"
        BY <1>0, <3>3, <3>4
      <4>5. CASE o # "failed"
        <5>1. N = P
          BY <3>2, <3>4, <4>3, <4>4, <4>5
        <5>2. counts'[o] = counts[o]
          BY <3>2, <4>1, <4>5
        <5>3. QED
          BY <4>2, <5>1, <5>2
      <4>6. CASE o = "failed"
        <5>1. N = P \cup RangeOf(expired)
          BY <3>2, <3>4, <4>6
        <5>2. P \cap RangeOf(expired) = {}
          BY <4>3, <4>4
        <5>3. IsFiniteSet(P) /\ IsFiniteSet(RangeOf(expired)) /\ Cardinality(P) \in Nat
          BY <3>4, CountedFinite
        <5>4. Cardinality(RangeOf(expired)) = Len(expired) /\ Len(expired) \in Nat
          BY <4>1, LengthIsSize
        <5>5. Cardinality(P \cap RangeOf(expired)) = 0
          BY <5>2, FS_EmptySet
        <5>6. counts'[o] = counts[o] + Len(expired)
          BY <3>2, <4>1, <4>6
        <5> HIDE DEF P, N
        <5>7. Cardinality(P \cup RangeOf(expired))
                = Cardinality(P) + Cardinality(RangeOf(expired))
                    - Cardinality(P \cap RangeOf(expired))
          BY <5>3, FS_Union
        <5>8. counts'[o] = Cardinality(P \cup RangeOf(expired))
          BY <4>2, <5>3, <5>4, <5>5, <5>6, <5>7
        <5>9. QED
          BY <5>1, <5>8 DEF N
      <4>7. QED
        BY <4>5, <4>6
    <3>8. QED
      BY <2>0, <3>1, <3>2, <3>4, <3>6, <3>7 DEF CountInv
  <2>2. CASE ~(Reauth /\ UNCHANGED <<pending, final>>)
    <3>1. /\ UNCHANGED <<reauthed, counts, tally>> /\ (pc = "end" => pc' = "end")
      BY <1>1, <2>2 DEF Quiet, NothingToSend, UseCached, FirstAuth, WaveEnd, SessionDies,
         Fill, Refill, vars, session, summary
    <3>2. Uncounted' = Uncounted
      BY <2>0, <3>1 DEF Uncounted
    <3>3. QED
      BY <1>0, <2>0, <3>1, <3>2, CountKept
  <2>3. QED
    BY <2>1, <2>2
<1>2. CASE Select
  <2>1. /\ UNCHANGED <<touched, counts, tally, reauthed, final, expired>> /\ pc = "select"
    BY <1>2 DEF Select, verdict, summary, session
  <2>2. ~reauthed
    BY <1>0, <2>1 DEF SInv, AuthInv
  <2>3. Uncounted' = Uncounted
    BY <2>1, <2>2 DEF Uncounted, RangeOf
  <2>4. QED
    BY <1>0, <2>1, <2>2, <2>3, CountKept
<1>3. CASE (Fill \/ Refill) /\ pending # <<>> /\ Submit
  <2>1. /\ UNCHANGED <<touched, counts, tally, reauthed, final, expired, answers>>
        /\ pc # "end"
    BY <1>3 DEF Fill, Refill, verdict, summary, session
  <2>2. Hand' = Hand
    BY <1>3, <2>1, SubmitHand DEF SInv
  <2>3. Uncounted' = Uncounted
    BY <2>1, <2>2 DEF Uncounted, RangeOf
  <2>4. QED
    BY <1>0, <2>1, <2>3, CountKept
<1>4. ASSUME NEW r \in Records, SendOne(r)
      PROVE  CountInv'
  <2>1. UNCHANGED <<pc, touched, counts, tally, reauthed, final, expired>>
    BY <1>4 DEF SendOne, verdict, summary, session
  <2>2. Hand' = Hand
    BY <1>4, SendHand DEF SInv
  <2>3. Uncounted' = Uncounted
    BY <2>1, <2>2 DEF Uncounted, RangeOf
  <2>4. QED
    BY <1>0, <2>1, <2>2, <2>3, CountKept
<1>5. ASSUME NEW r \in Records, NEW res \in SendResults, Commit(r, res)
      PROVE  CountInv'
  <2>1. /\ UNCHANGED <<reauthed, final>> /\ touched' = touched \cup {r} /\ pc = "wave"
    BY <1>5 DEF Commit, WriteRow, session
  <2>2. Hand' = Hand \ {r} /\ r \in Hand
    BY <1>5, CommitHand DEF SInv
  <2>3. tally[r] = "none" /\ reauthed = final
    BY <1>0, <2>1, <2>2 DEF SInv, TallyInv, TypeOK
  <2>4. CASE ~final /\ res.sessionExpired
    <3>1. UNCHANGED <<counts, tally>> /\ expired' = Append(expired, r)
      BY <1>5, <2>4 DEF Commit, Count
    <3>2. RangeOf(Append(expired, r)) = RangeOf(expired) \cup {r}
      BY AppendFacts DEF SInv, TypeOK
    <3>3. RangeOf(expired)' = RangeOf(expired) \cup {r}
      <4>1. RangeOf(expired)' = RangeOf(expired')
        BY DEF RangeOf
      <4>2. QED
        BY <3>1, <3>2, <4>1
    <3>4. Uncounted' = Uncounted \cup {r}
      BY <2>1, <2>3, <2>4, <3>3 DEF Uncounted
    <3>5. \A s \in Records : tally'[s] # "none" <=> s \in touched' \ Uncounted'
      BY <1>0, <2>1, <2>3, <3>1, <3>4
    <3>6. \A o \in Outcome : counts'[o] = Cardinality({s \in Records : tally'[s] = o})
      BY <1>0, <3>1
    <3>7. QED
      BY <2>1, <2>3, <3>5, <3>6 DEF CountInv
  <2>5. CASE final \/ ~res.sessionExpired
    <3>1. /\ counts' = [counts EXCEPT ![res.status] = @ + 1]
          /\ tally' = [tally EXCEPT ![r] = res.status]
          /\ expired' = expired
      BY <1>5, <2>5 DEF Commit, Count
    <3>2. res.status \in Outcome /\ res.status # "none"
      BY ResultFacts DEF Outcome
    <3>3. /\ tally \in [Records -> Outcome \cup {"none"}] /\ counts \in [Outcome -> Nat]
          /\ touched \subseteq Records
      BY DEF SInv, TypeOK
    <3>4. \A s \in Records : s \in touched' \ Uncounted' <=> s = r \/ s \in touched \ Uncounted
      <4>1. CASE final
        <5>1. Uncounted = Hand /\ Uncounted' = Hand \ {r}
          BY <2>1, <2>2, <2>3, <4>1 DEF Uncounted
        <5>2. QED
          BY <2>1, <5>1
      <4>2. CASE ~final
        <5>1. Uncounted = RangeOf(expired) /\ Uncounted' = RangeOf(expired)
          BY <2>1, <2>3, <3>1, <4>2 DEF Uncounted, RangeOf
        <5>2. r \notin RangeOf(expired)
          BY <2>2, <4>2 DEF SInv, HandInv
        <5>3. QED
          BY <2>1, <5>1, <5>2
      <4>3. QED
        BY <4>1, <4>2
    <3>5. \A s \in Records : tally'[s] = IF s = r THEN res.status ELSE tally[s]
      BY <3>1, <3>3
    <3>6. \A s \in Records : tally'[s] # "none" <=> s \in touched' \ Uncounted'
      BY <1>0, <3>2, <3>4, <3>5
    <3>7. ASSUME NEW o \in Outcome
          PROVE  counts'[o] = Cardinality({s \in Records : tally'[s] = o})
      <4> DEFINE P == {s \in Records : tally[s] = o}
                 N == {s \in Records : tally'[s] = o}
      <4>1. counts[o] = Cardinality(P)
        BY <1>0
      <4>2. CASE o # res.status
        <5>1. o # "none"
          BY DEF Outcome
        <5>2. N = P
          BY <2>3, <3>5, <4>2, <5>1
        <5>3. counts'[o] = counts[o]
          BY <3>1, <3>3, <4>2
        <5>4. QED
          BY <4>1, <5>2, <5>3
      <4>3. CASE o = res.status
        <5>1. N = P \cup {r} /\ r \notin P
          BY <2>3, <3>2, <3>5, <4>3
        <5>2. counts'[o] = counts[o] + 1
          BY <3>1, <3>2, <3>3, <4>3
        <5>3. IsFiniteSet(P)
          BY CountedFinite
        <5> HIDE DEF P, N
        <5>4. Cardinality(P \cup {r}) = Cardinality(P) + 1
          BY <5>1, <5>3, FS_AddElement
        <5>5. QED
          BY <4>1, <5>1, <5>2, <5>4 DEF N
      <4>4. QED
        BY <4>2, <4>3
    <3>8. QED
      BY <2>1, <2>3, <3>6, <3>7 DEF CountInv
  <2>6. QED
    BY <2>4, <2>5
<1>6. CASE Reauth /\ AuthOk /\ SecondWave
  <2>1. /\ UNCHANGED <<touched, counts, tally>> /\ pc = "reauth" /\ final' /\ ~final /\ reauthed'
    BY <1>6, ReauthOk DEF Reauth, summary, SInv, AuthInv
  <2>2. Hand' = RangeOf(expired)
    BY <1>6, <2>1, SecondWaveHand, ReauthOk
  <2>3. Uncounted' = Uncounted
    BY <1>0, <2>1, <2>2 DEF Uncounted
  <2>4. QED
    BY <2>1, <2>3, CountKept
<1>7. QED
  BY <1>1, <1>2, <1>3, <1>4, <1>5, <1>6, StepCases

-----------------------------------------------------------------------------
(***************************************************************************)
(* The theorems.                                                           *)
(***************************************************************************)

\* Any table and any cached session satisfy the invariant before the query.
LEMMA InitSInv == Init => SInv
<1> SUFFICES ASSUME Init
             PROVE  SInv
  OBVIOUS
<1>1. RangeOf(pending) = {} /\ RangeOf(expired) = {} /\ Answered = {} /\ Hand = {}
  BY DEF Init, RangeOf, Answered, Hand
<1>2. IsFiniteSet(flying) /\ IsFiniteSet(answers) /\ InFlight = 0
  BY FS_EmptySet DEF Init, InFlight
<1>3. TypeOK
  <2>1. status \in [Records -> RecordStatus]
    BY DEF Init, RecordStatus
  <2>2. <<>> \in Seq(Records)
    OBVIOUS
  <2>3. tally \in [Records -> Outcome \cup {"none"}] /\ counts \in [Outcome -> Nat]
    BY DEF Init
  <2>4. QED
    BY <2>1, <2>2, <2>3 DEF Init, TypeOK, Session
<1>4. CapInv
  BY <1>1 DEF Init, CapInv
<1>5. WindowInv
  BY <1>2, Constants DEF Init, WindowInv
<1>6. StreakInv
  BY <1>2, Constants DEF Init, StreakInv
<1>7. AuthInv
  BY DEF Init, AuthInv, AtMostTwoAuths
<1>8. HandInv
  BY <1>1 DEF Init, HandInv, Distinct
<1>9. TallyInv
  BY <1>1 DEF Init, TallyInv, TallyIsStatus
<1>10. CountInv
  <2>1. \A o \in Outcome : {r \in Records : tally[r] = o} = {}
    BY DEF Init, Outcome
  <2>2. \A o \in Outcome : counts[o] = 0
    BY DEF Init
  <2>3. Cardinality({}) = 0
    BY FS_EmptySet
  <2>4. \A o \in Outcome : counts[o] = Cardinality({r \in Records : tally[r] = o})
    BY <2>1, <2>2, <2>3
  <2>5. \A r \in Records : tally[r] # "none" <=> r \in touched \ Uncounted
    BY <1>1 DEF Init, Uncounted
  <2>6. QED
    BY <2>4, <2>5 DEF Init, CountInv
<1>11. QED
  BY <1>3, <1>4, <1>5, <1>6, <1>7, <1>8, <1>9, <1>10 DEF SInv

\* The invariant holds throughout the stage.
THEOREM StageInvariant == Spec => []SInv
<1>1. SInv /\ [Next]_vars => SInv'
  BY TypeStep, CapStep, WindowStep, StreakStep, AuthStep, HandStep, TallyStep, CountStep DEF SInv
<1>2. QED
  BY <1>1, InitSInv, PTL DEF Spec

\* The variables have their types; no attempt count exceeds the cap.
THEOREM StageTypes == Spec => []TypeOK
<1>1. SInv => TypeOK
  BY DEF SInv
<1>2. QED
  BY <1>1, StageInvariant, PTL

\* An outage costs one pass a bounded number of requests.
THEOREM OutagesAreBounded == Spec => []OutageIsBounded
<1>1. SInv => OutageIsBounded
  <2> SUFFICES ASSUME SInv
               PROVE  OutageIsBounded
    OBVIOUS
  <2>1. /\ InFlight <= Concurrency
        /\ ~aborted => streak < Threshold
        /\ aborted => streak + InFlight <= Threshold + Concurrency - 1
    BY DEF SInv, WindowInv, StreakInv
  <2>2. ~aborted => streak + 0 <= Threshold + Concurrency - 1
    BY <2>1, Constants DEF SInv, TypeOK
  <2>3. QED
    BY <2>1, <2>2 DEF OutageIsBounded
<1>2. QED
  BY <1>1, StageInvariant, PTL

\* A pass that ends without abort has counted everything it selected.
THEOREM NothingIsSkipped == Spec => []EndWithoutAbortIsComplete
<1>1. SInv => EndWithoutAbortIsComplete
  <2> SUFFICES ASSUME SInv, pc = "end", ~aborted, NEW r \in Records, tally[r] = "none",
                      r \in ToSend
               PROVE  FALSE
    BY DEF EndWithoutAbortIsComplete, Ended, ToSend
  <2>1. Hand = {}
    BY EmptyFacts DEF SInv, TypeOK, WindowInv, Hand, Answered
  <2>2. QED
    BY <2>1 DEF SInv, TallyInv
<1>2. QED
  BY <1>1, StageInvariant, PTL

\* However often the session dies, a pass authenticates at most twice.
THEOREM AuthsAreBounded == Spec => []AtMostTwoAuths
<1>1. SInv => AtMostTwoAuths
  BY DEF SInv, AuthInv
<1>2. QED
  BY <1>1, StageInvariant, PTL

\* The integers of the summary count every record the pass committed, under the outcome
\* its row has and once, except the stale ones that an abort leaves without a second
\* answer (commit and run_wave, uploader.py 190-291).
THEOREM SummaryIsTrue == Spec => []CountsAreTrue
<1>1. SInv => CountsAreTrue
  <2> SUFFICES ASSUME SInv
               PROVE  CountsAreTrue
    OBVIOUS
  <2>1. ASSUME NEW o \in Outcome
        PROVE  counts[o] = Cardinality({r \in touched \ Uncounted : status[r] = o})
    <3>1. o # "none"
      BY <2>1 DEF Outcome
    <3>2. \A r \in Records : tally[r] # "none" => tally[r] = status[r]
      BY DEF SInv, TallyInv, TallyIsStatus
    <3>3. \A r \in Records : tally[r] # "none" <=> r \in touched \ Uncounted
      BY DEF SInv, CountInv
    <3>4. touched \subseteq Records
      BY DEF SInv, TypeOK
    <3>5. {r \in touched \ Uncounted : status[r] = o} = {r \in Records : tally[r] = o}
      BY <3>1, <3>2, <3>3, <3>4
    <3>6. counts[o] = Cardinality({r \in Records : tally[r] = o})
      BY <2>1 DEF SInv, CountInv
    <3>7. QED
      BY <3>5, <3>6
  <2>2. Ended /\ ~aborted => Uncounted = {}
    <3> SUFFICES ASSUME Ended, ~aborted
                 PROVE  Uncounted = {}
      OBVIOUS
    <3>1. Hand = {}
      BY EmptyFacts DEF SInv, TypeOK, WindowInv, Hand, Answered, Ended
    <3>2. CASE reauthed
      BY <3>1, <3>2 DEF Uncounted
    <3>3. CASE ~reauthed
      <4>1. ~final
        BY <3>3 DEF SInv, CountInv
      <4>2. \A r \in RangeOf(expired) : tally[r] # "none"
        BY <4>1 DEF SInv, TallyInv, Ended
      <4>3. \A r \in RangeOf(expired) : r \in Records
        BY EmptyFacts DEF SInv, TypeOK
      <4>4. \A r \in Records : tally[r] # "none" => r \notin RangeOf(expired)
        BY <3>3 DEF SInv, CountInv, Uncounted
      <4>5. RangeOf(expired) = {}
        BY <4>2, <4>3, <4>4
      <4>6. QED
        BY <3>3, <4>5 DEF Uncounted
    <3>4. QED
      BY <3>2, <3>3
  <2>3. QED
    BY <2>1, <2>2 DEF CountsAreTrue
<1>2. QED
  BY <1>1, StageInvariant, PTL

\* Only a record with a stale answer is submitted again.
LEMMA ResendStep ==
  ASSUME SInv, [Next]_vars, NEW r \in Records, r \in flying', r \notin flying, r \in touched
  PROVE  final /\ (\E i \in 1..Len(expired) : expired[i] = r) /\ tally[r] = "none"
<1>1. r \in Hand
  <2>1. CASE (Fill \/ Refill) /\ pending # <<>> /\ Submit
    BY <2>1, HeadFacts DEF Submit, SInv, TypeOK, HandInv, Hand
  <2>2. CASE Select
    BY <2>2 DEF Select
  <2>3. ASSUME NEW s \in Records, SendOne(s) \/ \E res \in SendResults : Commit(s, res)
        PROVE  FALSE
    BY <2>3 DEF SendOne, Commit
  <2>4. QED
    BY <2>1, <2>2, <2>3, StepCases, QuietHand, ReauthOk
<1>2. final /\ r \in RangeOf(expired)
  BY <1>1 DEF SInv, HandInv
<1>3. QED
  BY <1>1, <1>2 DEF SInv, TallyInv, RangeOf

\* A record is handed to a worker a second time only in the second wave, and only if its
\* first answer said that the session had expired (send_records, uploader.py 249-291).
THEOREM ResendsAreStale == Spec => ResendOnlyStale
<1>1. SInv /\ [Next]_vars =>
        \A r \in Records :
          (r \in flying' /\ r \notin flying /\ r \in touched)
            => final /\ (\E i \in 1..Len(expired) : expired[i] = r) /\ tally[r] = "none"
  BY ResendStep
<1>2. QED
  BY <1>1, StageInvariant, PTL DEF Spec, ResendOnlyStale

-----------------------------------------------------------------------------
(***************************************************************************)
(* The stage implements the send stage of Uploader.                        *)
(***************************************************************************)

\* The one query of the stage: what sendable_records lists is what the pass selects.
LEMMA StageSelect ==
  ASSUME SInv, Select
  PROVE  Stage!Select(ThePass)
<1>1. /\ StagePc = "ingest" /\ StagePc' = "send"
      /\ StageWork = {} /\ StageWork' = {}
      /\ StageTodo' = ToSend
      /\ ~Ended /\ ~Ended'
      /\ UNCHANGED <<status, attempts, flying, answers, final>>
  BY SelectHand DEF Select, StagePc, StageWork, StageTodo, Ended, table, verdict
<1>2. StageAgain' = StageAgain /\ StageTouched' = StageTouched
  BY <1>1 DEF Select, StageAgain, StageTouched, RangeOf, verdict, summary
<1>3. QED
  BY <1>1, <1>2 DEF Stage!Select, Stage!Goto, InPass, Stage!Sendable, ToSend, Sendable,
     Stage!dbVars, Stage!fsVars, Stage!ghostVars

\* A submit takes one record out of what the pass still has to send.
LEMMA StageSubmit ==
  ASSUME SInv, (Fill \/ Refill) /\ pending # <<>> /\ Submit
  PROVE  \E r \in Records : Stage!Submit(ThePass, r)
<1>1. /\ Head(pending) \in Records /\ Head(pending) \in RangeOf(pending)
      /\ RangeOf(Tail(pending)) = RangeOf(pending) \ {Head(pending)}
      /\ pending' = Tail(pending) /\ flying' = flying \cup {Head(pending)}
  BY HeadFacts, SubmitHand DEF Submit, SInv, TypeOK, HandInv
<1>2. RangeOf(pending)' = RangeOf(pending) \ {Head(pending)}
  <2>1. RangeOf(pending)' = RangeOf(pending')
    BY DEF RangeOf
  <2>2. QED
    BY <1>1, <2>1
<1>3. /\ StagePc = "send" /\ StagePc' = "send" /\ ~Ended /\ ~Ended'
      /\ UNCHANGED <<status, attempts, answers, final, expired, touched>>
  BY DEF Fill, Refill, StagePc, Ended, table, verdict, summary
<1>4. /\ StageTodo = RangeOf(pending) /\ StageTodo' = RangeOf(pending) \ {Head(pending)}
      /\ StageWork' = StageWork /\ StageAgain' = StageAgain /\ StageTouched' = StageTouched
  BY <1>2, <1>3 DEF StageTodo, StageWork, StageAgain, StageTouched, RangeOf
<1>5. Stage!Submit(ThePass, Head(pending))
  BY <1>1, <1>3, <1>4 DEF Stage!Submit, InPass, Stage!dbVars, Stage!fsVars, Stage!ghostVars
<1>6. QED
  BY <1>1, <1>5

\* The history variables start saturated, so Uploader's bureau may answer anything.
LEMMA StageSendOne ==
  ASSUME SInv, NEW r \in Records, SendOne(r)
  PROVE  Stage!SendOne(ThePass, r)
<1>1. PICK res \in SendResults :
         /\ IF r \in Oversize THEN res = TooLarge ELSE AnswerTo(res)
         /\ answers' = answers \cup {<<r, res>>}
  BY DEF SendOne
<1>2. res \in Stage!Answerable(r)
  BY <1>1, Constants DEF Stage!Answerable, AnswerTo, Stage!BureauResults, BureauResults,
     Stage!TooLarge, TooLarge, Stage!Accepted, Accepted, Stage!Refused, Refused,
     Stage!Garbled, Garbled, Stage!Unreachable, Unreachable, Stage!Stale, Stale,
     Stage!Result, Result
<1>3. \E took \in BOOLEAN : Stage!Bureau(r, res, took)
  <2>1. Stage!Bureau(r, res, res = Stage!Accepted)
    BY DEF Stage!Bureau
  <2>2. QED
    BY <2>1
<1>4. /\ r \in flying /\ flying' = flying \ {r}
      /\ UNCHANGED <<status, attempts, pc, pending, final, expired, touched, aborted>>
  BY DEF SendOne, table, verdict, summary
<1>5. /\ StagePc' = StagePc /\ StagePc # "drain" /\ StageTodo' = StageTodo
      /\ StageWork' = StageWork /\ StageAgain' = StageAgain /\ StageTouched' = StageTouched
      /\ Ended' = Ended
  BY <1>4 DEF StagePc, StageTodo, StageWork, StageAgain, StageTouched, RangeOf, Ended
<1>6. QED
  BY <1>1, <1>2, <1>3, <1>4, <1>5 DEF Stage!SendOne, InPass, Stage!dbVars, Stage!fsVars

\* One result is stored, and the record counts as touched by the pass.
LEMMA StageCommit ==
  ASSUME SInv, NEW r \in Records, NEW res \in SendResults, Commit(r, res)
  PROVE  Stage!Commit(ThePass, r, res)
<1>1. /\ <<r, res>> \in answers /\ answers' = answers \ {<<r, res>>}
      /\ status' = [status EXCEPT ![r] = res.status]
      /\ attempts' = [attempts EXCEPT ![r] = AttemptsAfter(@, res)]
      /\ touched' = touched \cup {r}
      /\ UNCHANGED <<pending, flying, final>>
  BY DEF Commit, WriteRow
<1>2. StagePc = "send" /\ StagePc' = "send" /\ ~Ended /\ ~Ended'
  BY DEF Commit, StagePc, Ended
<1>3. /\ StageTodo' = StageTodo /\ StageWork' = StageWork
      /\ StageTouched' = StageTouched \cup {"file"}
  BY <1>1, <1>2 DEF StageTodo, StageWork, StageTouched, TheFile, RangeOf
<1>4. StageAgain' = IF res.sessionExpired /\ ~final THEN StageAgain \cup {r} ELSE StageAgain
  <2>1. CASE res.sessionExpired /\ ~final
    <3>1. expired' = Append(expired, r)
      BY <2>1 DEF Commit
    <3>2. RangeOf(Append(expired, r)) = RangeOf(expired) \cup {r}
      BY AppendFacts DEF SInv, TypeOK
    <3>3. RangeOf(expired)' = RangeOf(expired')
      BY DEF RangeOf
    <3>4. QED
      BY <1>1, <1>2, <2>1, <3>1, <3>2, <3>3 DEF StageAgain
  <2>2. CASE ~(res.sessionExpired /\ ~final)
    <3>1. expired' = expired
      BY <2>2 DEF Commit
    <3>2. QED
      BY <1>1, <1>2, <2>2, <3>1 DEF StageAgain, RangeOf
  <2>3. QED
    BY <2>1, <2>2
<1>5. QED
  BY <1>1, <1>2, <1>3, <1>4 DEF Stage!Commit, InPass, Stage!AttemptsAfter, AttemptsAfter,
     Stage!fsVars, Stage!ghostVars

\* The second wave sends what expired in the first.
LEMMA StageResend ==
  ASSUME SInv, Reauth /\ AuthOk /\ SecondWave
  PROVE  Stage!Resend(ThePass)
<1>1. /\ pc = "reauth" /\ pc' = "fill" /\ pending = <<>> /\ flying = {} /\ answers = {}
      /\ ~final /\ final' = TRUE /\ expired # <<>>
      /\ UNCHANGED <<status, attempts, flying, answers, touched>>
      /\ RangeOf(pending)' = RangeOf(expired)
  BY ReauthOk, SecondWaveHand DEF Reauth, SInv, WindowInv, AuthInv, table
<1>2. StageTodo = {} /\ StageAgain = RangeOf(expired) /\ StageAgain # {}
  <2>1. pending \in Seq(Records) /\ expired \in Seq(Records)
    BY DEF SInv, TypeOK
  <2>2. (pending = <<>>) <=> (RangeOf(pending) = {})
    BY <2>1, EmptyFacts
  <2>3. (expired = <<>>) <=> (RangeOf(expired) = {})
    BY <2>1, EmptyFacts
  <2>4. QED
    BY <1>1, <2>2, <2>3 DEF StageTodo, StageAgain, Ended
<1>3. /\ StagePc = "send" /\ StagePc' = "send" /\ ~Ended /\ ~Ended'
      /\ StageTodo' = StageAgain /\ StageAgain' = {}
      /\ StageWork' = StageWork /\ StageTouched' = StageTouched
  BY <1>1, <1>2 DEF StagePc, StageTodo, StageAgain, StageWork, StageTouched, Ended
<1>4. Stage!WaveDrained(ThePass)
  BY <1>1 DEF Stage!WaveDrained, InPass
<1>5. QED
  BY <1>1, <1>2, <1>3, <1>4 DEF Stage!Resend, InPass, Stage!dbVars, Stage!fsVars,
     Stage!ghostVars

\* Whatever ends the stage, records left undispatched mean an abort.
LEMMA StageSendEnd ==
  ASSUME SInv, [Next]_vars, ~Ended, Ended'
  PROVE  Stage!SendEnd(ThePass)
<1>1. NothingToSend \/ FirstAuth \/ WaveEnd \/ Reauth
  BY DEF Next, Main, Ended, Select, UseCached, Fill, Commit, Refill, SendOne, SessionDies,
     vars
<1>2. /\ pc # "select" /\ flying = {} /\ answers = {} /\ pc' = "end"
      /\ UNCHANGED <<status, attempts, flying, answers>>
      /\ ~aborted' => pending = <<>>
  <2>1. CASE NothingToSend \/ FirstAuth
    BY <2>1 DEF NothingToSend, FirstAuth, Ended, SInv, WindowInv, table, window
  <2>2. CASE WaveEnd
    <3>1. InFlight = 0 /\ aborted' = aborted
      BY <2>2, InFlightFacts DEF WaveEnd, SInv, WindowInv, verdict
    <3>2. pending # <<>> /\ ~aborted => Concurrency = 0
      BY <2>2, <3>1 DEF WaveEnd, SInv, WindowInv
    <3>3. QED
      BY <2>2, <3>1, <3>2, Constants DEF WaveEnd, Ended, table, window
  <2>3. CASE Reauth
    BY <2>3 DEF Reauth, Ended, SInv, WindowInv, table
  <2>4. QED
    BY <1>1, <2>1, <2>2, <2>3
<1>3. /\ StagePc = "send" /\ StagePc' = "read" /\ StageWork' = TheFile
      /\ StageTodo' = {} /\ StageAgain' = {} /\ StageTouched' = {}
      /\ StageTouched \subseteq TheFile
      /\ StageTodo # {} => aborted'
  BY <1>2, EmptyFacts DEF StagePc, StageWork, StageTodo, StageAgain, StageTouched, Ended,
     SInv, TypeOK
<1>4. Stage!WaveDrained(ThePass)
  BY <1>2 DEF Stage!WaveDrained, InPass
<1>5. Stage!ToRecompute(ThePass) = TheFile
  BY <1>3 DEF Stage!ToRecompute, Stage!Ingested, InPass, TheFile
<1>6. (Ended /\ aborted)' \in Stage!AbortFlag(ThePass)
  BY <1>3 DEF Stage!AbortFlag, InPass
<1>7. QED
  BY <1>2, <1>3, <1>4, <1>5, <1>6 DEF Stage!SendEnd, Stage!Goto, InPass, Stage!dbVars,
     Stage!fsVars, Stage!ghostVars

\* Every step of the stage is a step of Uploader's, or none.
LEMMA StageStep ==
  ASSUME SInv, [Next]_vars
  PROVE  [Stage!PassNext(ThePass)]_(Stage!vars)
<1>1. CASE ~Ended /\ Ended'
  BY <1>1, StageSendEnd DEF Stage!PassNext
<1>2. CASE Quiet /\ ~(~Ended /\ Ended')
  <2>1. /\ Ended' = Ended
        /\ (pc' = "select") = (pc = "select")
        /\ (Ended /\ aborted)' = (Ended /\ aborted)
    BY <1>2 DEF Quiet, NothingToSend, UseCached, FirstAuth, WaveEnd, SessionDies, Reauth,
       Fill, Refill, vars, Ended, verdict
  <2>2. UNCHANGED <<status, attempts, pending, flying, answers, expired, final, touched>>
    BY <1>2, QuietHand DEF table
  <2>3. /\ StagePc' = StagePc /\ StageTodo' = StageTodo /\ StageWork' = StageWork
        /\ StageAgain' = StageAgain /\ StageTouched' = StageTouched
    BY <2>1, <2>2 DEF StagePc, StageTodo, StageWork, StageAgain, StageTouched, RangeOf, Ended
  <2>4. UNCHANGED Stage!vars
    BY <2>1, <2>2, <2>3 DEF Stage!vars, Stage!dbVars, Stage!fsVars, Stage!sendVars,
       Stage!ghostVars, InPass
  <2>5. QED
    BY <2>4
<1>3. CASE Select
  BY <1>3, StageSelect DEF Stage!PassNext
<1>4. CASE (Fill \/ Refill) /\ pending # <<>> /\ Submit
  BY <1>4, StageSubmit DEF Stage!PassNext
<1>5. ASSUME NEW r \in Records, SendOne(r)
      PROVE  Stage!PassNext(ThePass)
  BY <1>5, StageSendOne DEF Stage!PassNext
<1>6. ASSUME NEW r \in Records, NEW res \in SendResults, Commit(r, res)
      PROVE  Stage!PassNext(ThePass)
  <2>1. Stage!SendResults = SendResults
    BY DEF Stage!SendResults, SendResults, Stage!BureauResults, BureauResults,
       Stage!TooLarge, TooLarge, Stage!Accepted, Accepted, Stage!Refused, Refused,
       Stage!Garbled, Garbled, Stage!Unreachable, Unreachable, Stage!Stale, Stale,
       Stage!Result, Result
  <2>2. QED
    BY <1>6, <2>1, StageCommit DEF Stage!PassNext
<1>7. CASE Reauth /\ AuthOk /\ SecondWave
  BY <1>7, StageResend DEF Stage!PassNext
<1>8. QED
  BY <1>1, <1>2, <1>3, <1>4, <1>5, <1>6, <1>7, StepCases

\* What is proved of Uploader holds with this stage in its place.
THEOREM ImplementsStage == Spec => StageSteps
<1>1. SInv /\ [Next]_vars => [Stage!PassNext(ThePass)]_(Stage!vars)
  BY StageStep
<1>2. QED
  BY <1>1, StageInvariant, PTL DEF Spec, StageSteps
=============================================================================
