--------------------------- MODULE RequestProofs ----------------------------
(***************************************************************************)
(* The two ends of a request of send_one: when it starts (RateLimiter) and *)
(* what its response is taken for (UbkiResponse). They share no state, and *)
(* each has its specification.                                             *)
(*                                                                         *)
(* The pace, for any number of threads, rate, slot length and lateness.    *)
(* Slots are handed out under the lock, each an interval or more after the *)
(* one before, and a start comes at most `late` ticks after its slot. So   *)
(* the starts of a second hold slots in a window of a second and `late`    *)
(* ticks, and there are no more slots in it than intervals. And a thread   *)
(* that starts in this second a slot from before it has not done so twice. *)
(*                                                                         *)
(* The verdict, for every response: whatever items it lists, the codes     *)
(* that are known as noise and the errcodes that mean an expired session.  *)
(* The argument is a case analysis of InterpretResponse: one lemma for the *)
(* flags, one for the state of the record, one for the response.           *)
(***************************************************************************)
EXTENDS RateLimiter, UbkiResponse, FiniteSetTheorems, TLAPS

\* Two slots that do not share an interval.
Apart(i, j) == i + Interval <= j \/ j + Interval <= i

\* A sleeper holds a slot of its own that is behind nextSlot and not yet missed.
SleepInv ==
  \A w \in asleep :
    /\ slot[w] + Interval <= nextSlot
    /\ now <= slot[w] + MaxDelay
    /\ \A v \in asleep : v # w => Apart(slot[v], slot[w])

\* A start came at or after its slot, and a thread reserves only after its last start.
StartInv ==
  /\ IsFiniteSet(starts)
  /\ \A x \in starts :
       /\ x.slot + Interval <= nextSlot
       /\ x.slot <= x.at /\ x.at <= now /\ x.at <= x.slot + late
       /\ \A y \in starts : x # y => Apart(x.slot, y.slot)
       /\ \A y \in starts : x # y /\ x.by = y.by => x.at <= y.slot \/ y.at <= x.slot
       /\ \A w \in asleep : Apart(x.slot, slot[w]) /\ (x.by = w => x.at <= slot[w])

PaceInv == TypeOK /\ SleepInv /\ StartInv

-----------------------------------------------------------------------------
(***************************************************************************)
(* The invariant.                                                          *)
(***************************************************************************)
\* At first nobody sleeps and nothing has started.
LEMMA PaceInit == ASSUME Init PROVE PaceInv
BY RateAssumption, FS_EmptySet DEF Init, PaceInv, TypeOK, SleepInv, StartInv

\* A reservation hands out a slot behind all others.
LEMMA ReserveStep ==
  ASSUME PaceInv, NEW w \in Workers, Reserve(w)
  PROVE  PaceInv'
<1> USE RateAssumption DEF PaceInv, TypeOK
<1>1. /\ w \notin asleep /\ slot' = [slot EXCEPT ![w] = FreeSlot]
      /\ nextSlot' = FreeSlot + Interval /\ asleep' = asleep \cup {w}
      /\ UNCHANGED <<now, starts, late>>
  BY DEF Reserve
<1>2. FreeSlot \in Nat /\ nextSlot <= FreeSlot /\ now <= FreeSlot
  BY DEF FreeSlot
<1>3. slot'[w] = FreeSlot /\ \A v \in asleep : slot'[v] = slot[v] /\ slot[v] \in Nat
  BY <1>1
<1>4. TypeOK'
  BY <1>1, <1>2
<1>5. SleepInv'
  <2>1. ASSUME NEW v \in asleep
        PROVE  /\ slot[v] + Interval <= FreeSlot + Interval
               /\ Apart(slot[v], FreeSlot) /\ Apart(FreeSlot, slot[v])
    BY <1>2 DEF SleepInv, Apart
  <2>2. now <= FreeSlot + MaxDelay
    BY <1>2
  <2>3. QED
    BY <1>1, <1>3, <2>1, <2>2 DEF SleepInv
<1>6. StartInv'
  <2>1. ASSUME NEW x \in starts
        PROVE  /\ x.slot + Interval <= FreeSlot + Interval
               /\ Apart(x.slot, FreeSlot) /\ x.at <= FreeSlot
    BY <1>2 DEF StartInv, Apart
  <2>2. QED
    BY <1>1, <1>3, <2>1 DEF StartInv
<1>7. QED
  BY <1>4, <1>5, <1>6

\* A start takes the sleeper's slot with it.
LEMMA StartStep ==
  ASSUME PaceInv, NEW w \in Workers, StartRequest(w)
  PROVE  PaceInv'
<1> USE RateAssumption DEF PaceInv, TypeOK
<1> DEFINE new == [by |-> w, slot |-> slot[w], at |-> now]
<1>1. /\ w \in asleep /\ now >= slot[w] /\ asleep' = asleep \ {w}
      /\ slot' = [slot EXCEPT ![w] = 0] /\ starts' = starts \cup {new}
      /\ late' = (IF now - slot[w] > late THEN now - slot[w] ELSE late)
      /\ UNCHANGED <<now, nextSlot>>
  BY DEF StartRequest
<1>2. /\ slot[w] \in Nat /\ now \in Nat /\ slot[w] + Interval <= nextSlot
      /\ now <= slot[w] + MaxDelay
  BY <1>1 DEF SleepInv
<1>3. late' \in 0..MaxDelay /\ late <= late' /\ now <= slot[w] + late'
  BY <1>1, <1>2
<1>4. \A v \in asleep' : slot'[v] = slot[v] /\ v # w /\ v \in asleep /\ slot[v] \in Nat
  BY <1>1
<1>5. TypeOK'
  BY <1>1, <1>2, <1>3
<1>6. SleepInv'
  BY <1>1, <1>4 DEF SleepInv
<1>7. StartInv'
  <2>1. IsFiniteSet(starts')
    BY <1>1, FS_AddElement DEF StartInv
  <2>2. ASSUME NEW x \in starts
        PROVE  /\ x.slot + Interval <= nextSlot /\ x.slot <= x.at /\ x.at <= now
               /\ x.at <= x.slot + late'
               /\ Apart(x.slot, slot[w]) /\ Apart(slot[w], x.slot)
               /\ x.by = w => x.at <= slot[w]
    BY <1>1, <1>2, <1>3 DEF StartInv, Apart
  <2>3. \A v \in asleep' : Apart(slot[w], slot[v])
    BY <1>1, <1>4 DEF SleepInv
  <2>4. new.by = w /\ new.slot = slot[w] /\ new.at = now
    OBVIOUS
  <2>5. ASSUME NEW x \in starts'
        PROVE  /\ x.slot + Interval <= nextSlot /\ x.slot <= x.at /\ x.at <= now
               /\ x.at <= x.slot + late'
               /\ \A v \in asleep' : Apart(x.slot, slot[v]) /\ (x.by = v => x.at <= slot[v])
    <3>1. CASE x \in starts
      BY <1>4, <2>2, <3>1 DEF StartInv
    <3>2. CASE x = new
      BY <1>1, <1>2, <1>3, <1>4, <2>3, <2>4, <3>2
    <3>3. QED
      BY <1>1, <3>1, <3>2
  <2>6. ASSUME NEW x \in starts', NEW y \in starts', x # y
        PROVE  Apart(x.slot, y.slot) /\ (x.by = y.by => x.at <= y.slot \/ y.at <= x.slot)
    <3>1. CASE x \in starts /\ y \in starts
      BY <2>6, <3>1 DEF StartInv
    <3>2. CASE x \in starts /\ y = new
      BY <2>2, <2>4, <3>2
    <3>3. CASE x = new /\ y \in starts
      BY <2>2, <2>4, <3>3
    <3>4. QED
      BY <1>1, <2>6, <3>1, <3>2, <3>3
  <2>7. QED
    BY <1>1, <1>4, <2>1, <2>5, <2>6 DEF StartInv
<1>8. QED
  BY <1>5, <1>6, <1>7

\* Time passes only while no sleeper is as late as the scheduler makes anyone.
LEMMA TickStep ==
  ASSUME PaceInv, Tick
  PROVE  PaceInv'
<1> USE RateAssumption DEF PaceInv, TypeOK
<1>1. /\ now' = now + 1 /\ now < MaxTime /\ \A w \in asleep : now < slot[w] + MaxDelay
      /\ UNCHANGED <<nextSlot, slot, asleep, starts, late>>
  BY DEF Tick
<1>2. TypeOK'
  BY <1>1
<1>3. SleepInv'
  <2>1. \A w \in asleep : slot[w] \in Nat /\ now + 1 <= slot[w] + MaxDelay
    BY <1>1
  <2>2. QED
    BY <1>1, <2>1 DEF SleepInv
<1>4. StartInv'
  <2>1. \A x \in starts : x.at <= now + 1
    BY DEF StartInv
  <2>2. QED
    BY <1>1, <2>1 DEF StartInv
<1>5. QED
  BY <1>2, <1>3, <1>4

\* The slots are an interval apart in every reachable state, for any threads and any
\* scheduling: the lock of acquire is what it takes, and the sleep outside it does no harm.
THEOREM SlotsAreSpaced == Spec => []PaceInv
<1>1. ASSUME PaceInv, [Next]_vars
      PROVE  PaceInv'
  <2>1. CASE UNCHANGED vars
    BY <1>1, <2>1 DEF vars, PaceInv, TypeOK, SleepInv, StartInv
  <2>2. QED
    BY <1>1, <2>1, TickStep, ReserveStep, StartStep DEF Next
<1>2. QED
  BY <1>1, PaceInit, PTL DEF Spec

-----------------------------------------------------------------------------
(***************************************************************************)
(* Counting slots.                                                         *)
(***************************************************************************)
\* The interval a tick is in.
LEMMA Quotient ==
  ASSUME NEW a \in Nat
  PROVE  /\ a \div Interval \in Nat
         /\ Interval * (a \div Interval) <= a /\ a < Interval * (a \div Interval) + Interval
<1>1. Interval \in Nat /\ Interval > 0
  BY RateAssumption
<1>2. QED
  BY <1>1

\* Ticks an interval apart are in different intervals.
LEMMA ApartQuotients ==
  ASSUME NEW a \in Nat, NEW b \in Nat, Apart(a, b)
  PROVE  a \div Interval # b \div Interval
<1> DEFINE q == a \div Interval
           p == b \div Interval
<1>1. /\ q \in Nat /\ Interval * q <= a /\ a < Interval * q + Interval
      /\ p \in Nat /\ Interval * p <= b /\ b < Interval * p + Interval
  BY Quotient
<1>2. Interval \in Nat /\ Interval * q \in Nat
  BY <1>1, RateAssumption
<1>3. ASSUME q = p
      PROVE  FALSE
  <2>1. Interval * p = Interval * q
    BY <1>3
  <2> HIDE DEF q, p
  <2>2. QED
    BY <1>1, <1>2, <2>1 DEF Apart
<1>4. QED
  BY <1>3

\* A window of so many intervals has no more of them.
LEMMA QuotientBound ==
  ASSUME NEW a \in Nat, NEW k \in Nat, a < Interval * k
  PROVE  a \div Interval \in 0..(k - 1)
<1> DEFINE q == a \div Interval
<1>1. q \in Nat /\ Interval * q <= a
  BY Quotient
<1>2. Interval \in Nat /\ Interval > 0
  BY RateAssumption
<1>3. ASSUME k <= q
      PROVE  FALSE
  <2> HIDE DEF q
  <2>1. PICK d \in Nat : q = k + d
    <3>1. q - k \in Nat /\ q = k + (q - k)
      BY <1>1, <1>3
    <3>2. QED
      BY <3>1
  <2>2. Interval * q = Interval * k + Interval * d
    BY <1>2, <2>1
  <2>3. Interval * d \in Nat /\ Interval * k \in Nat
    BY <1>2, <2>1
  <2>4. QED
    BY <1>1, <2>2, <2>3
<1>4. QED
  BY <1>1, <1>3

\* Starts whose slots are an interval apart in a window of k intervals are no more than k.
LEMMA SlotsInWindow ==
  ASSUME NEW S, NEW base \in Int, NEW k \in Nat,
         \A x \in S : x.slot \in Nat /\ base <= x.slot /\ x.slot - base < Interval * k,
         \A x, y \in S : x # y => Apart(x.slot, y.slot)
  PROVE  IsFiniteSet(S) /\ Cardinality(S) <= k
<1> DEFINE f == [x \in S |-> (x.slot - base) \div Interval]
<1>0. Interval \in Nat /\ Interval > 0
  BY RateAssumption
<1>1. \A x \in S : x.slot - base \in Nat
  OBVIOUS
<1>2. f \in [S -> 0..(k - 1)]
  BY <1>1, QuotientBound
<1>3. ASSUME NEW x \in S, NEW y \in S, x # y
      PROVE  f[x] # f[y]
  <2>1. Apart(x.slot - base, y.slot - base)
    BY <1>0, <1>3 DEF Apart
  <2>2. QED
    BY <1>1, <2>1, ApartQuotients
<1>4. f \in Injection(S, 0..(k - 1))
  BY <1>2, <1>3 DEF Injection, IsInjective
<1>5. IsFiniteSet(0..(k - 1)) /\ Cardinality(0..(k - 1)) = k
  <2>1. k - 1 \in Int
    OBVIOUS
  <2>2. QED
    BY <2>1, FS_Interval
<1>6. QED
  BY <1>4, <1>5, FS_Injection

-----------------------------------------------------------------------------
\* No more than LateSlots slots of other seconds fall into one.
LEMMA BoundByDelay ==
  ASSUME PaceInv, NEW t \in 0..MaxTime
  PROVE  Cardinality(StartsIn(t, t + Second - 1)) <= Rate + LateSlots
<1> DEFINE S == StartsIn(t, t + Second - 1)
<1>1. /\ Rate \in Nat /\ Interval \in Nat /\ Interval > 0 /\ late \in Nat /\ t \in Nat
      /\ MaxDelay \in Nat
  BY RateAssumption DEF PaceInv, TypeOK
<1>2. /\ LateSlots \in Nat /\ late <= Interval * LateSlots
  <2>1. late + Interval - 1 \in Nat
    BY <1>1
  <2>2. QED
    BY <1>1, <2>1, Quotient DEF LateSlots
<1>3. Interval * (Rate + LateSlots) = Second + Interval * LateSlots /\ Second \in Nat
  BY <1>1, <1>2 DEF Second
<1>4. ASSUME NEW x \in S
      PROVE  /\ x.slot \in Nat /\ t - late <= x.slot
             /\ x.slot - (t - late) < Interval * (Rate + LateSlots)
  <2>1. x \in starts /\ x.slot \in Nat /\ x.at \in Nat /\ t <= x.at /\ x.at <= t + Second - 1
    BY <1>1, <1>3 DEF StartsIn, PaceInv, TypeOK
  <2>2. x.slot <= x.at /\ x.at <= x.slot + late
    BY <2>1 DEF PaceInv, StartInv
  <2>3. Interval * LateSlots \in Nat
    BY <1>1, <1>2
  <2>4. QED
    BY <1>1, <1>2, <1>3, <2>1, <2>2, <2>3
<1>5. \A x, y \in S : x # y => Apart(x.slot, y.slot)
  BY DEF StartsIn, PaceInv, StartInv
<1>6. t - late \in Int /\ Rate + LateSlots \in Nat
  BY <1>1, <1>2
<1>7. QED
  BY <1>4, <1>5, <1>6, SlotsInWindow

\* Only one late start of every thread falls into a second.
LEMMA BoundByWorkers ==
  ASSUME PaceInv, NEW t \in 0..MaxTime
  PROVE  Cardinality(StartsIn(t, t + Second - 1)) <= Rate + Cardinality(Workers)
<1> DEFINE S == StartsIn(t, t + Second - 1)
           own == {x \in S : t <= x.slot}
           delayed == {x \in S : x.slot < t}
           f == [x \in delayed |-> x.by]
<1>1. Rate \in Nat /\ Interval \in Nat /\ Interval > 0 /\ t \in Nat /\ IsFiniteSet(Workers)
  BY RateAssumption
<1>2. Second \in Nat /\ Second = Interval * Rate
  BY <1>1 DEF Second
<1>3. \A x \in S : /\ x \in starts /\ x.slot \in Nat /\ x.at \in Nat /\ x.by \in Workers
                   /\ t <= x.at /\ x.at <= t + Second - 1 /\ x.slot <= x.at
  BY <1>1, <1>2 DEF StartsIn, PaceInv, TypeOK, StartInv
<1>4. IsFiniteSet(own) /\ Cardinality(own) <= Rate
  <2>1. \A x \in own : x.slot \in Nat /\ t <= x.slot /\ x.slot - t < Interval * Rate
    BY <1>1, <1>2, <1>3
  <2>2. \A x, y \in own : x # y => Apart(x.slot, y.slot)
    BY <1>3 DEF PaceInv, StartInv
  <2>3. QED
    BY <1>1, <2>1, <2>2, SlotsInWindow
<1>5. IsFiniteSet(delayed) /\ Cardinality(delayed) <= Cardinality(Workers)
  <2>1. f \in [delayed -> Workers]
    BY <1>3
  <2>2. ASSUME NEW x \in delayed, NEW y \in delayed, f[x] = f[y], x # y
        PROVE  FALSE
    <3>1. x \in starts /\ y \in starts /\ x.by = y.by
      BY <1>3, <2>2
    <3>2. x.at <= y.slot \/ y.at <= x.slot
      BY <2>2, <3>1 DEF PaceInv, StartInv
    <3>3. QED
      BY <1>1, <1>3, <3>2
  <2>3. f \in Injection(delayed, Workers)
    BY <2>1, <2>2 DEF Injection, IsInjective
  <2>4. QED
    BY <1>1, <2>3, FS_Injection
<1>6. S = own \cup delayed /\ own \cap delayed = {}
  BY <1>1, <1>3
<1>7. Cardinality(S) = Cardinality(own) + Cardinality(delayed)
  <2>1. Cardinality({}) = 0
    BY FS_EmptySet
  <2>2. /\ Cardinality(own) \in Nat /\ Cardinality(delayed) \in Nat
        /\ Cardinality(own \cup delayed) =
             Cardinality(own) + Cardinality(delayed) - Cardinality(own \cap delayed)
    BY <1>4, <1>5, FS_Union, FS_CardinalityType
  <2>3. Cardinality(S) = Cardinality(own \cup delayed)
    BY <1>6, Zenon
  <2>4. Cardinality(own \cap delayed) = 0
    BY <1>6, <2>1, Zenon
  <2> HIDE DEF S, own, delayed
  <2>5. QED
    BY <2>2, <2>3, <2>4
<1>8. Cardinality(own) \in Nat /\ Cardinality(delayed) \in Nat /\ Cardinality(Workers) \in Nat
  BY <1>1, <1>4, <1>5, FS_CardinalityType
<1>9. QED
  BY <1>1, <1>4, <1>5, <1>7, <1>8

\* "Never lets more than `rate` starts happen in any one-second window, whatever the
\* worker-pool size" (app/ratelimit.py:7), exactly so if every thread runs on time; otherwise
\* with one start more for every slot the greatest delay spans, and never more than one for
\* every thread: for any rate, pool and delay.
THEOREM PaceIsKept == Spec => []PacedUpToDelay
<1>1. PaceInv => PacedUpToDelay
  BY BoundByDelay, BoundByWorkers DEF PacedUpToDelay
<1>2. QED
  BY <1>1, SlotsAreSpaced, PTL

\* While no thread has started late, the promise holds to the letter.
THEOREM OnTimeIsExact ==
  Spec => [](late = 0 => \A t \in 0..MaxTime :
                            Cardinality(StartsIn(t, t + Second - 1)) <= Rate)
<1>1. ASSUME PaceInv, late = 0, NEW t \in 0..MaxTime
      PROVE  Cardinality(StartsIn(t, t + Second - 1)) <= Rate
  <2>1. Interval \in Nat /\ Interval > 0 /\ Rate \in Nat
    BY RateAssumption
  <2>2. late + Interval - 1 \in Nat /\ late + Interval - 1 < Interval * 1
    BY <1>1, <2>1
  <2>3. LateSlots = 0
    BY <2>2, QuotientBound DEF LateSlots
  <2>4. QED
    BY <1>1, <2>1, <2>3, BoundByDelay
<1>2. PaceInv => (late = 0 => \A t \in 0..MaxTime :
                                 Cardinality(StartsIn(t, t + Second - 1)) <= Rate)
  BY <1>1
<1>3. QED
  BY <1>2, SlotsAreSpaced, PTL

-----------------------------------------------------------------------------
(***************************************************************************)
(* The verdict.                                                            *)
(***************************************************************************)
\* The verdict is the one of the response that was received.
ResponseInv ==
  /\ resp \in Response /\ WellFormed(resp)
  /\ verdict = <<>> \/ verdict = <<InterpretResponse(resp)>>

\* The five results differ in what the pass looks at.
LEMMA ResultFacts ==
  /\ Accepted # Refused /\ Accepted # Garbled /\ Accepted # Unreachable /\ Accepted # Stale
  /\ Stale # Refused /\ Stale # Garbled /\ Stale # Unreachable
  /\ Accepted.status = "sent" /\ Refused.status = "rejected"
  /\ Garbled.status = "failed" /\ Unreachable.status = "failed" /\ Stale.status = "failed"
BY DEF Accepted, Refused, Garbled, Unreachable, Stale, Result

\* A dropped component that is counted or has a code always warns, and what a response
\* without a warning names by a code is known noise, with no notice that noise does not
\* explain (_map_state, _warning_codes).
LEMMA WarningFacts ==
  ASSUME NEW info \in Info
  PROVE  /\ info.ig > 0 => ComponentsDropped(info)
         /\ \A i \in info.items :
              i.errtype = "IGNORED" /\ i.errcode # None => ComponentsDropped(info)
         /\ ComponentsDropped(info) => HasWarnings(info)
         /\ ~HasWarnings(info) =>
              /\ info.ig = 0
              /\ \A i \in info.items : i.errtype = "CRITICAL" \/ i.errcode \in {Benign, None}
              /\ (info.state = "nt" \/ info.nt > 0) =>
                   \E i \in info.items : i.errtype = "NOTICE" /\ i.errcode = Benign
<1>1. /\ info.ig > 0 => ComponentsDropped(info)
      /\ \A i \in info.items :
           i.errtype = "IGNORED" /\ i.errcode # None => ComponentsDropped(info)
  BY DEF ComponentsDropped, HasIgnoredItem, Codes
<1>2. ComponentsDropped(info) => HasWarnings(info)
  BY DEF HasWarnings
<1>3. ASSUME ~HasWarnings(info)
      PROVE  /\ info.ig = 0
             /\ \A i \in info.items : i.errtype = "CRITICAL" \/ i.errcode \in {Benign, None}
             /\ (info.state = "nt" \/ info.nt > 0) =>
                  \E i \in info.items : i.errtype = "NOTICE" /\ i.errcode = Benign
  <2>1. info.ig \in 0..1 /\ \A i \in info.items : i.errtype \in {"IGNORED", "NOTICE", "CRITICAL"}
    BY DEF Info, Item
  <2>2. ~ComponentsDropped(info) /\ \A i \in Codes(info) : i.errcode = Benign
    BY <1>3 DEF HasWarnings
  <2>3. info.ig = 0 /\ \A i \in Codes(info) : i.errtype = "NOTICE"
    BY <2>1, <2>2 DEF ComponentsDropped, HasIgnoredItem, Codes
  <2>4. \A i \in info.items : i.errtype = "CRITICAL" \/ i.errcode \in {Benign, None}
    BY <2>1, <2>2 DEF Codes
  <2>5. ASSUME info.state = "nt" \/ info.nt > 0
        PROVE  \E i \in info.items : i.errtype = "NOTICE" /\ i.errcode = Benign
    <3>1. Codes(info) # {}
      BY <1>3, <2>5 DEF HasWarnings
    <3>2. PICK i \in Codes(info) : TRUE
      BY <3>1
    <3>3. QED
      BY <2>2, <2>3, <3>2 DEF Codes
  <2>6. QED
    BY <2>3, <2>4, <2>5
<1>4. QED
  BY <1>1, <1>2, <1>3

\* The state of the record: only "ok" and "nt" without a rejected component are accepted,
\* only the three states of a processed package settle it, and none of them means a
\* session that has expired (_map_state).
LEMMA MapStateFacts ==
  ASSUME NEW info \in Info
  PROVE  \/ /\ info.state \in {"ok", "nt"} /\ info.er = 0
            /\ MapState(info) = Verdict(Accepted, HasWarnings(info), ComponentsDropped(info))
         \/ info.state \in {"ok", "nt", "er"} /\ MapState(info) = Refusal(info)
         \/ MapState(info) = Silent(Unreachable)
         \/ MapState(info) = Silent(Garbled)
<1>1. info.er \in 0..1
  BY DEF Info
<1>2. CASE info.state \in {"ok", "nt"} /\ info.er > 0
  BY <1>2 DEF MapState
<1>3. CASE info.state \in {"ok", "nt"} /\ info.er = 0
  BY <1>3 DEF MapState
<1>4. CASE info.state = "er"
  BY <1>4 DEF MapState
<1>5. CASE info.state = "sy"
  BY <1>5 DEF MapState
<1>6. CASE info.state \notin {"ok", "nt", "er", "sy"}
  BY <1>6 DEF MapState
<1>7. QED
  BY <1>1, <1>2, <1>3, <1>4, <1>5, <1>6

\* The response: the state of the record decides under 200, unless the errcode is that of
\* an expired session, and under 400; everything else is a verdict without flags, and
\* beside 200 it is a stale session only for 401 and 403 (_interpret_response).
LEMMA InterpretFacts ==
  ASSUME NEW r \in Response
  PROVE  \/ r.http \in {200, 400} /\ InterpretResponse(r) = MapState(r.info)
         \/ /\ r.http \in {401, 403} \/ (r.http = 200 /\ SessionErrcode(r))
            /\ InterpretResponse(r) = Silent(Stale)
         \/ r.http >= 500 /\ InterpretResponse(r) = Silent(Unreachable)
         \/ r.http < 500 /\ InterpretResponse(r) = Silent(Garbled)
<1>1. r.http \in {200, 400, 401, 403, 500}
  BY DEF Response, Http
<1>2. CASE r.http \in {401, 403}
  <2>1. CASE r.http = 401
    BY <2>1 DEF InterpretResponse, StateUnder400
  <2>2. CASE r.http = 403
    BY <2>2 DEF InterpretResponse, StateUnder400
  <2>3. QED
    BY <1>2, <2>1, <2>2
<1>3. CASE r.http = 200 /\ r.body # "noJson" /\ SessionErrcode(r)
  BY <1>3 DEF InterpretResponse, StateUnder400
<1>4. CASE r.http = 200 /\ r.body # "noJson" /\ ~SessionErrcode(r)
  BY <1>4 DEF InterpretResponse, StateUnder400
<1>5. CASE r.http = 400 /\ r.body # "noJson" /\ r.info.state # None
  BY <1>5 DEF InterpretResponse, StateUnder400
<1>6. CASE r.http = 500
  BY <1>6 DEF InterpretResponse, StateUnder400
<1>7. CASE /\ r.http \in {200, 400}
           /\ r.body = "noJson" \/ (r.http = 400 /\ r.info.state = None)
  BY <1>7 DEF InterpretResponse, StateUnder400
<1>8. QED
  BY <1>1, <1>2, <1>3, <1>4, <1>5, <1>6, <1>7

-----------------------------------------------------------------------------
\* The verdict of any response meets what the runs check of it.
LEMMA VerdictFacts ==
  ASSUME resp \in Response, verdict = <<InterpretResponse(resp)>>
  PROVE  VerdictIsBureauResult /\ DataLossIsSignalled /\ QuietMeansClean /\ SettledOnlyByState
<1>1. /\ resp.info \in Info /\ verdict # <<>>
      /\ verdict[1] = InterpretResponse(resp) /\ Outcome = InterpretResponse(resp).result
  BY DEF Response, Outcome
<1>2. CASE resp.http \in {200, 400} /\ InterpretResponse(resp) = MapState(resp.info)
  <2>1. resp.http \notin {401, 403} /\ ~(resp.http >= 500)
    BY <1>2
  <2>2. CASE /\ resp.info.state \in {"ok", "nt"} /\ resp.info.er = 0
             /\ MapState(resp.info) = Verdict(Accepted, HasWarnings(resp.info),
                                              ComponentsDropped(resp.info))
    <3>1. /\ Outcome = Accepted
          /\ verdict[1].hasWarnings = HasWarnings(resp.info)
          /\ verdict[1].componentsDropped = ComponentsDropped(resp.info)
      BY <1>1, <1>2, <2>2 DEF Verdict
    <3>2. VerdictIsBureauResult
      BY <3>1 DEF VerdictIsBureauResult, BureauResults
    <3>3. DataLossIsSignalled
      BY <1>1, <3>1, WarningFacts DEF DataLossIsSignalled
    <3>4. QuietMeansClean
      BY <1>1, <2>2, <3>1, WarningFacts DEF QuietMeansClean
    <3>5. SettledOnlyByState
      BY <1>2, <2>1, <2>2, <3>1, ResultFacts DEF SettledOnlyByState
    <3>6. QED
      BY <3>2, <3>3, <3>4, <3>5
  <2>3. CASE /\ resp.info.state \in {"ok", "nt", "er"}
             /\ MapState(resp.info) = Refusal(resp.info)
    <3>1. Outcome = Refused
      BY <1>1, <1>2, <2>3 DEF Refusal, Verdict
    <3>2. QED
      BY <1>2, <2>1, <2>3, <3>1, ResultFacts DEF VerdictIsBureauResult, BureauResults,
         DataLossIsSignalled, QuietMeansClean, SettledOnlyByState
  <2>4. CASE \/ MapState(resp.info) = Silent(Unreachable)
             \/ MapState(resp.info) = Silent(Garbled)
    <3>1. Outcome \in {Unreachable, Garbled}
      BY <1>1, <1>2, <2>4 DEF Silent, Verdict
    <3>2. QED
      BY <2>1, <3>1, ResultFacts DEF VerdictIsBureauResult, BureauResults,
         DataLossIsSignalled, QuietMeansClean, SettledOnlyByState, Terminal
  <2>5. QED
    BY <1>1, <2>2, <2>3, <2>4, MapStateFacts
<1>3. CASE /\ resp.http \in {401, 403} \/ (resp.http = 200 /\ SessionErrcode(resp))
           /\ InterpretResponse(resp) = Silent(Stale)
  <2>1. Outcome = Stale
    BY <1>1, <1>3 DEF Silent, Verdict
  <2>2. \/ resp.http \in {401, 403}
        \/ /\ resp.http = 200
           /\ \/ resp.info.main = SessionErr
              \/ resp.info.main = None /\ resp.errcode = SessionErr
    BY <1>3 DEF SessionErrcode
  <2>3. ~(resp.http >= 500)
    BY <1>3
  <2>4. QED
    BY <2>1, <2>2, <2>3, ResultFacts DEF VerdictIsBureauResult, BureauResults,
       DataLossIsSignalled, QuietMeansClean, SettledOnlyByState, Terminal
<1>4. CASE resp.http >= 500 /\ InterpretResponse(resp) = Silent(Unreachable)
  <2>1. Outcome = Unreachable
    BY <1>1, <1>4 DEF Silent, Verdict
  <2>2. QED
    BY <2>1, ResultFacts DEF VerdictIsBureauResult, BureauResults,
       DataLossIsSignalled, QuietMeansClean, SettledOnlyByState, Terminal
<1>5. CASE resp.http < 500 /\ InterpretResponse(resp) = Silent(Garbled)
  <2>1. Outcome = Garbled /\ ~(resp.http >= 500)
    <3>1. resp.http \in Nat
      BY DEF Response, Http
    <3>2. QED
      BY <1>1, <1>5, <3>1 DEF Silent, Verdict
  <2>2. QED
    BY <2>1, ResultFacts DEF VerdictIsBureauResult, BureauResults,
       DataLossIsSignalled, QuietMeansClean, SettledOnlyByState, Terminal
<1>6. QED
  BY <1>2, <1>3, <1>4, <1>5, InterpretFacts

\* A response is interpreted once, as it was received.
THEOREM Interpretation == ResponseSpec => []ResponseInv
<1>1. Received => ResponseInv
  BY DEF Received, ResponseInv
<1>2. ResponseInv /\ [Interpret]_<<resp, verdict>> => ResponseInv'
  BY DEF ResponseInv, Interpret
<1>3. QED
  BY <1>1, <1>2, PTL DEF ResponseSpec

\* Every verdict is one of the five results the pass is modelled with (_interpret_response).
THEOREM VerdictsAreBureauResults == ResponseSpec => []VerdictIsBureauResult
<1>1. ResponseInv => VerdictIsBureauResult
  BY VerdictFacts DEF ResponseInv, VerdictIsBureauResult, Interpreted
<1>2. QED
  BY <1>1, Interpretation, PTL

\* Data loss that is counted or has a code never goes unnoticed (_map_state,
\* components_dropped).
THEOREM DataLossIsNoticed == ResponseSpec => []DataLossIsSignalled
<1>1. ResponseInv => DataLossIsSignalled
  BY VerdictFacts DEF ResponseInv, DataLossIsSignalled, Interpreted
<1>2. QED
  BY <1>1, Interpretation, PTL

\* An accepted record without a warning has no ignored or rejected component counted, no
\* item named by an errcode but known noise, and no notice that noise does not explain;
\* of items without an errcode silence says nothing (the has_warnings expression).
THEOREM SilenceIsEarned == ResponseSpec => []QuietMeansClean
<1>1. ResponseInv => QuietMeansClean
  BY VerdictFacts DEF ResponseInv, QuietMeansClean, Interpreted
<1>2. QED
  BY <1>1, Interpretation, PTL

\* A record is settled on the word of the bureau about that record only, a 5xx counts toward
\* the abort, and only a session error is taken for one (_interpret_response).
THEOREM SettledByState == ResponseSpec => []SettledOnlyByState
<1>1. ResponseInv => SettledOnlyByState
  BY VerdictFacts DEF ResponseInv, SettledOnlyByState, Interpreted
<1>2. QED
  BY <1>1, Interpretation, PTL
\* The converse: each of the five results is that of some response, so that a pass is modelled
\* with no answer the classification cannot give (_interpret_response).
THEOREM EveryResultOccurs ==
  \A result \in BureauResults :
     \E r \in Response : WellFormed(r) /\ InterpretResponse(r).result = result
<1> DEFINE Of(http, state) == [http |-> http, body |-> "flat", errcode |-> None,
                               info |-> [main |-> None, state |-> state, er |-> 0, ig |-> 0,
                                         nt |-> 0, items |-> {}]]
<1>1. \A http \in Http, state \in State :
         Of(http, state) \in Response /\ WellFormed(Of(http, state))
  BY DEF Response, Body, Errcode, Info, WellFormed
<1>2. /\ {200, 401, 500} \subseteq Http /\ {"ok", "er", "sy", "other"} \subseteq State
      /\ \A state \in State : ~SessionErrcode(Of(200, state))
  BY ResponseAssumption DEF Http, State, SessionErrcode
<1>3. InterpretResponse(Of(200, "ok")).result = Accepted
  <2>1. InterpretResponse(Of(200, "ok")) = MapState(Of(200, "ok").info)
    BY <1>2 DEF InterpretResponse, StateUnder400
  <2>2. QED
    BY <2>1 DEF MapState, Verdict
<1>4. InterpretResponse(Of(200, "er")).result = Refused
  <2>1. InterpretResponse(Of(200, "er")) = MapState(Of(200, "er").info)
    BY <1>2 DEF InterpretResponse, StateUnder400
  <2>2. QED
    BY <2>1 DEF MapState, Refusal, Verdict
<1>5. InterpretResponse(Of(200, "other")).result = Garbled
  <2>1. InterpretResponse(Of(200, "other")) = MapState(Of(200, "other").info)
    BY <1>2 DEF InterpretResponse, StateUnder400
  <2>2. QED
    BY <2>1 DEF MapState, Silent, Verdict
<1>6. InterpretResponse(Of(500, "ok")).result = Unreachable
  BY DEF InterpretResponse, StateUnder400, Silent, Verdict
<1>7. InterpretResponse(Of(401, "ok")).result = Stale
  BY DEF InterpretResponse, StateUnder400, Silent, Verdict
<1>8. QED
  BY <1>1, <1>2, <1>3, <1>4, <1>5, <1>6, <1>7 DEF BureauResults
=============================================================================
