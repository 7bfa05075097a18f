---------------------------- MODULE RateLimiter ----------------------------
(***************************************************************************)
(* RateLimiter of app/ratelimit.py under the worker threads of send_one.   *)
(* Time is counted in ticks and one slot interval is Interval ticks, so a  *)
(* second is Rate * Interval ticks.  A worker reserves a slot under the    *)
(* lock, sleeps outside it, and starts its request when the scheduler lets *)
(* it run: at its slot or up to MaxDelay ticks later.                      *)
(***************************************************************************)
EXTENDS Integers, FiniteSets

CONSTANTS
  Workers,      \* threads of the pool
  Rate,         \* starts per second (config.ubki_max_rps)
  Interval,     \* ticks between two slots
  MaxDelay,     \* how late the scheduler runs a thread whose sleep is over
  MaxTime       \* bound on the clock

ASSUME RateAssumption ==
  /\ IsFiniteSet(Workers)
  /\ Rate \in Nat \ {0} /\ Interval \in Nat \ {0}
  /\ MaxDelay \in Nat /\ MaxTime \in Nat

VARIABLES
  now,          \* time.monotonic
  nextSlot,     \* _next_slot
  slot,         \* the slot each sleeping worker holds
  asleep,       \* workers between the reservation and the start
  starts,       \* history: the requests started, by whom, for which slot, when
  late          \* history: the greatest delay of a start behind its slot

vars == <<now, nextSlot, slot, asleep, starts, late>>

TypeOK ==
  /\ now \in 0..MaxTime
  /\ nextSlot \in Nat
  /\ slot \in [Workers -> Nat]
  /\ asleep \subseteq Workers
  /\ starts \subseteq [by : Workers, slot : Nat, at : Nat]
  /\ late \in 0..MaxDelay

Init ==
  /\ now = 0
  /\ nextSlot = 0
  /\ slot = [w \in Workers |-> 0]
  /\ asleep = {}
  /\ starts = {}
  /\ late = 0

\* Mutant: slots missed while idle are used up later.
SlotSaved == nextSlot

\* max(now, _next_slot)
FreeSlot == IF nextSlot > now THEN nextSlot ELSE now

\* The critical section of acquire.
Reserve(w) ==
  /\ w \notin asleep
  /\ slot' = [slot EXCEPT ![w] = FreeSlot]
  /\ nextSlot' = FreeSlot + Interval
  /\ asleep' = asleep \cup {w}
  /\ UNCHANGED <<now, starts, late>>

\* The rest of acquire: sleep never returns early, and the request starts.
StartRequest(w) ==
  /\ w \in asleep
  /\ now >= slot[w]
  /\ asleep' = asleep \ {w}
  /\ slot' = [slot EXCEPT ![w] = 0]
  /\ starts' = starts \cup {[by |-> w, slot |-> slot[w], at |-> now]}
  /\ late' = IF now - slot[w] > late THEN now - slot[w] ELSE late
  /\ UNCHANGED <<now, nextSlot>>

\* External: time passes, but no thread is kept from running for longer than
\* MaxDelay.
Tick ==
  /\ now < MaxTime
  /\ \A w \in asleep : now < slot[w] + MaxDelay
  /\ now' = now + 1
  /\ UNCHANGED <<nextSlot, slot, asleep, starts, late>>

Next == Tick \/ \E w \in Workers : Reserve(w) \/ StartRequest(w)

Spec == Init /\ [][Next]_vars
-----------------------------------------------------------------------------
Second == Rate * Interval
StartsIn(from, to) == {x \in starts : x.at \in from..to}

\* Slots a window gains when starts drift to the right by at most `late`.
LateSlots == (late + Interval - 1) \div Interval

\* app/ratelimit.py:7 promises that even spacing "never lets more than `rate`
\* starts happen in any one-second window, whatever the worker-pool size".  So
\* it is while every start is on time; otherwise a second gains one start for
\* every slot the greatest delay spans, and never more than one for every thread
\* of the pool.
PacedUpToDelay ==
  \A t \in 0..MaxTime :
     LET count == Cardinality(StartsIn(t, t + Second - 1))
     IN  count <= Rate + LateSlots /\ count <= Rate + Cardinality(Workers)
=============================================================================
