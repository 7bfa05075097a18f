---------------------------- MODULE SessionProofs ----------------------------
(***************************************************************************)
(* The safety of the session store for any number of days and crashes: a   *)
(* stored session passes for one of a later day only if a save straddled   *)
(* midnight, no client authenticates without a reason, and none resends    *)
(* with the refused session still in the store.                            *)
(*                                                                         *)
(* The argument: between the two commits of a saver its session, and any   *)
(* that another saver has put over it, is at least as young as the date    *)
(* that will be committed next; and while no reason to authenticate is     *)
(* known, the store is complete and of today, or the client is saving. And *)
(* a saver's session is a new one until its first commit, so that neither  *)
(* commits the refused one again.                                          *)
(***************************************************************************)
EXTENDS SessionStore, WellFoundedInduction, TLAPS

\* Sessions in use were issued, and not in the future.
HeldInv ==
  /\ cli.pc # "idle" => cli.sess # None
  /\ \A s \in Held : issued[s] \in 0..today
  /\ store.date # None => store.date <= today

\* A saver is half way: what is stored is not older than what it has stored.
YoungerStored(saver) ==
  saver.pc = "save2" =>
     store.sess # None /\ (~straddled => issued[store.sess] >= issued[saver.sess])

DateInv ==
  /\ YoungerStored(client) /\ YoungerStored(cli)
  /\ OldSessionNeedsMidnight

StoreIsOfToday == store.sess # None /\ store.date = today

\* The flag is down: the store will do, or the client is about to make it so.
ReasonInv ==
  /\ AuthNeedsReason
  /\ ~reason => client.pc \in {"save1", "save2"} \/ StoreIsOfToday

\* Until its first commit a saver's session is in no other hands, and only who
\* authenticates after a refusal remembers one.
RefusalInv ==
  /\ cli.pc = "save1" => cli.sess \notin {store.sess, client.sess, client.refused}
  /\ client.pc = "save1" => client.sess # client.refused
  /\ client.pc \in {"record", "load", "read"} => client.refused = None
  /\ RefusedSessionIsReplaced

SessInv == TypeOK /\ HeldInv /\ DateInv /\ ReasonInv /\ RefusalInv

-----------------------------------------------------------------------------
\* A set of numbers has a least member.
LEMMA LeastExists ==
  ASSUME NEW T, T \subseteq Nat, T # {}
  PROVE  \E x \in T : \A y \in T : x <= y
<1> DEFINE R == {ss \in Nat \X Nat : ss[1] < ss[2]}
<1>1. IsWellFoundedOn(R, Nat)
  BY NatLessThanWellFounded DEF OpToRel
<1>2. PICK x \in T : \A y \in T : <<y, x>> \notin R
  BY <1>1, WFMin
<1>3. ASSUME NEW y \in T
      PROVE  x <= y
  <2>1. x \in Nat /\ y \in Nat
    OBVIOUS
  <2>2. ~(y < x)
    BY <1>2, <2>1
  <2>3. QED
    BY <2>1, <2>2
<1>4. QED
  BY <1>3

\* A new session is one that nobody holds.
LEMMA FreshFacts ==
  ASSUME TypeOK
  PROVE  Fresh \in Sessions /\ Fresh \notin Held
<1> DEFINE T == Sessions \ Held
<1>1. T \subseteq Nat /\ T # {}
  <2>1. Sessions \ {store.sess, client.sess, client.refused, cli.sess} # {}
    <3>1. {store.sess, client.sess, client.refused, cli.sess} \subseteq Sessions \cup {None}
      BY DEF TypeOK
    <3>2. \A a, b, c, d \in Sessions \cup {None} : Sessions \ {a, b, c, d} # {}
      BY SessionAssumption
    <3>3. QED
      BY <3>1, <3>2
  <2>2. QED
    BY <2>1, SessionAssumption DEF Held
<1>2. \E x \in T : \A y \in T : x <= y
  BY <1>1, LeastExists
<1>3. Fresh \in T
  BY <1>2 DEF Fresh, Min
<1>4. QED
  BY <1>3

\* The bureau issues a session: those in use keep their day.
LEMMA IssueFacts ==
  ASSUME TypeOK, NEW day \in Day, Issue(Fresh, day)
  PROVE  /\ issued' \in [Sessions -> Day \cup {None}] /\ killed' \subseteq Sessions
         /\ issued'[Fresh] = day
         /\ \A s \in Held : issued'[s] = issued[s]
<1>1. Fresh \in Sessions /\ Fresh \notin Held /\ Held \subseteq Sessions
  BY FreshFacts DEF TypeOK, Held
<1>2. QED
  BY <1>1 DEF Issue, TypeOK

\* The two commits of DbSessionStore.save.
LEMMA PutFacts ==
  ASSUME TypeOK, NEW s
  PROVE  /\ Put(1, s) => store' = [sess |-> s, date |-> store.date]
         /\ Put(2, s) => store' = [sess |-> store.sess, date |-> today]
BY DEF Put, SaveOrder, TypeOK

\* The fields of the client and of set_session stay what they are.
LEMMA TypeStep ==
  ASSUME TypeOK, HeldInv, [Next]_vars
  PROVE  TypeOK'
<1> USE SessionAssumption DEF Day, ClientPc
<1>1. CASE UNCHANGED vars
  BY <1>1 DEF TypeOK, vars
<1>2. ASSUME NEW kind \in {"pass", "sequential"}, Start(kind)
      PROVE  TypeOK'
  BY <1>2 DEF TypeOK, Start, Idle
<1>3. CASE ReadDate
  BY <1>3 DEF TypeOK, ReadDate
<1>4. CASE ReadSessid
  BY <1>4 DEF TypeOK, ReadSessid
<1>5. CASE Ensure
  BY <1>5 DEF TypeOK, Ensure
<1>6. CASE AuthOk
  <2>1. Fresh \in Sessions
    BY FreshFacts
  <2>2. issued' \in [Sessions -> Day \cup {None}] /\ killed' \subseteq Sessions
    BY <1>6, IssueFacts DEF AuthOk, TypeOK
  <2>3. QED
    BY <1>6, <2>1, <2>2 DEF TypeOK, AuthOk
<1>7. CASE AuthFails
  BY <1>7 DEF TypeOK, AuthFails, Idle, NextRecord
<1>8. CASE Save
  <2>1. client.sess \in Sessions
    BY <1>8 DEF Save, TypeOK
  <2>2. store' \in [sess : Sessions \cup {None}, date : Day \cup {None}] /\ straddled' \in BOOLEAN
    BY <1>8, <2>1, PutFacts DEF Save, TypeOK, Put
  <2>3. QED
    BY <1>8, <2>1, <2>2 DEF TypeOK, Save
<1>9. CASE Served
  BY <1>9 DEF TypeOK, Served, Idle, NextRecord
<1>10. CASE Reauth
  BY <1>10 DEF TypeOK, Reauth
<1>11. CASE AbortOnStale \/ GiveUp
  BY <1>11 DEF TypeOK, AbortOnStale, GiveUp, Idle, NextRecord
<1>12. CASE Stop
  BY <1>12 DEF TypeOK, Stop, Idle
<1>13. CASE Crash
  <2>1. faults' \in 0..MaxFaults
    BY <1>13 DEF TypeOK, Crash
  <2>2. reason' \in BOOLEAN
    BY <1>13, Zenon DEF Crash
  <2>3. client' \in [pc : ClientPc, kind : {"pass", "sequential"},
                    sess : Sessions \cup {None}, refused : Sessions \cup {None}]
        /\ client'.pc = "idle"
    BY <1>13 DEF TypeOK, Crash, Idle
  <2>4. QED
    BY <1>13, <2>1, <2>2, <2>3 DEF TypeOK, Crash
<1>14. CASE CliStart
  <2>1. Fresh \in Sessions
    BY FreshFacts
  <2>2. issued' \in [Sessions -> Day \cup {None}] /\ killed' \subseteq Sessions
    BY <1>14, IssueFacts DEF CliStart
  <2>3. QED
    BY <1>14, <2>1, <2>2 DEF TypeOK, CliStart
<1>15. CASE CliSave
  <2>1. cli.sess \in Sessions
    BY <1>15 DEF CliSave, TypeOK, HeldInv
  <2>2. store' \in [sess : Sessions \cup {None}, date : Day \cup {None}] /\ straddled' \in BOOLEAN
    BY <1>15, <2>1, PutFacts DEF CliSave, TypeOK, Put
  <2>3. cli' \in [pc : {"idle", "save1", "save2"}, sess : Sessions \cup {None}]
    <3>1. cli' = [cli EXCEPT !.pc = "save2"] \/ cli' = [pc |-> "idle", sess |-> None]
      BY <1>15 DEF CliSave
    <3>2. cli \in [pc : {"idle", "save1", "save2"}, sess : Sessions \cup {None}]
      BY DEF TypeOK
    <3>3. CASE cli' = [cli EXCEPT !.pc = "save2"]
      BY <3>2, <3>3
    <3>4. CASE cli' = [pc |-> "idle", sess |-> None]
      BY <3>4
    <3>5. QED
      BY <3>1, <3>3, <3>4
  <2>4. reason' \in BOOLEAN
    BY <1>15, Zenon DEF TypeOK, CliSave
  <2>5. QED
    BY <1>15, <2>2, <2>3, <2>4 DEF TypeOK, CliSave
<1>16. CASE CliCrash
  BY <1>16 DEF TypeOK, CliCrash
<1>17. CASE Kill
  BY <1>17 DEF TypeOK, Kill, Held
<1>18. CASE Midnight
  BY <1>18 DEF TypeOK, Midnight
<1>19. QED
  BY <1>1, <1>2, <1>3, <1>4, <1>5, <1>6, <1>7, <1>8, <1>9, <1>10, <1>11, <1>12, <1>13, <1>14,
     <1>15, <1>16, <1>17, <1>18 DEF Next, ClientNext

-----------------------------------------------------------------------------
\* A step that issues no session: what is held was held before.
Moves == UNCHANGED issued /\ Held' \subseteq Held

\* A step that issues one, of this day or the one before it.
Issues(day) == day \in 0..today /\ Issue(Fresh, day) /\ Held' \subseteq Held \cup {Fresh}

\* Every step is one or the other.
LEMMA HeldStep ==
  ASSUME TypeOK, HeldInv, Next
  PROVE  Moves \/ \E day \in Day : Issues(day)
<1>1. CASE AuthOk
  <2>1. today \in 0..today /\ today \in Day
    BY SessionAssumption DEF TypeOK, Day
  <2>2. Held' \subseteq Held \cup {Fresh}
    BY <1>1 DEF AuthOk, Held, TypeOK
  <2>3. QED
    BY <1>1, <2>1, <2>2 DEF AuthOk, Issues
<1>2. CASE CliStart
  <2>1. PICK day \in {today, today - 1} \cap Day : Issue(Fresh, day)
    BY <1>2 DEF CliStart
  <2>2. day \in 0..today
    BY SessionAssumption DEF TypeOK, Day
  <2>3. Held' \subseteq Held \cup {Fresh}
    BY <1>2 DEF CliStart, Held, TypeOK
  <2>4. QED
    BY <2>1, <2>2, <2>3 DEF Issues
<1>3. ASSUME Save \/ CliSave
      PROVE  Moves
  <2>1. UNCHANGED issued
    BY <1>3 DEF Save, CliSave
  <2>2. CASE Save
    <3>1. client'.sess = client.sess /\ client'.refused = client.refused /\ cli' = cli
      BY <2>2 DEF Save, TypeOK
    <3>2. store'.sess \in {store.sess, client.sess}
      BY <2>2, PutFacts DEF Save
    <3>3. QED
      BY <2>1, <3>1, <3>2 DEF Moves, Held
  <2>3. CASE CliSave
    <3>1. cli'.sess \in {cli.sess, None} /\ client' = client
      BY <2>3 DEF CliSave, TypeOK
    <3>2. store'.sess \in {store.sess, cli.sess}
      BY <2>3, PutFacts DEF CliSave
    <3>3. QED
      BY <2>1, <3>1, <3>2 DEF Moves, Held
  <2>4. QED
    BY <1>3, <2>2, <2>3
<1>4. ASSUME NEW kind \in {"pass", "sequential"}, Start(kind)
      PROVE  Moves
  BY <1>4 DEF Moves, Start, Idle, Held, TypeOK
<1>5. ASSUME ReadDate \/ ReadSessid \/ Ensure
      PROVE  Moves
  BY <1>5 DEF Moves, ReadDate, ReadSessid, Ensure, Held, TypeOK
<1>6. ASSUME AuthFails \/ Served \/ Stop \/ Crash
      PROVE  Moves
  BY <1>6 DEF Moves, AuthFails, Served, Stop, Crash, Idle, NextRecord, Held, TypeOK
<1>7. ASSUME Reauth \/ AbortOnStale \/ GiveUp
      PROVE  Moves
  BY <1>7 DEF Moves, Reauth, AbortOnStale, GiveUp, Idle, NextRecord, Held, TypeOK
<1>8. ASSUME CliCrash \/ Kill \/ Midnight
      PROVE  Moves
  BY <1>8 DEF Moves, CliCrash, Kill, Midnight, Held, TypeOK
<1>9. QED
  BY <1>1, <1>2, <1>3, <1>4, <1>5, <1>6, <1>7, <1>8 DEF Next, ClientNext

-----------------------------------------------------------------------------
\* Where the calendar and the bureau stand.
LEMMA DayFacts ==
  ASSUME TypeOK
  PROVE  /\ today \in 0..MaxDay /\ MaxDay \in Nat
         /\ Held \subseteq Sessions
         /\ \A s \in Held : s \in Nat /\ s # None
BY SessionAssumption DEF TypeOK, Day, Held

\* The sessions in use stay issued, and none of a later day appears.
LEMMA HeldInvStep ==
  ASSUME TypeOK, HeldInv, Next
  PROVE  HeldInv'
<1>1. today \in Nat /\ today' \in Nat /\ today <= today'
  <2>1. CASE Midnight
    BY <2>1, DayFacts DEF Midnight
  <2>2. CASE ~Midnight
    BY <2>2, DayFacts DEF Next, ClientNext, Start, ReadDate, ReadSessid, Ensure, AuthOk,
       AuthFails, Save, Served, Reauth, AbortOnStale, GiveUp, Stop, Crash, CliStart, CliSave, CliCrash, Kill
  <2>3. QED
    BY <2>1, <2>2
<1>2. \A s \in Held' : issued'[s] \in 0..today
  <2>1. CASE Moves
    BY <2>1 DEF Moves, HeldInv
  <2>2. ASSUME NEW day \in Day, Issues(day)
        PROVE  \A s \in Held' : issued'[s] \in 0..today
    BY <2>2, IssueFacts DEF Issues, HeldInv
  <2>3. QED
    BY <2>1, <2>2, HeldStep
<1>3. \A s \in Held' : issued'[s] \in 0..today'
  BY <1>1, <1>2
<1>4. cli'.pc # "idle" => cli'.sess # None
  <2>1. CASE CliStart
    <3>1. cli'.sess = Fresh
      BY <2>1 DEF CliStart
    <3>2. QED
      BY <3>1, FreshFacts, SessionAssumption
  <2>2. CASE CliSave
    BY <2>2 DEF CliSave, HeldInv, TypeOK
  <2>3. CASE CliCrash
    BY <2>3 DEF CliCrash
  <2>4. CASE UNCHANGED cli
    BY <2>4 DEF HeldInv
  <2>5. QED
    BY <2>1, <2>2, <2>3, <2>4 DEF Next, ClientNext, Start, ReadDate, ReadSessid, Ensure, AuthOk,
       AuthFails, Save, Served, Reauth, AbortOnStale, GiveUp, Stop, Crash, Kill, Midnight
<1>5. store'.date # None => store'.date <= today'
  <2>1. CASE Save \/ CliSave
    <3>1. store'.date \in {store.date, today}
      BY <2>1, PutFacts DEF Save, CliSave, TypeOK
    <3>2. today <= today
      BY <1>1
    <3>3. today' = today
      BY <2>1 DEF Save, CliSave
    <3>4. QED
      BY <3>1, <3>2, <3>3 DEF HeldInv
  <2>2. CASE UNCHANGED store
    <3>1. store.date \in Day \cup {None}
      BY DEF TypeOK
    <3>2. QED
      BY <1>1, <2>2, <3>1 DEF HeldInv, Day
  <2>3. QED
    BY <2>1, <2>2 DEF Next, ClientNext, Start, ReadDate, ReadSessid, Ensure, AuthOk,
       AuthFails, Served, Reauth, AbortOnStale, GiveUp, Stop, Crash, CliStart, CliCrash, Kill, Midnight
<1>6. QED
  BY <1>3, <1>4, <1>5 DEF HeldInv

-----------------------------------------------------------------------------
\* The first commit: the stored session is as young as any in use, or a save straddled
\* midnight, and so is its date's.
LEMMA PutSessid ==
  ASSUME TypeOK, HeldInv, NEW s \in Held, Put(1, s), UNCHANGED issued
  PROVE  /\ store'.sess = s /\ store'.date = store.date /\ s # None
         /\ ~straddled' => ~straddled /\ \A x \in Held : issued'[s] >= issued[x]
         /\ OldSessionNeedsMidnight'
<1>1. store'.sess = s /\ store'.date = store.date /\ s # None
  BY PutFacts, DayFacts
<1>2. straddled' = (straddled \/ issued[s] # today)
  BY DEF Put
<1>3. ASSUME ~straddled'
      PROVE  ~straddled /\ issued[s] = today
  BY <1>2, <1>3
<1>4. \A x \in Held : issued[x] \in Int /\ issued[x] <= today
  BY DayFacts DEF HeldInv
<1>5. ~straddled' => \A x \in Held : issued'[s] >= issued[x]
  BY <1>3, <1>4, DayFacts
<1>6. OldSessionNeedsMidnight'
  <2>1. SUFFICES ASSUME store.date # None, ~straddled'
                 PROVE  issued[s] >= store.date
    BY <1>1 DEF OldSessionNeedsMidnight
  <2>2. store.date \in Int /\ store.date <= today
    BY <2>1 DEF TypeOK, HeldInv, Day
  <2>3. QED
    BY <1>3, <2>1, <2>2, DayFacts
<1>7. QED
  BY <1>1, <1>3, <1>5, <1>6

\* The second commit: by then the stored session is as young as the saver's, which is of
\* the day that is committed, or a save straddled midnight.
LEMMA PutDate ==
  ASSUME TypeOK, HeldInv, NEW saver, saver.sess \in Held, saver.pc = "save2",
         YoungerStored(saver), Put(2, saver.sess), UNCHANGED issued
  PROVE  /\ store'.sess = store.sess /\ store'.date = today /\ store.sess # None
         /\ ~straddled' => ~straddled
         /\ OldSessionNeedsMidnight'
<1>1. store'.sess = store.sess /\ store'.date = today /\ store.sess # None
  BY PutFacts DEF YoungerStored
<1>2. straddled' = (straddled \/ issued[saver.sess] # today)
  BY DEF Put
<1>3. ASSUME ~straddled'
      PROVE  ~straddled /\ issued[saver.sess] = today
  BY <1>2, <1>3
<1>4. ASSUME ~straddled'
      PROVE  issued[store.sess] >= today
  BY <1>3, <1>4 DEF YoungerStored
<1>5. OldSessionNeedsMidnight'
  BY <1>1, <1>4 DEF OldSessionNeedsMidnight
<1>6. QED
  BY <1>1, <1>3, <1>5

\* What the savers and the store rely on, when neither commits.
LEMMA QuietDates ==
  ASSUME TypeOK, DateInv, UNCHANGED <<store, straddled>>,
         \A s \in Held : issued'[s] = issued[s],
         client' = client \/ client'.pc # "save2", cli' = cli \/ cli'.pc # "save2",
         HeldInv, client.pc = "save2" => client.sess # None
  PROVE  DateInv'
<1>1. OldSessionNeedsMidnight'
  BY DEF DateInv, OldSessionNeedsMidnight, Held
<1>2. YoungerStored(client)'
  BY DEF DateInv, YoungerStored, Held
<1>3. YoungerStored(cli)'
  BY DEF DateInv, YoungerStored, Held, HeldInv
<1>4. QED
  BY <1>1, <1>2, <1>3 DEF DateInv

\* No commit makes an old session pass for a younger one.
LEMMA DateInvStep ==
  ASSUME TypeOK, HeldInv, DateInv, Next
  PROVE  DateInv'
<1>1. CASE Save
  <2>1. /\ client.sess \in Held /\ UNCHANGED <<issued, cli>>
        /\ client' = [client EXCEPT !.pc = client'.pc] /\ client'.sess = client.sess
    BY <1>1 DEF Save, TypeOK, Held
  <2>2. CASE client.pc = "save1"
    <3>1. Put(1, client.sess)
      BY <1>1, <2>2 DEF Save
    <3>2. /\ store'.sess = client.sess /\ store'.sess # None
          /\ ~straddled' => ~straddled /\ \A x \in Held : issued'[store'.sess] >= issued[x]
          /\ OldSessionNeedsMidnight'
      BY <2>1, <3>1, PutSessid
    <3>3. YoungerStored(client)'
      BY <2>1, <3>2 DEF YoungerStored
    <3>4. YoungerStored(cli)'
      BY <2>1, <3>2 DEF YoungerStored, HeldInv, Held
    <3>5. QED
      BY <3>2, <3>3, <3>4 DEF DateInv
  <2>3. CASE client.pc = "save2"
    <3>1. Put(2, client.sess) /\ client'.pc = "send"
      BY <1>1, <2>3 DEF Save, TypeOK
    <3>2. /\ store'.sess = store.sess
          /\ ~straddled' => ~straddled
          /\ OldSessionNeedsMidnight'
      BY <2>1, <2>3, <3>1, PutDate DEF DateInv
    <3>3. YoungerStored(client)' /\ YoungerStored(cli)'
      BY <2>1, <3>1, <3>2 DEF YoungerStored, DateInv
    <3>4. QED
      BY <3>2, <3>3 DEF DateInv
  <2>4. QED
    BY <1>1, <2>2, <2>3 DEF Save
<1>2. CASE CliSave
  <2>1. UNCHANGED <<issued, client>>
    BY <1>2 DEF CliSave
  <2>2. CASE cli.pc = "save1"
    <3>1. /\ Put(1, cli.sess) /\ cli'.sess = cli.sess /\ cli.sess \in Held
      BY <1>2, <2>2 DEF CliSave, TypeOK, HeldInv, Held
    <3>2. /\ store'.sess = cli.sess /\ store'.sess # None
          /\ ~straddled' => ~straddled /\ \A x \in Held : issued'[store'.sess] >= issued[x]
          /\ OldSessionNeedsMidnight'
      BY <2>1, <3>1, PutSessid
    <3>3. YoungerStored(cli)'
      BY <2>1, <3>1, <3>2 DEF YoungerStored
    <3>4. YoungerStored(client)'
      <4>1. client.pc = "save2" => client.sess \in Held
        BY DEF TypeOK, Held
      <4>2. QED
        BY <2>1, <3>2, <4>1 DEF YoungerStored
    <3>5. QED
      BY <3>2, <3>3, <3>4 DEF DateInv
  <2>3. CASE cli.pc = "save2"
    <3>1. Put(2, cli.sess) /\ cli'.pc = "idle" /\ cli.sess \in Held
      BY <1>2, <2>3 DEF CliSave, HeldInv, Held
    <3>2. /\ store'.sess = store.sess
          /\ ~straddled' => ~straddled
          /\ OldSessionNeedsMidnight'
      BY <2>1, <2>3, <3>1, PutDate DEF DateInv
    <3>3. YoungerStored(client)' /\ YoungerStored(cli)'
      BY <2>1, <3>1, <3>2 DEF YoungerStored, DateInv
    <3>4. QED
      BY <3>2, <3>3 DEF DateInv
  <2>4. QED
    BY <1>2, <2>2, <2>3 DEF CliSave
<1>3. ASSUME ~Save, ~CliSave
      PROVE  DateInv'
  <2>1. \A s \in Held : issued'[s] = issued[s]
    BY HeldStep, IssueFacts DEF Moves, Issues
  <2>2. UNCHANGED <<store, straddled>>
    BY <1>3 DEF Next, ClientNext, Start, ReadDate, ReadSessid, Ensure, AuthOk,
       AuthFails, Served, Reauth, AbortOnStale, GiveUp, Stop, Crash, CliStart, CliCrash, Kill, Midnight
  <2>3. client' = client \/ client'.pc # "save2"
    <3>1. CASE UNCHANGED client
      BY <3>1
    <3>2. ASSUME NEW kind \in {"pass", "sequential"}, Start(kind)
          PROVE  client'.pc # "save2"
      BY <3>2 DEF Start, Idle, TypeOK
    <3>3. CASE ReadDate \/ ReadSessid \/ Ensure \/ AuthOk \/ Reauth
      BY <3>3 DEF ReadDate, ReadSessid, Ensure, AuthOk, Reauth, TypeOK
    <3>4. CASE AuthFails \/ Served \/ AbortOnStale \/ GiveUp \/ Stop \/ Crash
      BY <3>4 DEF AuthFails, Served, AbortOnStale, GiveUp, Stop, Crash, Idle, NextRecord, TypeOK
    <3>5. QED
      BY <1>3, <3>1, <3>2, <3>3, <3>4 DEF Next, ClientNext, CliStart, CliCrash, Kill, Midnight
  <2>4. cli' = cli \/ cli'.pc # "save2"
    BY <1>3 DEF Next, ClientNext, Start, ReadDate, ReadSessid, Ensure, AuthOk,
       AuthFails, Served, Reauth, AbortOnStale, GiveUp, Stop, Crash, CliStart, CliCrash, Kill, Midnight
  <2>5. client.pc = "save2" => client.sess # None
    BY DEF TypeOK
  <2>6. QED
    BY <2>1, <2>2, <2>3, <2>4, <2>5, QuietDates
<1>4. QED
  BY <1>1, <1>2, <1>3

-----------------------------------------------------------------------------
\* A client that looks at the store without a reason finds a session of the day there.
LEMMA ReasonStep ==
  ASSUME TypeOK, HeldInv, DateInv, ReasonInv, Next
  PROVE  ReasonInv'
<1> DEFINE Saving == client.pc \in {"save1", "save2"}
<1> DEFINE Goal == (client'.pc = "auth" => reason') /\ (~reason' => Saving' \/ StoreIsOfToday')
<1>0. SUFFICES Goal
  BY DEF ReasonInv, AuthNeedsReason
<1>1. ASSUME NEW kind \in {"pass", "sequential"}, Start(kind)
      PROVE  Goal
  BY <1>1 DEF Start, Idle, ReasonInv, StoreIsOfToday, TypeOK
<1>2. ASSUME ReadDate \/ ReadSessid \/ Ensure
      PROVE  Goal
  <2>1. ~reason => StoreIsOfToday
    BY <1>2 DEF ReasonInv, ReadDate, ReadSessid, Ensure
  <2>2. /\ UNCHANGED <<store, today, reason>>
        /\ client'.pc = "auth" => ~StoreIsOfToday
    BY <1>2 DEF ReadDate, ReadSessid, Ensure, StoreIsOfToday, TypeOK
  <2>3. QED
    BY <2>1, <2>2 DEF StoreIsOfToday
<1>3. ASSUME AuthOk
      PROVE  Goal
  BY <1>3 DEF AuthOk, TypeOK
<1>4. ASSUME Save
      PROVE  Goal
  <2>1. CASE client.pc = "save1"
    BY <1>4, <2>1 DEF Save, TypeOK
  <2>2. CASE client.pc = "save2"
    <3>1. Put(2, client.sess) /\ client'.pc = "send" /\ today' = today
      BY <1>4, <2>2 DEF Save, TypeOK
    <3>2. store'.date = today /\ store'.sess = store.sess /\ store.sess # None
      BY <2>2, <3>1, PutFacts DEF DateInv, YoungerStored
    <3>3. QED
      BY <3>1, <3>2 DEF StoreIsOfToday
  <2>3. QED
    BY <1>4, <2>1, <2>2 DEF Save
<1>5. ASSUME CliSave
      PROVE  Goal
  <2>1. client' = client /\ today' = today
    BY <1>5 DEF CliSave
  <2>2. CASE cli.pc = "save1"
    <3>1. /\ store'.date = store.date /\ store'.sess = cli.sess /\ reason' = reason
          /\ cli.sess # None
      BY <1>5, <2>2, PutFacts DEF CliSave, HeldInv
    <3>2. QED
      BY <2>1, <3>1 DEF ReasonInv, AuthNeedsReason, StoreIsOfToday
  <2>3. CASE cli.pc = "save2"
    <3>1. store'.date = today /\ store'.sess = store.sess /\ store.sess # None
      BY <1>5, <2>3, PutFacts DEF CliSave, DateInv, YoungerStored
    <3>2. reason' = (reason /\ client.pc # "idle")
      BY <1>5, <2>3 DEF CliSave
    <3>3. client.pc = "auth" => reason'
      BY <3>2 DEF ReasonInv, AuthNeedsReason
    <3>4. QED
      BY <2>1, <3>1, <3>3 DEF StoreIsOfToday
  <2>4. QED
    BY <1>5, <2>2, <2>3 DEF CliSave
<1>6. ASSUME AuthFails \/ Served \/ Stop \/ Kill
      PROVE  Goal
  <2>1. UNCHANGED <<store, today, reason>> /\ (client' = client \/ client'.pc # "auth")
    BY <1>6 DEF AuthFails, Served, Stop, Kill, Idle, NextRecord, TypeOK
  <2>2. ~reason => StoreIsOfToday \/ (client' = client /\ Saving)
    BY <1>6 DEF ReasonInv, AuthNeedsReason, AuthFails, Served, Stop, Kill
  <2>3. QED
    BY <2>1, <2>2 DEF StoreIsOfToday, ReasonInv, AuthNeedsReason
<1>7. ASSUME Reauth \/ AbortOnStale \/ GiveUp \/ Midnight
      PROVE  Goal
  BY <1>7 DEF Reauth, AbortOnStale, GiveUp, Midnight
<1>8. ASSUME Crash
      PROVE  Goal
  <2>1. /\ reason' = (reason \/ Saving) /\ UNCHANGED <<store, today>> /\ client'.pc = "idle"
    BY <1>8 DEF Crash, Idle, TypeOK
  <2>2. QED
    BY <2>1 DEF ReasonInv, StoreIsOfToday
<1>9. ASSUME CliStart \/ CliCrash
      PROVE  Goal
  BY <1>9 DEF CliStart, CliCrash, ReasonInv, AuthNeedsReason, StoreIsOfToday
<1>10. QED
  BY <1>1, <1>2, <1>3, <1>4, <1>5, <1>6, <1>7, <1>8, <1>9 DEF Next, ClientNext

-----------------------------------------------------------------------------
\* Neither saver brings the refused session back: what it commits is its own new one.
LEMMA RefusalStep ==
  ASSUME TypeOK, HeldInv, RefusalInv, Next
  PROVE  RefusalInv'
<1> USE DEF RefusalInv, RefusedSessionIsReplaced
<1>1. CASE AuthOk
  <2>1. Fresh \notin {client.refused, cli.sess} \ {None} /\ Fresh # None
    BY FreshFacts, DayFacts, SessionAssumption DEF Held
  <2>2. client' = [client EXCEPT !.sess = Fresh, !.pc = "save1"] /\ UNCHANGED <<store, cli>>
    BY <1>1 DEF AuthOk
  <2>3. client'.pc = "save1" /\ client'.sess = Fresh /\ client'.refused = client.refused
    BY <2>2 DEF TypeOK
  <2>4. cli.pc = "save1" => cli.sess # None
    BY DEF HeldInv
  <2>5. QED
    BY <2>1, <2>2, <2>3, <2>4
<1>2. CASE CliStart
  <2>1. Fresh \notin {store.sess, client.sess, client.refused} \ {None} /\ Fresh # None
    BY FreshFacts, SessionAssumption DEF Held
  <2>2. cli'.pc = "save1" /\ cli'.sess = Fresh /\ UNCHANGED <<store, client>>
    BY <1>2 DEF CliStart
  <2>3. QED
    BY <2>1, <2>2
<1>3. CASE Save
  <2>1. /\ client'.sess = client.sess /\ client'.refused = client.refused /\ cli' = cli
        /\ client'.pc \in {"save2", "send"} /\ client.pc \in {"save1", "save2"}
    BY <1>3 DEF Save, TypeOK
  <2>2. CASE client.pc = "save1"
    <3>1. store'.sess = client.sess
      BY <1>3, <2>2, PutFacts DEF Save
    <3>2. QED
      BY <2>1, <2>2, <3>1
  <2>3. CASE client.pc = "save2"
    <3>1. store'.sess = store.sess
      BY <1>3, <2>3, PutFacts DEF Save
    <3>2. QED
      BY <2>1, <2>3, <3>1
  <2>4. QED
    BY <2>1, <2>2, <2>3
<1>4. CASE CliSave
  <2>1. client' = client /\ cli'.pc # "save1" /\ cli.pc \in {"save1", "save2"}
    BY <1>4 DEF CliSave, TypeOK
  <2>2. CASE cli.pc = "save1"
    <3>1. store'.sess = cli.sess
      BY <1>4, <2>2, PutFacts DEF CliSave
    <3>2. QED
      BY <2>1, <2>2, <3>1
  <2>3. CASE cli.pc = "save2"
    <3>1. store'.sess = store.sess
      BY <1>4, <2>3, PutFacts DEF CliSave
    <3>2. QED
      BY <2>1, <3>1
  <2>4. QED
    BY <2>1, <2>2, <2>3
<1>5. CASE CliCrash
  BY <1>5 DEF CliCrash
<1>6. CASE Kill \/ Midnight
  BY <1>6 DEF Kill, Midnight
<1>7. CASE ReadDate \/ ReadSessid \/ Ensure
  <2>1. /\ UNCHANGED <<store, cli>> /\ client.refused = None /\ client'.refused = None
        /\ client'.pc # "save1" /\ client'.sess \in {client.sess, store.sess}
    BY <1>7 DEF ReadDate, ReadSessid, Ensure, TypeOK
  <2>2. QED
    BY <2>1
<1>8. CASE Reauth
  <2>1. /\ UNCHANGED <<store, cli>> /\ client'.refused = client.sess /\ client'.sess = None
        /\ client'.pc = "auth"
    BY <1>8 DEF Reauth, TypeOK
  <2>2. cli.pc = "save1" => cli.sess # None
    BY DEF HeldInv
  <2>3. QED
    BY <2>1, <2>2
<1>9. CASE \/ \E kind \in {"pass", "sequential"} : Start(kind)
           \/ AuthFails \/ Served \/ AbortOnStale \/ GiveUp \/ Stop \/ Crash
  <2>1. /\ UNCHANGED <<store, cli>> /\ client'.refused = None
        /\ client'.pc \in {"idle", "record", "load"}
        /\ client'.sess \in {client.sess, None}
    BY <1>9 DEF Start, AuthFails, Served, AbortOnStale, GiveUp, Stop, Crash, Idle, NextRecord,
       TypeOK
  <2>2. cli.pc = "save1" => cli.sess # None
    BY DEF HeldInv
  <2>3. QED
    BY <2>1, <2>2
<1>10. QED
  BY <1>1, <1>2, <1>3, <1>4, <1>5, <1>6, <1>7, <1>8, <1>9 DEF Next, ClientNext

-----------------------------------------------------------------------------
\* The inductive invariant of the store and its users.
THEOREM SessionInvariant == Spec => []SessInv
<1>1. Init => SessInv
  <2>1. SUFFICES ASSUME Init
                 PROVE  SessInv
    OBVIOUS
  <2>2. TypeOK
    <3>1. today \in Day /\ faults \in 0..MaxFaults
      BY <2>1, SessionAssumption DEF Init, Day
    <3>2. /\ store \in [sess : Sessions \cup {None}, date : Day \cup {None}]
          /\ issued \in [Sessions -> Day \cup {None}] /\ killed \subseteq Sessions
      BY <2>1 DEF Init
    <3>3. /\ client \in [pc : ClientPc, kind : {"pass", "sequential"},
                         sess : Sessions \cup {None}, refused : Sessions \cup {None}]
          /\ client.pc = "idle"
      BY <2>1 DEF Init, ClientPc
    <3>4. /\ cli \in [pc : {"idle", "save1", "save2"}, sess : Sessions \cup {None}]
          /\ reason \in BOOLEAN /\ straddled \in BOOLEAN
      BY <2>1 DEF Init
    <3>5. QED
      BY <3>1, <3>2, <3>3, <3>4 DEF TypeOK
  <2>3. HeldInv
    BY <2>1 DEF Init, HeldInv, Held
  <2>4. DateInv /\ ReasonInv
    BY <2>1 DEF Init, DateInv, YoungerStored, OldSessionNeedsMidnight, ReasonInv,
       AuthNeedsReason
  <2>5. RefusalInv
    BY <2>1 DEF Init, RefusalInv, RefusedSessionIsReplaced
  <2>6. QED
    BY <2>2, <2>3, <2>4, <2>5 DEF SessInv
<1>2. SessInv /\ [Next]_vars => SessInv'
  <2>1. SUFFICES ASSUME SessInv, [Next]_vars
                 PROVE  SessInv'
    OBVIOUS
  <2>2. TypeOK'
    BY <2>1, TypeStep DEF SessInv
  <2>3. CASE Next
    BY <2>1, <2>2, <2>3, HeldInvStep, DateInvStep, ReasonStep, RefusalStep DEF SessInv
  <2>4. CASE UNCHANGED vars
    BY <2>1, <2>2, <2>4 DEF SessInv, vars, HeldInv, Held, DateInv, YoungerStored,
       OldSessionNeedsMidnight, ReasonInv, AuthNeedsReason, StoreIsOfToday, RefusalInv,
       RefusedSessionIsReplaced
  <2>5. QED
    BY <2>1, <2>3, <2>4
<1>3. QED
  BY <1>1, <1>2, PTL DEF Spec

\* A session of another day passes for today's only if a save straddled midnight or the
\* operator seeded an old one, whatever two savers and their crashes do between the two
\* commits of DbSessionStore.save.
THEOREM OldSessionsAreExplained == Spec => []OldSessionNeedsMidnight
<1>1. SessInv => OldSessionNeedsMidnight
  BY DEF SessInv, DateInv
<1>2. QED
  BY <1>1, SessionInvariant, PTL

\* A client authenticates only on a new day, after a refusal, or after a crash that lost the
\* session, and not at all after set_session (ensure_session, upload_record).
THEOREM AuthsHaveReasons == Spec => []AuthNeedsReason
<1>1. SessInv => AuthNeedsReason
  BY DEF SessInv, ReasonInv
<1>2. QED
  BY <1>1, SessionInvariant, PTL

\* Who was refused and authenticates again sends nothing before another session than the
\* refused one is in the store, whatever set_session does beside it (reauth, upload_record).
THEOREM RefusedSessionsGo == Spec => []RefusedSessionIsReplaced
<1>1. SessInv => RefusedSessionIsReplaced
  BY DEF SessInv, RefusalInv
<1>2. QED
  BY <1>1, SessionInvariant, PTL
=============================================================================
