---------------------------- MODULE SessionStore ----------------------------
(***************************************************************************)
(* The bureau session over the days: DbSessionStore of app/uploader.py,    *)
(* auth, ensure_session, reauth and upload_record of app/ubki_client.py,   *)
(* and app/set_session.py, which writes the store without the pass's lock. *)
(*                                                                         *)
(* One client runs at a time, under the lock of run_pass: the parallel one *)
(* of a pass or the sequential one of upload_record.  What a wave of       *)
(* requests does with its answers is SendRecords; here a wave is served or *)
(* refused.                                                                *)
(***************************************************************************)
EXTENDS Naturals, FiniteSetsExt

CONSTANTS
  Sessions,     \* a finite set of numbers for sessions; unused ones are issued again
  None,
  MaxDay,       \* bound on the calendar
  MaxFaults     \* bound on crashes

\* The store and set_session hold one session each and the client two; there is a new
\* one beside them.
ASSUME SessionAssumption ==
  /\ Sessions \subseteq Nat /\ None \notin Nat /\ MaxDay \in Nat /\ MaxFaults \in Nat
  /\ \A a, b, c, d \in Sessions \cup {None} : Sessions \ {a, b, c, d} # {}

VARIABLES
  today,        \* kyiv_today()
  store,        \* the meta table: ubki_sessid and ubki_sessid_date
  issued,       \* bureau: the day on which a session was last issued
  killed,       \* bureau: sessions it dropped before midnight
  client,       \* [pc, kind, sess, refused]: sess is _sessid, refused is the session this
                \* pass or record was refused under before it authenticated again
  cli,          \* [pc, sess]: set_session
  reason,       \* history: something since the last authentication calls for one
  straddled,    \* history: some session was saved on another day than it was issued
  faults

vars == <<today, store, issued, killed, client, cli, reason, straddled, faults>>

Day == 0..MaxDay
ClientPc == {"idle", "record", "load", "read", "auth", "save1", "save2", "send"}

TypeOK ==
  /\ today \in Day
  /\ store \in [sess : Sessions \cup {None}, date : Day \cup {None}]
  /\ issued \in [Sessions -> Day \cup {None}] /\ killed \subseteq Sessions
  /\ client \in [pc : ClientPc, kind : {"pass", "sequential"},
                 sess : Sessions \cup {None}, refused : Sessions \cup {None}]
  /\ client.pc \in {"save1", "save2", "send"} => client.sess # None
  /\ cli \in [pc : {"idle", "save1", "save2"}, sess : Sessions \cup {None}]
  /\ reason \in BOOLEAN /\ straddled \in BOOLEAN /\ faults \in 0..MaxFaults

Init ==
  /\ today = 0
  /\ store = [sess |-> None, date |-> None]
  /\ issued = [s \in Sessions |-> None] /\ killed = {}
  /\ client = [pc |-> "idle", kind |-> "pass", sess |-> None, refused |-> None]
  /\ cli = [pc |-> "idle", sess |-> None]
  /\ reason = TRUE /\ straddled = FALSE /\ faults = 0

-----------------------------------------------------------------------------
(***************************************************************************)
(* External: the bureau and the calendar.                                  *)
(***************************************************************************)
Live(s) == issued[s] = today /\ s \notin killed
Held == {store.sess, client.sess, client.refused, cli.sess} \ {None}
Fresh == Min(Sessions \ Held)
Issue(s, day) ==
  /\ issued' = [x \in Sessions |-> IF x = s THEN day ELSE IF x \in Held THEN issued[x] ELSE None]
  /\ killed' = killed \cap Held

Kill ==
  /\ \E s \in Held : Live(s) /\ killed' = killed \cup {s}
  /\ UNCHANGED <<today, store, issued, client, cli, reason, straddled, faults>>

Midnight ==
  /\ today < MaxDay
  /\ today' = today + 1
  /\ killed' = {}
  /\ reason' = TRUE
  /\ UNCHANGED <<store, issued, client, cli, straddled, faults>>

-----------------------------------------------------------------------------
(***************************************************************************)
(* The store.                                                              *)
(***************************************************************************)
\* Mutants: the date is committed first; the date is forgotten.
DateFirst == <<"date", "sess">>
SessidOnly == <<"sess", "sess">>

\* The two commits of DbSessionStore.save, in their order.
SaveOrder == <<"sess", "date">>

Put(i, s) ==
  /\ store' = [store EXCEPT ![SaveOrder[i]] = IF SaveOrder[i] = "sess" THEN s ELSE today]
  /\ straddled' = (straddled \/ issued[s] # today)

\* DbSessionStore.load: the date, then the sessid.
ReadDate ==
  /\ client.pc = "load"
  /\ client' = [client EXCEPT !.pc = IF store.date = today THEN "read" ELSE "auth"]
  /\ UNCHANGED <<today, store, issued, killed, cli, reason, straddled, faults>>

ReadSessid ==
  /\ client.pc = "read"
  /\ client' = [client EXCEPT !.sess = store.sess,
                              !.pc = IF store.sess = None THEN "auth" ELSE "send"]
  /\ UNCHANGED <<today, store, issued, killed, cli, reason, straddled, faults>>

-----------------------------------------------------------------------------
(***************************************************************************)
(* The client.                                                             *)
(***************************************************************************)
Idle == [client EXCEPT !.pc = "idle", !.sess = None, !.refused = None]
NextRecord == [client EXCEPT !.pc = "record", !.refused = None]

Start(kind) ==
  /\ client.pc = "idle"
  /\ client' = [Idle EXCEPT !.pc = IF kind = "pass" THEN "load" ELSE "record", !.kind = kind]
  /\ UNCHANGED <<today, store, issued, killed, cli, reason, straddled, faults>>

\* _ensure_session for a record of the sequential path: memory before the store.
Ensure ==
  /\ client.pc = "record"
  /\ client' = [client EXCEPT !.pc = IF client.sess # None THEN "send" ELSE "load"]
  /\ UNCHANGED <<today, store, issued, killed, cli, reason, straddled, faults>>

Stop ==
  /\ client.pc = "record"
  /\ client' = Idle
  /\ UNCHANGED <<today, store, issued, killed, cli, reason, straddled, faults>>

\* Mutant: only a first authentication is saved.
AuthSavedOnce ==
  /\ client.pc = "auth"
  /\ Issue(Fresh, today)
  /\ client' = [client EXCEPT !.sess = Fresh,
                              !.pc = IF client.refused = None THEN "save1" ELSE "send"]
  /\ reason' = FALSE
  /\ UNCHANGED <<today, store, cli, straddled, faults>>

AuthOk ==
  /\ client.pc = "auth"
  /\ Issue(Fresh, today)
  /\ client' = [client EXCEPT !.sess = Fresh, !.pc = "save1"]
  /\ reason' = FALSE
  /\ UNCHANGED <<today, store, cli, straddled, faults>>

\* A pass aborts or ends its only resend; a record of the sequential path fails.
AuthFails ==
  /\ client.pc = "auth"
  /\ client' = IF client.kind = "pass" THEN Idle ELSE NextRecord
  /\ UNCHANGED <<today, store, issued, killed, cli, reason, straddled, faults>>

Save ==
  /\ \/ client.pc = "save1" /\ Put(1, client.sess) /\ client' = [client EXCEPT !.pc = "save2"]
     \/ client.pc = "save2" /\ Put(2, client.sess) /\ client' = [client EXCEPT !.pc = "send"]
  /\ UNCHANGED <<today, issued, killed, cli, reason, faults>>

Served ==
  /\ client.pc = "send" /\ Live(client.sess)
  /\ client' = IF client.kind = "pass" THEN Idle ELSE NextRecord
  /\ UNCHANGED <<today, store, issued, killed, cli, reason, straddled, faults>>

\* Stale once: reauth of the pass, or the retry of upload_record.
Reauth ==
  /\ client.pc = "send" /\ ~Live(client.sess) /\ client.refused = None
  /\ client' = [client EXCEPT !.refused = client.sess, !.sess = None, !.pc = "auth"]
  /\ reason' = TRUE
  /\ UNCHANGED <<today, store, issued, killed, cli, straddled, faults>>

\* As many stale answers as the abort threshold end the pass: reauth is skipped, and
\* the store keeps the dead session.
AbortOnStale ==
  /\ client.pc = "send" /\ ~Live(client.sess) /\ client.refused = None
  /\ client.kind = "pass"
  /\ client' = Idle
  /\ reason' = TRUE
  /\ UNCHANGED <<today, store, issued, killed, cli, straddled, faults>>

\* Stale twice.
GiveUp ==
  /\ client.pc = "send" /\ ~Live(client.sess) /\ client.refused # None
  /\ client' = IF client.kind = "pass" THEN Idle
               ELSE [NextRecord EXCEPT !.sess = None]
  /\ reason' = TRUE
  /\ UNCHANGED <<today, store, issued, killed, cli, straddled, faults>>

\* The process dies; a session that was not saved completely is lost.
Crash ==
  /\ client.pc # "idle" /\ faults < MaxFaults
  /\ faults' = faults + 1
  /\ client' = Idle
  /\ reason' = (reason \/ client.pc \in {"save1", "save2"})
  /\ UNCHANGED <<today, store, issued, killed, cli, straddled>>

-----------------------------------------------------------------------------
(***************************************************************************)
(* set_session.                                                            *)
(***************************************************************************)
\* seed_session: the operator's session is of today, or an old one.
CliStart ==
  /\ cli.pc = "idle"
  /\ \E day \in {today, today - 1} \cap Day : Issue(Fresh, day)
  /\ cli' = [pc |-> "save1", sess |-> Fresh]
  /\ UNCHANGED <<today, store, client, reason, straddled, faults>>

\* A seed that completes while no client runs leaves no reason to authenticate.
CliSave ==
  /\ \/ /\ cli.pc = "save1" /\ Put(1, cli.sess) /\ cli' = [cli EXCEPT !.pc = "save2"]
        /\ UNCHANGED reason
     \/ /\ cli.pc = "save2" /\ Put(2, cli.sess) /\ cli' = [pc |-> "idle", sess |-> None]
        /\ reason' = (reason /\ client.pc # "idle")
  /\ UNCHANGED <<today, issued, killed, client, faults>>

CliCrash ==
  /\ cli.pc # "idle" /\ faults < MaxFaults
  /\ faults' = faults + 1
  /\ cli' = [pc |-> "idle", sess |-> None]
  /\ UNCHANGED <<today, store, issued, killed, client, reason, straddled>>

-----------------------------------------------------------------------------
ClientNext ==
  \/ ReadDate \/ ReadSessid \/ Ensure \/ AuthOk \/ AuthFails \/ Save
  \/ Served \/ Reauth \/ AbortOnStale \/ GiveUp

Next ==
  \/ \E kind \in {"pass", "sequential"} : Start(kind)
  \/ ClientNext \/ Stop \/ Crash
  \/ CliStart \/ CliSave \/ CliCrash
  \/ Kill \/ Midnight

Spec == Init /\ [][Next]_vars

-----------------------------------------------------------------------------
\* "sessid is valid until 23:59:59 Kyiv time; cache it for the day": a session of
\* another day passes for today's only if a save straddled midnight or the operator
\* seeded an old one, whatever the crashes between the two commits and the
\* interleavings of two savers.
OldSessionNeedsMidnight ==
  (store.date # None /\ store.sess # None /\ ~straddled) =>
     issued[store.sess] >= store.date

\* The bureau forbids frequent authentication (README.md:38: again only if the session
\* was refused): a client authenticates only on a new day, after a refusal, or
\* after a crash that lost the session; and not at all after set_session.
AuthNeedsReason == client.pc = "auth" => reason

\* A session the bureau has refused goes with the refusal: who authenticates again
\* sends nothing before the store has another session in its place, so that however
\* this pass ends, in a second refusal or a crash, the next one does not begin with
\* it, and set_session beside it does not bring it back.  A pass that aborts on its
\* stale answers (AbortOnStale) never authenticates again and leaves it there.
RefusedSessionIsReplaced ==
  (client.pc \in {"save2", "send"} /\ client.refused # None) =>
     store.sess # client.refused
=============================================================================
