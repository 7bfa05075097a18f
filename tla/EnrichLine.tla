----------------------------- MODULE EnrichLine -----------------------------
(***************************************************************************)
(* What becomes of one producer line: enrich_line and build_doc of         *)
(* app/enricher.py, with the peer lookup that process_file makes before    *)
(* them, over all combinations of what the cabinet may hold.               *)
(*                                                                         *)
(* A document number stands for its normalised form; a date is present or  *)
(* not; an issuer stands for the document number it was stated for, so     *)
(* that attaching it to another document shows.                            *)
(***************************************************************************)
EXTENDS Naturals, Sequences, FiniteSetsExt

CONSTANTS
  Users,        \* clients of the cabinet
  Dlrefs,       \* application ids
  Inns,         \* tax ids
  Numbers,      \* document numbers in a supported format
  Unsupported,  \* a number in another format
  None,
  Scenes        \* the combinations considered: records of sets of clients, lines,
                \* applications, tax ids, documents in users, other applications

Source == [number : Numbers \cup {Unsupported, None}, issuer : BOOLEAN, date : BOOLEAN]

\* The application part of a row of FETCH_SQL; the columns joined from users are
\* functions of the client below.  applied is 0 where applied_at is missing, phone
\* says whether the snapshot or users has a valid one.
Row == [user : Users, applied : Nat, snap : Source, phone : BOOLEAN]

\* A row of FETCH_ISSUERS_SQL, which returns rows with an issuer only.
Peer == [number : Numbers, date : BOOLEAN, at : Nat]

\* A line: whether it is a JSON object, another JSON value or none; the deals by their
\* dlref, none of them if they are missing (deals that are a number raise out of
\* process_file: ReadFails in module Enricher); named if lname and fname are present;
\* the birth date against the one encoded in the tax id.
Line == [form : {"object", "value", "broken"}, inn : Inns \cup {None},
         deals : Seq(Dlrefs \cup {None}), named : BOOLEAN,
         bdate : {"missing", "agrees", "contradicts", "unchecked"}]

ASSUME EnrichAssumption ==
  /\ None \notin Dlrefs \cup Inns \cup Numbers
  /\ Unsupported \notin Numbers \cup {None}
  /\ \A s \in Scenes :
        /\ s.users \subseteq Users /\ s.inns \subseteq Inns \cup {None}
        /\ s.lines \subseteq Line /\ s.rows \subseteq Row
        /\ \A row \in s.rows : row.user \in s.users
        /\ IsFiniteSet(s.users) /\ IsFiniteSet(s.peers)
        /\ s.usrs \subseteq Source /\ s.peers \subseteq Peer
        /\ \A p, q \in s.peers : p.at = q.at => p = q

VARIABLES
  line,
  rows,         \* the cabinet's application for each dlref, or None
  innOf,        \* users.social_number
  usrOf,        \* the document in users
  peersOf,      \* the client's applications that state an issuer
  result        \* <<>>, or the outcome

vars == <<line, rows, innOf, usrOf, peersOf, result>>

-----------------------------------------------------------------------------
(***************************************************************************)
(* The document.                                                           *)
(***************************************************************************)
\* _parse_doc_number
Usable(src) == src.number \in Numbers

\* Mutant: any other application of the client will do.
AnyPeers(peers, number) == peers

\* _find_peer_document: the candidates and the newest of them.
Matching(peers, number) == {p \in peers : p.number = number}
Newest(peers) == CHOOSE p \in peers : \A q \in peers : q.at <= p.at

\* One source completed from the other applications, if it lacks the issuer.
Doc(src, peers) ==
  LET found == Matching(peers, src.number)
      usePeer == ~src.issuer /\ found # {}
  IN  [number    |-> src.number,
       issuedFor |-> IF src.issuer THEN src.number
                     ELSE IF usePeer THEN Newest(found).number ELSE None,
       dated     |-> src.date \/ (usePeer /\ Newest(found).date),
       fromPeer  |-> usePeer]

Complete(doc) == doc.issuedFor # None /\ doc.dated
NoDoc == [number |-> None, issuedFor |-> None, dated |-> FALSE, fromPeer |-> FALSE]

Sources(row) == {row.snap, usrOf[row.user]}

\* Mutants: there is no fallback to users; the snapshot wins even if its document
\* is incomplete.
SnapshotOnly(row, peers) == IF Usable(row.snap) THEN Doc(row.snap, peers) ELSE NoDoc
FirstUsable(row, peers) ==
  IF Usable(row.snap) THEN Doc(row.snap, peers)
  ELSE IF Usable(usrOf[row.user]) THEN Doc(usrOf[row.user], peers) ELSE NoDoc

\* build_doc: the first complete document, else the first partial one.
BuildDoc(row, peers) ==
  LET docs == [i \in 1..2 |->
                 LET src == IF i = 1 THEN row.snap ELSE usrOf[row.user]
                 IN  IF Usable(src) THEN Doc(src, peers) ELSE NoDoc]
      best == IF \E i \in 1..2 : Complete(docs[i])
              THEN {i \in 1..2 : Complete(docs[i])}
              ELSE {i \in 1..2 : docs[i] # NoDoc}
  IN  IF best = {} THEN NoDoc ELSE docs[Min(best)]

\* Mutant: a client is looked up whenever some issuer is missing.
MissingSomewhere(fetched) ==
  {row.user : row \in {x \in fetched :
     \E src \in Sources(x) : Usable(src) /\ ~src.issuer}}

\* _clients_missing_issuer
ClientsMissingIssuer(fetched) ==
  {row.user : row \in {x \in fetched :
     LET usable == {src \in Sources(x) : Usable(src)}
     IN  usable # {} /\ \A src \in usable : ~src.issuer}}

-----------------------------------------------------------------------------
\* The rows the query of process_file returns for a file with this line only.
Fetched == {rows[d] : d \in {x \in Dlrefs : rows[x] # None /\ line.form = "object"
                                /\ \E i \in DOMAIN line.deals : line.deals[i] = x}}

\* What process_file passes as issuer_peers.
Peers(user) == IF user \in ClientsMissingIssuer(Fetched) THEN peersOf[user] ELSE {}

\* The first of the line's rows with the greatest applied_at.
NewestRow ==
  LET at(i) == rows[line.deals[i]].applied
      best  == Max({at(i) : i \in DOMAIN line.deals})
  IN  rows[line.deals[Min({i \in DOMAIN line.deals : at(i) = best})]]

\* Mutant: the deals are not compared with each other.
ClientsNotCompared == Fetched # {}

OneClient == Cardinality({row.user : row \in Fetched}) = 1

\* process_file and enrich_line: the reason to quarantine the line, or "enriched".
Reason ==
  IF line.form = "broken" THEN "broken JSON"
  ELSE IF line.form = "value" THEN "line is not a JSON object"
  ELSE IF line.inn = None THEN "line has no inn"
  ELSE IF line.deals = <<>> THEN "line has no deals"
  ELSE IF \E i \in DOMAIN line.deals : line.deals[i] = None THEN "deal has no dlref"
  ELSE IF \E i \in DOMAIN line.deals : rows[line.deals[i]] = None
       THEN "dlref not found"
  ELSE IF ~OneClient THEN "deals belong to different clients"
  ELSE IF innOf[NewestRow.user] = None THEN "cabinet client has no inn"
  ELSE IF innOf[NewestRow.user] # line.inn THEN "inn mismatch"
  ELSE IF NewestRow.applied = 0 THEN "application has no applied_at"
  ELSE IF BuildDoc(NewestRow, Peers(NewestRow.user)) = NoDoc THEN "no document"
  ELSE IF ~NewestRow.phone THEN "no valid phone"
  ELSE IF ~line.named \/ line.bdate = "missing" THEN "name or bdate missing"
  ELSE IF line.bdate = "contradicts" THEN "bdate contradicts inn"
  ELSE "enriched"

Init ==
  \E s \in Scenes :
     /\ line \in s.lines
     /\ rows \in [Dlrefs -> s.rows \cup {None}]
     /\ innOf \in [s.users -> s.inns]
     /\ usrOf \in [s.users -> s.usrs]
     /\ peersOf \in [s.users -> SUBSET s.peers]
     /\ result = <<>>

Enrich ==
  /\ result = <<>>
  /\ result' = <<[reason |-> Reason,
                  doc |-> IF Reason = "enriched"
                          THEN BuildDoc(NewestRow, Peers(NewestRow.user))
                          ELSE NoDoc]>>
  /\ UNCHANGED <<line, rows, innOf, usrOf, peersOf>>

Next == Enrich
Spec == Init /\ [][Next]_vars
-----------------------------------------------------------------------------
Enriched == result # <<>> /\ result[1].reason = "enriched"
TheDoc == result[1].doc

\* "Never risk writing someone else's credit history": every deal of an enriched
\* line belongs to one client, whose tax id is the line's, although the check
\* looks at the newest application only.
RightClient ==
  Enriched =>
    \A i \in DOMAIN line.deals :
       /\ rows[line.deals[i]].user = NewestRow.user
       /\ innOf[rows[line.deals[i]].user] = line.inn

\* A client's deals are lost to quarantine only for a defect of the line or of
\* the newest application: with both in order, the line is enriched, whatever
\* the other applications and the peers look like.
SoundLineIsEnriched ==
  (/\ result # <<>>
   /\ line.form = "object" /\ line.inn # None /\ line.named
   /\ line.bdate \in {"agrees", "unchecked"}
   /\ line.deals # <<>>
   /\ \A i \in DOMAIN line.deals : line.deals[i] # None /\ rows[line.deals[i]] # None
   /\ \A i \in DOMAIN line.deals : innOf[rows[line.deals[i]].user] = line.inn
   /\ Cardinality({u \in DOMAIN innOf : innOf[u] = line.inn}) = 1
   /\ NewestRow.applied > 0 /\ NewestRow.phone
   /\ \E src \in Sources(NewestRow) : Usable(src)) => Enriched

\* "An issuer belonging to a different passport must never be attached to this
\* one": through every fallback the document has the issuer stated for its own
\* number or none.
IssuerIsOfThisDocument == Enriched => TheDoc.issuedFor \in {None, TheDoc.number}

\* "A source holding both is always preferred over one holding part": the bureau
\* drops an incomplete document, so one is sent only if no source is complete.
CompleteSourceWins ==
  (Enriched /\ \E src \in Sources(NewestRow) :
                  Usable(src) /\ src.issuer /\ src.date) => Complete(TheDoc)

\* lines_issuer_from_peer counts lines that were lost without the peer ("would
\* have been quarantined before", app/enricher.py:116): a document is credited to
\* another application only if the client's own sources could not complete it, whichever of
\* the line's applications made process_file look the client up.
PeerCountIsHonest ==
  (Enriched /\ TheDoc.fromPeer /\ Complete(TheDoc))
     => ~Complete(BuildDoc(NewestRow, {}))
=============================================================================
