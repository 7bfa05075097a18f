----------------------------- MODULE LineProofs -----------------------------
(***************************************************************************)
(* What enrich_line and build_doc promise of one line, for any clients,    *)
(* applications, documents and deals.                                      *)
(*                                                                         *)
(* The argument: an enriched line has passed every test of enrich_line, so *)
(* its rows are all of one client and the newest is one of them; build_doc *)
(* takes the first complete of two documents, and a document is completed  *)
(* only from an application with the same number.                          *)
(***************************************************************************)
EXTENDS EnrichLine, FiniteSetTheorems, WellFoundedInduction, TLAPS

\* What enrich_line makes of the line.
Outcome == [reason |-> Reason,
            doc |-> IF Reason = "enriched"
                    THEN BuildDoc(NewestRow, Peers(NewestRow.user)) ELSE NoDoc]

\* What the cabinet holds: rows of known clients, their documents and applications.
CabinetOK ==
  /\ line \in Line
  /\ rows \in [Dlrefs -> Row \cup {None}]
  /\ \A d \in Dlrefs : rows[d] # None => rows[d] \in Row /\ rows[d].user \in DOMAIN innOf
  /\ IsFiniteSet(DOMAIN innOf)
  /\ \A u \in DOMAIN innOf :
        usrOf[u] \in Source /\ peersOf[u] \subseteq Peer /\ IsFiniteSet(peersOf[u])

LineInv ==
  /\ CabinetOK
  /\ result # <<>> => result = <<Outcome>>

-----------------------------------------------------------------------------
(***************************************************************************)
(* The least and the greatest of numbers.                                  *)
(***************************************************************************)
\* A set of numbers has a least member.
LEMMA LeastExists ==
  ASSUME NEW T, T \subseteq Nat, T # {}
  PROVE  \E x \in T : \A y \in T : x <= y
<1> DEFINE R == {ss \in Nat \X Nat : ss[1] < ss[2]}
<1>1. IsWellFoundedOn(R, Nat)
  BY NatLessThanWellFounded DEF OpToRel
<1>2. PICK x \in T : \A y \in T : <<y, x>> \notin R
  BY <1>1, WFMin
<1>3. ASSUME NEW y \in T
      PROVE  x <= y
  <2>1. x \in Nat /\ y \in Nat /\ ~(y < x)
    BY <1>2
  <2>2. QED
    BY <2>1
<1>4. QED
  BY <1>3

\* A finite set of numbers has a greatest member: of the sequences without one the
\* shortest would have one a step before its end.
LEMMA GreatestExists ==
  ASSUME NEW T, T \subseteq Nat, T # {}, IsFiniteSet(T)
  PROVE  \E x \in T : \A y \in T : y <= x
<1> DEFINE n == Cardinality(T)
<1>1. PICK f : f \in Bijection(1..n, T)
  BY FS_CardinalityType DEF ExistsBijection
<1>2. n \in Nat /\ f \in [1..n -> T] /\ \A y \in T : \E i \in 1..n : f[i] = y
  BY <1>1, FS_CardinalityType DEF Bijection, Injection, Surjection
<1> HIDE DEF n
<1> DEFINE Q == {m \in 1..n : \A k \in 1..m : \E j \in 1..m : ~(f[j] <= f[k])}
<1>3. Q = {}
  <2>1. SUFFICES ASSUME Q # {}
                 PROVE  FALSE
    OBVIOUS
  <2>2. PICK m \in Q : \A y \in Q : m <= y
    <3>1. Q \subseteq Nat
      OBVIOUS
    <3>2. QED
      BY <2>1, <3>1, LeastExists
  <2>3. m \in 1..n /\ m \in Nat /\ n \in Nat
    BY <1>2
  <2>4. \A i \in 1..m : f[i] \in Nat
    <3>1. \A i \in 1..m : i \in 1..n
      BY <2>3
    <3>2. QED
      BY <1>2, <3>1
  <2>5. m # 1
    <3>1. CASE m = 1
      <4>1. 1 \in 1..m /\ \A j \in 1..m : j = 1
        BY <3>1
      <4>2. \A j \in 1..m : f[j] <= f[1]
        BY <2>4, <4>1
      <4>3. QED
        BY <4>1, <4>2
    <3>2. QED
      BY <3>1
  <2>6. m - 1 \in 1..n /\ m - 1 \notin Q
    <3>1. m - 1 \in 1..n /\ ~(m <= m - 1)
      BY <2>5, <2>3
    <3>2. QED
      BY <2>2, <3>1
  <2>7. PICK k \in 1..(m - 1) : \A j \in 1..(m - 1) : f[j] <= f[k]
    BY <2>6
  <2>8. \A j \in 1..m : j = m \/ j \in 1..(m - 1)
    OBVIOUS
  <2>9. CASE f[m] <= f[k]
    <3>1. k \in 1..m /\ \A j \in 1..m : f[j] <= f[k]
      BY <2>7, <2>8, <2>9
    <3>2. QED
      BY <3>1
  <2>10. CASE ~(f[m] <= f[k])
    <3>1. m \in 1..m /\ f[m] \in Nat /\ f[k] \in Nat
      BY <2>4
    <3>2. \A j \in 1..(m - 1) : f[j] \in Nat
      BY <2>4
    <3>3. \A j \in 1..m : f[j] <= f[m]
      BY <2>7, <2>8, <2>10, <3>1, <3>2
    <3>4. QED
      BY <3>1, <3>3
  <2>11. QED
    BY <2>9, <2>10
<1>4. n \in 1..n
  <2>1. PICK i \in 1..n : TRUE
    BY <1>2
  <2>2. QED
    BY <1>2, <2>1
<1>5. PICK k \in 1..n : \A j \in 1..n : f[j] <= f[k]
  BY <1>3, <1>4
<1>6. QED
  BY <1>2, <1>5

\* The image of a finite set is finite.
LEMMA ImageFinite ==
  ASSUME NEW S, IsFiniteSet(S), NEW f, DOMAIN f = S
  PROVE  IsFiniteSet({f[x] : x \in S})
<1> DEFINE T == {f[x] : x \in S}
           g == [x \in S |-> f[x]]
<1>1. g \in Surjection(S, T)
  BY DEF Surjection
<1>2. QED
  BY <1>1, FS_Surjection

-----------------------------------------------------------------------------
(***************************************************************************)
(* The document.                                                           *)
(***************************************************************************)
\* The newest of some applications is one of them.
LEMMA NewestFacts ==
  ASSUME NEW peers, peers \subseteq Peer, IsFiniteSet(peers), peers # {}
  PROVE  Newest(peers) \in peers
<1> DEFINE f == [p \in peers |-> p.at]
           T == {f[p] : p \in peers}
<1>1. T \subseteq Nat /\ T # {} /\ IsFiniteSet(T)
  <2>1. IsFiniteSet(T)
    BY ImageFinite
  <2>2. \A p \in peers : f[p] \in Nat
    BY DEF Peer
  <2>3. QED
    BY <2>1, <2>2
<1>2. PICK x \in T : \A y \in T : y <= x
  BY <1>1, GreatestExists
<1>3. \E p \in peers : \A q \in peers : q.at <= p.at
  BY <1>2
<1>4. QED
  BY <1>3 DEF Newest

\* A document has its source's number, and an issuer stated for it or none.
LEMMA DocFacts ==
  ASSUME NEW src \in Source, Usable(src), NEW peers, peers \subseteq Peer, IsFiniteSet(peers)
  PROVE  /\ Doc(src, peers).number = src.number /\ Doc(src, peers) # NoDoc
         /\ Doc(src, peers).issuedFor \in {None, src.number}
         /\ src.issuer => /\ Doc(src, peers).issuedFor = src.number
                          /\ ~Doc(src, peers).fromPeer /\ Doc(src, peers).dated = src.date
         /\ ~src.issuer /\ ~Doc(src, peers).fromPeer => Doc(src, peers).issuedFor = None
         /\ peers = {} => ~Doc(src, peers).fromPeer
<1> DEFINE found == Matching(peers, src.number)
<1>1. found \subseteq peers /\ IsFiniteSet(found) /\ \A p \in found : p.number = src.number
  BY FS_Subset DEF Matching
<1>2. found # {} => Newest(found).number = src.number
  BY <1>1, NewestFacts
<1>3. src.number \in Numbers /\ src.number # None
  BY EnrichAssumption DEF Usable
<1>4. src.issuer \in BOOLEAN /\ src.date \in BOOLEAN
  BY DEF Source
<1> HIDE DEF found
<1>5. /\ Doc(src, peers).number = src.number
      /\ Doc(src, peers).issuedFor = IF src.issuer THEN src.number
                                     ELSE IF found # {} THEN Newest(found).number ELSE None
      /\ Doc(src, peers).dated = (src.date \/ ((~src.issuer /\ found # {}) /\ Newest(found).date))
      /\ Doc(src, peers).fromPeer = (~src.issuer /\ found # {})
  BY DEF Doc, found
<1>6. Doc(src, peers) # NoDoc
  BY <1>3, <1>5 DEF NoDoc
<1>7. CASE src.issuer
  BY <1>4, <1>5, <1>6, <1>7
<1>8. CASE ~src.issuer
  BY <1>1, <1>2, <1>5, <1>6, <1>8
<1>9. QED
  BY <1>7, <1>8

\* The documents of a row's two sources.
FromSnap(row, peers) == IF Usable(row.snap) THEN Doc(row.snap, peers) ELSE NoDoc
FromUser(row, peers) ==
  IF Usable(usrOf[row.user]) THEN Doc(usrOf[row.user], peers) ELSE NoDoc

\* build_doc takes the first complete document, else the first there is.
LEMMA BuildDocFacts ==
  ASSUME NEW row, NEW peers
  PROVE  BuildDoc(row, peers) =
           IF Complete(FromSnap(row, peers)) THEN FromSnap(row, peers)
           ELSE IF Complete(FromUser(row, peers)) THEN FromUser(row, peers)
           ELSE IF FromSnap(row, peers) # NoDoc THEN FromSnap(row, peers)
           ELSE FromUser(row, peers)
<1> DEFINE a == FromSnap(row, peers)
           b == FromUser(row, peers)
           docs == [i \in 1..2 |->
                      LET src == IF i = 1 THEN row.snap ELSE usrOf[row.user]
                      IN  IF Usable(src) THEN Doc(src, peers) ELSE NoDoc]
           whole == {i \in 1..2 : Complete(docs[i])}
           some == {i \in 1..2 : docs[i] # NoDoc}
<1>1. docs[1] = a /\ docs[2] = b
  BY DEF FromSnap, FromUser
<1>2. BuildDoc(row, peers) =
        LET best == IF \E i \in 1..2 : Complete(docs[i]) THEN whole ELSE some
        IN  IF best = {} THEN NoDoc ELSE docs[Min(best)]
  BY DEF BuildDoc
<1> HIDE DEF a, b, docs
<1>3. Min({1}) = 1 /\ Min({2}) = 2 /\ Min({1, 2}) = 1
  BY DEF Min
<1>4. CASE Complete(a)
  <2>1. whole = {1} \/ whole = {1, 2}
    BY <1>1, <1>4
  <2>2. BuildDoc(row, peers) = docs[Min(whole)]
    BY <1>2, <2>1
  <2>3. QED
    BY <1>1, <1>3, <1>4, <2>1, <2>2 DEF a, b
<1>5. CASE ~Complete(a) /\ Complete(b)
  <2>1. whole = {2}
    BY <1>1, <1>5
  <2>2. BuildDoc(row, peers) = docs[Min(whole)]
    BY <1>2, <2>1
  <2>3. QED
    BY <1>1, <1>3, <1>5, <2>1, <2>2 DEF a, b
<1>6. CASE ~Complete(a) /\ ~Complete(b) /\ a # NoDoc
  <2>1. some = {1} \/ some = {1, 2}
    BY <1>1, <1>6
  <2>2. whole = {}
    BY <1>1, <1>6
  <2>3. BuildDoc(row, peers) = docs[Min(some)]
    BY <1>2, <2>1, <2>2
  <2>4. QED
    BY <1>1, <1>3, <1>6, <2>1, <2>3 DEF a, b
<1>7. CASE ~Complete(a) /\ ~Complete(b) /\ a = NoDoc
  <2>1. whole = {} /\ some = (IF b = NoDoc THEN {} ELSE {2})
    BY <1>1, <1>7
  <2>2. BuildDoc(row, peers) = IF some = {} THEN NoDoc ELSE docs[Min(some)]
    BY <1>2, <2>1
  <2>3. BuildDoc(row, peers) = b
    BY <1>1, <1>3, <2>1, <2>2
  <2>4. QED
    BY <1>7, <2>3 DEF a, b
<1>8. QED
  BY <1>4, <1>5, <1>6, <1>7

-----------------------------------------------------------------------------
(***************************************************************************)
(* The client.                                                             *)
(***************************************************************************)
\* The line is an object, and every deal of it has a row.
AllFound ==
  /\ line.form = "object" /\ line.deals # <<>>
  /\ \A i \in DOMAIN line.deals : line.deals[i] # None /\ rows[line.deals[i]] # None

\* The deals are finitely many, and the rows of the query are theirs.
LEMMA FetchedFacts ==
  ASSUME CabinetOK, AllFound
  PROVE  /\ IsFiniteSet(DOMAIN line.deals) /\ DOMAIN line.deals # {}
         /\ DOMAIN line.deals \subseteq Nat
         /\ \A i \in DOMAIN line.deals :
              /\ line.deals[i] \in Dlrefs /\ rows[line.deals[i]] \in Row
              /\ rows[line.deals[i]].user \in DOMAIN innOf
         /\ Fetched = {rows[line.deals[i]] : i \in DOMAIN line.deals}
         /\ IsFiniteSet({row.user : row \in Fetched})
<1> DEFINE D == DOMAIN line.deals
<1>1. line.deals \in Seq(Dlrefs \cup {None})
  BY DEF CabinetOK, Line
<1>2. D = 1..Len(line.deals) /\ Len(line.deals) \in Nat
  BY <1>1
<1>3. IsFiniteSet(D) /\ D \subseteq Nat
  BY <1>2, FS_Interval
<1>4. D # {}
  BY <1>1, <1>2 DEF AllFound
<1>5. \A i \in D : line.deals[i] \in Dlrefs
  BY <1>1, <1>2 DEF AllFound
<1>6. \A i \in D : rows[line.deals[i]] \in Row /\ rows[line.deals[i]].user \in DOMAIN innOf
  BY <1>5 DEF AllFound, CabinetOK
<1>7. Fetched = {rows[line.deals[i]] : i \in D}
  BY <1>5 DEF Fetched, AllFound
<1>8. IsFiniteSet({row.user : row \in Fetched})
  <2> DEFINE f == [i \in D |-> rows[line.deals[i]].user]
  <2>1. IsFiniteSet({f[i] : i \in D})
    BY <1>3, ImageFinite
  <2>2. {f[i] : i \in D} = {row.user : row \in Fetched}
    BY <1>7
  <2>3. QED
    BY <2>1, <2>2
<1>9. QED
  BY <1>3, <1>4, <1>5, <1>6, <1>7, <1>8

\* The newest row is one of the line's.
LEMMA NewestRowFacts ==
  ASSUME CabinetOK, AllFound
  PROVE  \E k \in DOMAIN line.deals : NewestRow = rows[line.deals[k]]
<1> DEFINE D == DOMAIN line.deals
           f == [i \in D |-> rows[line.deals[i]].applied]
           T == {f[i] : i \in D}
           best == Max(T)
           K == {i \in D : f[i] = best}
<1>1. IsFiniteSet(D) /\ D # {} /\ D \subseteq Nat /\ \A i \in D : f[i] \in Nat
  BY FetchedFacts DEF Row
<1>2. IsFiniteSet(T)
  BY <1>1, ImageFinite
<1>3. T \subseteq Nat /\ T # {}
  BY <1>1
<1>4. PICK x \in T : \A y \in T : y <= x
  BY <1>2, <1>3, GreatestExists
<1>5. best \in T
  <2>1. \A y \in T : x >= y
    BY <1>3, <1>4
  <2>2. QED
    BY <2>1 DEF Max
<1>6. K \subseteq Nat /\ K # {}
  BY <1>1, <1>5
<1>7. PICK k \in K : \A y \in K : k <= y
  BY <1>6, LeastExists
<1>8. Min(K) \in K
  BY <1>7 DEF Min
<1>9. NewestRow = rows[line.deals[Min(K)]]
  <2>1. T = {rows[line.deals[i]].applied : i \in D}
    OBVIOUS
  <2>2. K = {i \in D : rows[line.deals[i]].applied = best}
    OBVIOUS
  <2> HIDE DEF T, K, f
  <2>3. QED
    BY <2>1, <2>2 DEF NewestRow
<1>10. QED
  BY <1>8, <1>9

\* One client means the same client for any two deals.
LEMMA OneClientFacts ==
  ASSUME CabinetOK, AllFound
  PROVE  OneClient <=> \A i, j \in DOMAIN line.deals :
                          rows[line.deals[i]].user = rows[line.deals[j]].user
<1> DEFINE U == {row.user : row \in Fetched}
<1>1. /\ IsFiniteSet(U) /\ DOMAIN line.deals # {}
      /\ Fetched = {rows[line.deals[i]] : i \in DOMAIN line.deals}
  BY FetchedFacts
<1>2. U = {rows[line.deals[i]].user : i \in DOMAIN line.deals}
  BY <1>1
<1> HIDE DEF U
<1>3. OneClient <=> \E x : U = {x}
  <2>1. OneClient <=> Cardinality(U) = 1
    BY DEF OneClient, U
  <2>2. Cardinality(U) = 1 <=> \E x : U = {x}
    BY <1>1, FS_Singleton
  <2>3. QED
    BY <2>1, <2>2
<1>4. ASSUME \A i, j \in DOMAIN line.deals :
               rows[line.deals[i]].user = rows[line.deals[j]].user
      PROVE  \E x : U = {x}
  <2>1. PICK i \in DOMAIN line.deals : TRUE
    BY <1>1
  <2>2. U = {rows[line.deals[i]].user}
    BY <1>2, <1>4, <2>1
  <2>3. QED
    BY <2>2
<1>5. ASSUME NEW x, U = {x}, NEW i \in DOMAIN line.deals, NEW j \in DOMAIN line.deals
      PROVE  rows[line.deals[i]].user = rows[line.deals[j]].user
  <2>1. rows[line.deals[i]].user \in U /\ rows[line.deals[j]].user \in U
    BY <1>2
  <2>2. QED
    BY <1>5, <2>1
<1>6. QED
  BY <1>3, <1>4, <1>5

-----------------------------------------------------------------------------
(***************************************************************************)
(* The invariant.                                                          *)
(***************************************************************************)
\* The scenes are cabinets.
LEMMA LineInit == ASSUME Init PROVE LineInv
<1>1. PICK s \in Scenes :
        /\ line \in s.lines /\ rows \in [Dlrefs -> s.rows \cup {None}]
        /\ innOf \in [s.users -> s.inns] /\ usrOf \in [s.users -> s.usrs]
        /\ peersOf \in [s.users -> SUBSET s.peers] /\ result = <<>>
  BY DEF Init
<1>2. /\ s.users \subseteq Users /\ s.lines \subseteq Line /\ s.rows \subseteq Row
      /\ \A row \in s.rows : row.user \in s.users
      /\ IsFiniteSet(s.users) /\ IsFiniteSet(s.peers)
      /\ s.usrs \subseteq Source /\ s.peers \subseteq Peer
  BY EnrichAssumption
<1>3. \A u \in s.users : peersOf[u] \subseteq s.peers
  BY <1>1
<1>4. \A u \in s.users : IsFiniteSet(peersOf[u])
  BY <1>2, <1>3, FS_Subset
<1>5. DOMAIN innOf = s.users
  BY <1>1
<1>6. \A d \in Dlrefs : rows[d] # None => rows[d] \in s.rows
  BY <1>1
<1>7. CabinetOK
  BY <1>1, <1>2, <1>3, <1>4, <1>5, <1>6 DEF CabinetOK
<1>8. QED
  BY <1>1, <1>7 DEF LineInv

\* The outcome of a line is what enrich_line makes of it, whatever the cabinet holds.
THEOREM LineInvariant == Spec => []LineInv
<1>1. ASSUME LineInv, [Next]_vars
      PROVE  LineInv'
  <2>1. UNCHANGED <<line, rows, innOf, usrOf, peersOf>> /\ (result' = result \/ result' = <<Outcome>>)
    BY <1>1 DEF Next, Enrich, vars, Outcome
  <2>2. CabinetOK' /\ Outcome' = Outcome
    <3>1. CabinetOK'
      BY <1>1, <2>1 DEF LineInv, CabinetOK
    <3>2. Fetched' = Fetched
      BY <2>1 DEF Fetched
    <3>3. NewestRow' = NewestRow
      BY <2>1 DEF NewestRow
    <3>4. Peers(NewestRow.user)' = Peers(NewestRow.user)
      BY <2>1, <3>2, <3>3 DEF Peers, ClientsMissingIssuer, Sources
    <3>5. BuildDoc(NewestRow, Peers(NewestRow.user))' = BuildDoc(NewestRow, Peers(NewestRow.user))
      BY <2>1, <3>3, <3>4 DEF BuildDoc
    <3>6. Reason' = Reason
      BY <2>1, <3>2, <3>3, <3>5 DEF Reason, OneClient
    <3>7. QED
      BY <3>1, <3>5, <3>6 DEF Outcome
  <2>3. QED
    BY <1>1, <2>1, <2>2 DEF LineInv
<1>2. QED
  BY <1>1, LineInit, PTL DEF Spec

-----------------------------------------------------------------------------
(***************************************************************************)
(* The theorems.                                                           *)
(***************************************************************************)
\* What every test passed says of an enriched line.
LEMMA EnrichedFacts ==
  ASSUME LineInv, Enriched
  PROVE  /\ AllFound /\ OneClient
         /\ innOf[NewestRow.user] = line.inn /\ Reason = "enriched"
         /\ TheDoc = BuildDoc(NewestRow, Peers(NewestRow.user))
<1>1. result = <<Outcome>> /\ Reason = "enriched"
  BY DEF Enriched, LineInv, Outcome
<1>2. TheDoc = BuildDoc(NewestRow, Peers(NewestRow.user))
  BY <1>1 DEF TheDoc, Outcome
<1>3. line.form = "object"
  <2>1. line.form # "broken" /\ line.form # "value"
    BY <1>1 DEF Reason
  <2>2. QED
    BY <2>1 DEF LineInv, CabinetOK, Line
<1>4. AllFound /\ OneClient /\ innOf[NewestRow.user] = line.inn
  BY <1>1, <1>3 DEF Reason, AllFound
<1>5. QED
  BY <1>1, <1>2, <1>4

\* The sources of the newest row, and what the peer lookup may add to them.
LEMMA SourceFacts ==
  ASSUME CabinetOK, AllFound
  PROVE  /\ NewestRow \in Row /\ NewestRow.user \in DOMAIN innOf /\ NewestRow \in Fetched
         /\ NewestRow.snap \in Source /\ usrOf[NewestRow.user] \in Source
         /\ Peers(NewestRow.user) \subseteq Peer /\ IsFiniteSet(Peers(NewestRow.user))
<1>1. NewestRow \in Row /\ NewestRow.user \in DOMAIN innOf /\ NewestRow \in Fetched
  BY FetchedFacts, NewestRowFacts
<1>2. NewestRow.snap \in Source
  BY <1>1 DEF Row
<1>3. usrOf[NewestRow.user] \in Source
  BY <1>1 DEF CabinetOK
<1>4. Peers(NewestRow.user) \subseteq Peer /\ IsFiniteSet(Peers(NewestRow.user))
  BY <1>1, FS_EmptySet DEF Peers, CabinetOK
<1>5. QED
  BY <1>1, <1>2, <1>3, <1>4

\* "Never risk writing someone else's credit history": every deal of an enriched line is
\* of one client, the one with the line's tax id, for lines of any number of deals.
THEOREM TheClientIsRight == Spec => []RightClient
<1>1. ASSUME LineInv, Enriched, NEW i \in DOMAIN line.deals
      PROVE  /\ rows[line.deals[i]].user = NewestRow.user
             /\ innOf[rows[line.deals[i]].user] = line.inn
  <2>1. CabinetOK /\ AllFound /\ OneClient /\ innOf[NewestRow.user] = line.inn
    BY <1>1, EnrichedFacts DEF LineInv
  <2>2. PICK k \in DOMAIN line.deals : NewestRow = rows[line.deals[k]]
    BY <2>1, NewestRowFacts
  <2>3. rows[line.deals[i]].user = rows[line.deals[k]].user
    BY <2>1, OneClientFacts
  <2>4. QED
    BY <2>1, <2>2, <2>3
<1>2. LineInv => RightClient
  BY <1>1 DEF RightClient
<1>3. QED
  BY <1>2, LineInvariant, PTL

\* With the line and the newest application in order a line is enriched, whatever the other
\* applications and the peers look like.
THEOREM SoundLinesAreEnriched == Spec => []SoundLineIsEnriched
<1>1. ASSUME LineInv, result # <<>>,
             line.inn # None, line.named, line.bdate \in {"agrees", "unchecked"},
             AllFound,
             \A i \in DOMAIN line.deals : innOf[rows[line.deals[i]].user] = line.inn,
             Cardinality({u \in DOMAIN innOf : innOf[u] = line.inn}) = 1,
             NewestRow.applied > 0, NewestRow.phone,
             \E src \in Sources(NewestRow) : Usable(src)
      PROVE  Enriched
  <2>0. CabinetOK
    BY <1>1 DEF LineInv
  <2>1. OneClient
    <3> DEFINE U == {u \in DOMAIN innOf : innOf[u] = line.inn}
    <3>1. IsFiniteSet(U)
      BY <2>0, FS_Subset DEF CabinetOK
    <3>2. PICK x : U = {x}
      BY <1>1, <3>1, FS_Singleton
    <3>3. \A i \in DOMAIN line.deals : rows[line.deals[i]].user \in U
      BY <1>1, <2>0, FetchedFacts
    <3>4. QED
      BY <1>1, <2>0, <3>2, <3>3, OneClientFacts
  <2>2. innOf[NewestRow.user] = line.inn
    BY <1>1, <2>0, NewestRowFacts
  <2>3. BuildDoc(NewestRow, Peers(NewestRow.user)) # NoDoc
    <3> DEFINE peers == Peers(NewestRow.user)
               a == FromSnap(NewestRow, peers)
               b == FromUser(NewestRow, peers)
    <3>1. a # NoDoc \/ b # NoDoc
      <4>1. Usable(NewestRow.snap) \/ Usable(usrOf[NewestRow.user])
        BY <1>1 DEF Sources
      <4>2. QED
        BY <1>1, <2>0, <4>1, SourceFacts, DocFacts DEF FromSnap, FromUser
    <3>2. ~Complete(NoDoc)
      BY DEF Complete, NoDoc
    <3>3. BuildDoc(NewestRow, peers) \in {a, b} /\
            (BuildDoc(NewestRow, peers) = NoDoc => a = NoDoc /\ b = NoDoc)
      <4> HIDE DEF a, b, peers
      <4>1. BuildDoc(NewestRow, peers) =
              IF Complete(a) THEN a ELSE IF Complete(b) THEN b ELSE IF a # NoDoc THEN a ELSE b
        BY BuildDocFacts DEF a, b
      <4>2. QED
        BY <3>2, <4>1
    <3>4. QED
      BY <3>1, <3>3
  <2>4. NewestRow.applied # 0
    BY <1>1
  <2>5. Reason = "enriched"
    BY <1>1, <2>1, <2>2, <2>3, <2>4 DEF Reason, AllFound
  <2>6. QED
    BY <1>1, <2>5 DEF LineInv, Outcome, Enriched
<1>2. LineInv => SoundLineIsEnriched
  BY <1>1 DEF SoundLineIsEnriched, AllFound
<1>3. QED
  BY <1>2, LineInvariant, PTL

\* "An issuer belonging to a different passport must never be attached to this one", through
\* every fallback of build_doc.
THEOREM IssuersAreOfTheDocument == Spec => []IssuerIsOfThisDocument
<1>1. ASSUME LineInv, Enriched
      PROVE  TheDoc.issuedFor \in {None, TheDoc.number}
  <2> DEFINE peers == Peers(NewestRow.user)
             a == FromSnap(NewestRow, peers)
             b == FromUser(NewestRow, peers)
  <2>1. CabinetOK /\ AllFound /\ TheDoc = BuildDoc(NewestRow, peers)
    BY <1>1, EnrichedFacts DEF LineInv
  <2>2. NoDoc.issuedFor = None
    BY DEF NoDoc
  <2>3. a.issuedFor \in {None, a.number} /\ b.issuedFor \in {None, b.number}
    BY <2>1, <2>2, SourceFacts, DocFacts DEF FromSnap, FromUser
  <2>4. TheDoc \in {a, b}
    BY <2>1, BuildDocFacts
  <2>5. QED
    BY <2>3, <2>4
<1>2. LineInv => IssuerIsOfThisDocument
  BY <1>1 DEF IssuerIsOfThisDocument
<1>3. QED
  BY <1>2, LineInvariant, PTL

\* "A source holding both is always preferred over one holding part".
THEOREM CompleteSourcesWin == Spec => []CompleteSourceWins
<1>1. ASSUME LineInv, Enriched, NEW src \in Sources(NewestRow), Usable(src), src.issuer, src.date
      PROVE  Complete(TheDoc)
  <2> DEFINE peers == Peers(NewestRow.user)
             a == FromSnap(NewestRow, peers)
             b == FromUser(NewestRow, peers)
  <2>1. CabinetOK /\ AllFound /\ TheDoc = BuildDoc(NewestRow, peers)
    BY <1>1, EnrichedFacts DEF LineInv
  <2>2. src \in Source
    BY <2>1, SourceFacts DEF Sources
  <2>3. Complete(Doc(src, peers))
    <3>1. src.number # None
      BY <1>1, EnrichAssumption DEF Usable
    <3>2. QED
      BY <1>1, <2>1, <2>2, <3>1, SourceFacts, DocFacts DEF Complete
  <2>4. Complete(a) \/ Complete(b)
    BY <1>1, <2>3 DEF Sources, FromSnap, FromUser
  <2>5. QED
    BY <2>1, <2>4, BuildDocFacts
<1>2. LineInv => CompleteSourceWins
  BY <1>1 DEF CompleteSourceWins
<1>3. QED
  BY <1>2, LineInvariant, PTL

\* lines_issuer_from_peer counts documents the client's own sources could not complete.
THEOREM PeersAreCountedHonestly == Spec => []PeerCountIsHonest
<1>1. ASSUME LineInv, Enriched, TheDoc.fromPeer, Complete(TheDoc)
      PROVE  ~Complete(BuildDoc(NewestRow, {}))
  <2> DEFINE peers == Peers(NewestRow.user)
             snap == NewestRow.snap
             usr == usrOf[NewestRow.user]
             a == FromSnap(NewestRow, peers)
             b == FromUser(NewestRow, peers)
             a0 == FromSnap(NewestRow, {})
             b0 == FromUser(NewestRow, {})
  <2>1. CabinetOK /\ AllFound /\ TheDoc = BuildDoc(NewestRow, peers)
    BY <1>1, EnrichedFacts DEF LineInv
  <2>2. /\ snap \in Source /\ usr \in Source /\ peers \subseteq Peer /\ IsFiniteSet(peers)
        /\ {} \subseteq Peer /\ IsFiniteSet({})
    BY <2>1, SourceFacts, FS_EmptySet
  <2>3. ~Complete(NoDoc) /\ ~NoDoc.fromPeer
    BY DEF Complete, NoDoc
  \* A source without an issuer is never complete by itself.
  <2>4. ASSUME NEW s \in {snap, usr}, Usable(s), Complete(Doc(s, {}))
        PROVE  s.issuer /\ Complete(Doc(s, peers)) /\ ~Doc(s, peers).fromPeer
    <3>1. s.issuer
      BY <2>2, <2>4, DocFacts DEF Complete
    <3>2. /\ Doc(s, {}).issuedFor = Doc(s, peers).issuedFor
          /\ Doc(s, {}).dated = Doc(s, peers).dated /\ ~Doc(s, peers).fromPeer
      BY <2>2, <2>4, <3>1, DocFacts
    <3>3. QED
      BY <2>4, <3>1, <3>2 DEF Complete
  \* A client whose own document states an issuer is not looked up.
  <2>5. ASSUME Usable(usr), usr.issuer
        PROVE  peers = {}
    <3>1. NewestRow.user \notin ClientsMissingIssuer(Fetched)
      BY <2>5 DEF ClientsMissingIssuer, Sources
    <3>2. QED
      BY <3>1 DEF Peers
  <2>6. ASSUME Complete(b0)
        PROVE  FALSE
    <3>1. Usable(usr) /\ Complete(Doc(usr, {}))
      BY <2>3, <2>6 DEF FromUser
    <3>2. peers = {}
      BY <2>4, <2>5, <3>1
    <3>3. ~Doc(snap, peers).fromPeer \/ ~Usable(snap)
      BY <2>2, <3>2, DocFacts
    <3>4. ~Doc(usr, peers).fromPeer
      BY <2>4, <3>1
    <3>5. ~a.fromPeer /\ ~b.fromPeer
      BY <2>3, <3>3, <3>4 DEF FromSnap, FromUser
    <3>6. TheDoc \in {a, b}
      BY <2>1, BuildDocFacts
    <3>7. QED
      BY <1>1, <3>5, <3>6
  <2>7. ASSUME Complete(a0)
        PROVE  FALSE
    <3>1. Usable(snap) /\ Complete(Doc(snap, {}))
      BY <2>3, <2>7 DEF FromSnap
    <3>2. Complete(a) /\ ~a.fromPeer
      BY <2>4, <3>1 DEF FromSnap
    <3>3. TheDoc = a
      BY <2>1, <3>2, BuildDocFacts
    <3>4. QED
      BY <1>1, <3>2, <3>3
  <2>8. BuildDoc(NewestRow, {}) \in {a0, b0}
    BY BuildDocFacts
  <2>9. QED
    BY <2>6, <2>7, <2>8
<1>2. LineInv => PeerCountIsHonest
  BY <1>1 DEF PeerCountIsHonest
<1>3. QED
  BY <1>2, LineInvariant, PTL
=============================================================================
