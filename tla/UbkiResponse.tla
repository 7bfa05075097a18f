---------------------------- MODULE UbkiResponse ----------------------------
(***************************************************************************)
(* How send_prepared turns an upload response into an UploadResult:        *)
(* _interpret_response and _map_state of app/ubki_client.py with their     *)
(* helpers, over every combination of what they look at.                   *)
(*                                                                         *)
(* A response is an HTTP status and a body.  The body is not JSON (or is   *)
(* JSON null, which the code treats alike), a JSON array or scalar, or an  *)
(* object that carries the fields itself ("flat") or under sentdatainfo    *)
(* ("nested"), where a top-level errcode may stand beside them.            *)
(***************************************************************************)
EXTENDS UploadTypes, Sequences

CONSTANTS
  Notable,      \* a warning code worth an operator's eye
  Benign,       \* a code of BENIGN_WARNING_CODES
  SessionErr,   \* an errcode of SESSION_EXPIRED_ERRCODES
  OtherErr, None

ASSUME ResponseAssumption ==
  /\ SessionErr \notin {OtherErr, None} /\ OtherErr # None
  /\ None \notin {"ok", "nt", "er", "sy", "other"}
  /\ Cardinality({Notable, Benign, None}) = 3

Errcode == {None, SessionErr, OtherErr}
State   == {None, "ok", "nt", "er", "sy", "other"}

\* Items with an errcode or without; CRITICAL ones have no entry in WARN_PREFIX,
\* whatever their code.
Item == [errtype : {"IGNORED", "NOTICE"}, errcode : {Notable, Benign, None}]
          \cup [errtype : {"CRITICAL"}, errcode : {Notable}]

Info == [main : Errcode, state : State, er : 0..1, ig : 0..1, nt : 0..1,
         items : SUBSET Item]

Http == {200, 400, 401, 403, 500}
Body == {"noJson", "noObject", "flat", "nested"}

Response == [http : Http, body : Body, errcode : Errcode, info : Info]

\* A body without an object has no fields.
Empty == [main |-> None, state |-> None, er |-> 0, ig |-> 0, nt |-> 0, items |-> {}]
WellFormed(resp) ==
  resp.body \in {"noJson", "noObject"} => resp.errcode = None /\ resp.info = Empty

\* _warning_codes: an item without an errcode is skipped.
Codes(info) == {i \in info.items : i.errtype \in {"IGNORED", "NOTICE"} /\ i.errcode # None}
HasIgnoredItem(info) == \E i \in Codes(info) : i.errtype = "IGNORED"

\* Mutant: the counter alone reports data loss.
DroppedByCounter(info) == info.ig > 0

ComponentsDropped(info) == HasIgnoredItem(info) \/ info.ig > 0

\* Mutant: without codes only the state decides.
WarningsByState(info) ==
  \/ \E i \in Codes(info) : i.errcode # Benign
  \/ ComponentsDropped(info)
  \/ Codes(info) = {} /\ info.state = "nt"

\* The has_warnings expression of _map_state: codes known to be noise do not
\* count, and without any code the counters decide.
HasWarnings(info) ==
  \/ \E i \in Codes(info) : i.errcode # Benign
  \/ ComponentsDropped(info)
  \/ Codes(info) = {} /\ (info.state = "nt" \/ info.nt > 0)

Verdict(res, warn, dropped) ==
  [result |-> res, hasWarnings |-> warn, componentsDropped |-> dropped]
Silent(res) == Verdict(res, FALSE, FALSE)

\* Mutant: a refusal by the bureau is flagged as a local one.
RefusedLocally(info) == Verdict(TooLarge, FALSE, ComponentsDropped(info))

Refusal(info) == Verdict(Refused, FALSE, ComponentsDropped(info))

MapState(info) ==
  CASE info.state \in {"ok", "nt"} /\ info.er > 0 -> Refusal(info)
    [] info.state \in {"ok", "nt"} /\ info.er = 0 ->
         Verdict(Accepted, HasWarnings(info), ComponentsDropped(info))
    [] info.state = "er" -> Refusal(info)
    [] info.state = "sy" -> Silent(Unreachable)
    [] OTHER             -> Silent(Garbled)

\* main_errcode, or the top-level errcode where that is absent.
SessionErrcode(resp) ==
  (IF resp.info.main # None THEN resp.info.main ELSE resp.errcode) = SessionErr

\* Mutant: a state is believed under any HTTP status.
StateUnderAnyStatus(resp) == resp.info.state # None

\* A body is believed beside HTTP 200 only under 400.
StateUnder400(resp) == resp.http = 400 /\ resp.info.state # None

InterpretResponse(resp) ==
  LET json == resp.body # "noJson"
  IN  CASE resp.http \in {401, 403} -> Silent(Stale)
        [] json /\ resp.http = 200 /\ SessionErrcode(resp) -> Silent(Stale)
        [] json /\ resp.http = 200 /\ ~SessionErrcode(resp) -> MapState(resp.info)
        [] json /\ StateUnder400(resp) -> MapState(resp.info)
        [] resp.http >= 500 -> Silent(Unreachable)
        [] OTHER            -> Silent(Garbled)

-----------------------------------------------------------------------------
(***************************************************************************)
(* One response is received and interpreted.                               *)
(***************************************************************************)
VARIABLES resp, verdict

Received ==
  /\ resp \in Response
  /\ WellFormed(resp)
  /\ verdict = <<>>

Interpret ==
  /\ verdict = <<>>
  /\ verdict' = <<InterpretResponse(resp)>>
  /\ UNCHANGED resp

ResponseSpec == Received /\ [][Interpret]_<<resp, verdict>>
-----------------------------------------------------------------------------
Outcome == verdict[1].result
Interpreted == verdict # <<>>

\* The classification never invents a combination of flags: every verdict is one
\* of the five results the pass is modelled with, so what is shown of the pass
\* for those covers every response.
VerdictIsBureauResult == Interpreted => Outcome \in BureauResults

\* Data loss that is reported with a code or counted never goes unnoticed: an
\* accepted record with a nonzero ig counter or an IGNORED item with an errcode
\* raises the data-loss signal and the warning flag, whichever of the two reports
\* it and whatever other items say.
DataLossIsSignalled ==
  (Interpreted /\ Outcome = Accepted) =>
     ((resp.info.ig > 0
       \/ \E i \in resp.info.items : i.errtype = "IGNORED" /\ i.errcode # None) =>
        verdict[1].componentsDropped /\ verdict[1].hasWarnings)


\* What an accepted record without a warning means: no component is counted as
\* ignored or rejected, no item that the bureau named by an errcode is anything but
\* known noise (an item without one may be anything, an IGNORED one included), and
\* every notice the bureau counted is explained by such a code: a notice without one
\* explains nothing.
QuietMeansClean ==
  (Interpreted /\ Outcome = Accepted /\ ~verdict[1].hasWarnings) =>
     /\ resp.info.ig = 0 /\ resp.info.er = 0
     /\ \A i \in resp.info.items : i.errtype = "CRITICAL" \/ i.errcode \in {Benign, None}
     /\ (resp.info.state = "nt" \/ resp.info.nt > 0) =>
           \E i \in resp.info.items : i.errtype = "NOTICE" /\ i.errcode = Benign

\* "A gateway error page containing some state field must not defeat the
\* network-abort logic": a 5xx counts toward the abort and burns no attempt.
\* A record is marked sent or rejected only on the word of the bureau about that
\* record.  An expired session, which the record is resent for, is read from 401 or
\* 403, and otherwise only from the errcode of a 200 body, where main_errcode hides
\* the top-level one: it then outweighs whatever state stands beside it.  A body
\* under any other status, 400 with a state included, is never taken for one.
SettledOnlyByState ==
  Interpreted =>
    /\ resp.http >= 500 => Outcome = Unreachable
    /\ Outcome.status \in Terminal =>
          resp.info.state \in {"ok", "nt", "er"} /\ resp.http \in {200, 400}
    /\ Outcome = Stale =>
          \/ resp.http \in {401, 403}
          \/ /\ resp.http = 200
             /\ \/ resp.info.main = SessionErr
                \/ resp.info.main = None /\ resp.errcode = SessionErr
=============================================================================
