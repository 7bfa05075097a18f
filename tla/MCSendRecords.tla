--------------------------- MODULE MCSendRecords ---------------------------
(* Small instances of SendRecords for TLC.                                 *)
EXTENDS SendRecords

CONSTANTS r1, r2, r3, r4

FourRecords == <<r1, r2, r3, r4>>
ThreeRecords == <<r1, r2, r3>>

AnyAnswer == BureauResults
\* The bureau is up, but the session may not be valid.
NoOutage == {Accepted, Refused, Stale}
=============================================================================
