---------------------------- MODULE LineDelivery ----------------------------
(***************************************************************************)
(* What the enrichment stage promises of data lines, whatever crashes and  *)
(* however files are named: the lines of a file may come and go in the     *)
(* output folders until the file is settled; it is settled only when every *)
(* line is offered there or delivered, and from then on a line leaves the  *)
(* folders only into the hands of the uploader or an operator.             *)
(***************************************************************************)
CONSTANTS
  Files,
  Lines,
  FileOf        \* the file each line is in

VARIABLES
  offered,      \* lines in the inbox or in quarantine
  delivered,    \* lines the uploader has ingested or an operator has taken
  settled       \* files recorded as done

Init == offered = {} /\ delivered = {} /\ settled = {}

\* An attempt on an unsettled file touches its own lines only.
Attempt(f) ==
  /\ f \notin settled
  /\ offered' \subseteq Lines
  /\ \A l \in Lines : FileOf[l] # f => (l \in offered' <=> l \in offered)
  /\ UNCHANGED <<delivered, settled>>

Deliver ==
  /\ delivered \subseteq delivered' /\ delivered' \subseteq delivered \cup offered
  /\ offered' \subseteq offered /\ offered \subseteq offered' \cup delivered'
  /\ UNCHANGED settled

Settle(f) ==
  /\ {l \in Lines : FileOf[l] = f} \subseteq offered \cup delivered
  /\ settled' = settled \cup {f}
  /\ UNCHANGED <<offered, delivered>>

Next == Deliver \/ \E f \in Files : Attempt(f) \/ Settle(f)

Spec == Init /\ [][Next]_<<offered, delivered, settled>>
=============================================================================
