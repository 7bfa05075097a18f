---------------------------- MODULE MCEnrichLine ----------------------------
(* A small instance of EnrichLine for TLC.                                 *)
EXTENDS EnrichLine

CONSTANTS u1, u2, d1, d2, a, b, x, y

GoodLine(deals) == [form |-> "object", inn |-> a, deals |-> deals, named |-> TRUE,
                    bdate |-> "agrees"]
NoNumber == [number |-> None, issuer |-> FALSE, date |-> FALSE]
FullDoc == [number |-> x, issuer |-> TRUE, date |-> TRUE]

\* The document: a good line with one deal or two, every combination of sources,
\* up to three other applications.
DocScene ==
  [users |-> {u1}, inns |-> {a},
   lines |-> {GoodLine(<<d1>>), GoodLine(<<d1, d2>>)},
   rows  |-> [user : {u1}, applied : {1, 2}, snap : Source, phone : {TRUE}],
   usrs  |-> Source,
   peers |-> {[number |-> x, date |-> TRUE, at |-> 1],
              [number |-> x, date |-> FALSE, at |-> 2],
              [number |-> y, date |-> TRUE, at |-> 3]}]

\* The client: lines with up to two deals, two clients whose applications differ
\* in all but the document.
ClientScene ==
  [users |-> {u1, u2}, inns |-> {a, b, None},
   lines |-> [form : {"object"}, inn : {a, b, None}, named : BOOLEAN,
              bdate : {"missing", "agrees", "contradicts", "unchecked"},
              deals : {<<>>, <<d1>>, <<None>>, <<d1, d2>>, <<d2, d1>>, <<d1, None>>}]
             \cup {[GoodLine(<<d1>>) EXCEPT !.form = form] : form \in {"value", "broken"}},
   rows  |-> [user : {u1, u2}, applied : 0..2, phone : BOOLEAN, snap : {NoNumber}],
   usrs  |-> {FullDoc, NoNumber},
   peers |-> {}]

BothScenes == {DocScene, ClientScene}
=============================================================================
