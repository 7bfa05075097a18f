----------------------------- MODULE MCBackfill -----------------------------
(* A small instance of BackfillChain for TLC.                              *)
EXTENDS BackfillChain

\* October to February of a leap year: the chain crosses the new year and the
\* 29th, and is longer than MaxStep.
WinterMonths == [m \in 0..5 |-> <<0, 31, 61, 92, 123, 152>>[m + 1]]

\* The first two, the middle and the last two days of every month.
Edges == UNION {{LastDay[m - 1] + 1, LastDay[m - 1] + 2, LastDay[m - 1] + 15,
                 LastDay[m] - 1, LastDay[m]} : m \in Month}

Of(deals) == [file |-> 1, rejected |-> TRUE, code |-> Code, parses |-> TRUE, deals |-> deals]
Plain == [over |-> FALSE, multi |-> FALSE, limit |-> 0, file |-> 0]

\* One deal of every shape.
OneDeal ==
  [tables  |-> {<<Of(<<<<s>>>>)>> :
                  s \in [month : Month \cup {None, Malformed}, clc : Edges \cup {None},
                         dpf : Edges \cup {None}, exp : {0, MaxStep, MaxStep + 1},
                         owed : BOOLEAN, ff : Month \cup {None, Malformed}, over : {FALSE}]},
   options |-> {Plain}]

Stuck == [month |-> 4, clc |-> None, dpf |-> 40, exp |-> 300, owed |-> TRUE,
          ff |-> 4, over |-> FALSE]
Closed == [Stuck EXCEPT !.over = TRUE, !.ff = Malformed]
Long == [Stuck EXCEPT !.month = 5, !.dpf = 1]
Early == [Stuck EXCEPT !.clc = 50]
NoNumber == [Stuck EXCEPT !.month = Malformed]
Older == [Stuck EXCEPT !.month = 3, !.exp = 280]

\* Subjects of several shapes: expandable, closed, two deals, none, a deal with
\* two slices, one without, one whose chain fails the self-check, one too long, one
\* whose period is no number beside another.
Subjects == {<<<<Stuck>>>>, <<<<Closed>>>>, <<<<Stuck>>, <<Closed>>>>, <<>>, <<<<Older, Stuck>>>>,
             <<<<>>, <<Stuck>>>>, <<<<Early>>>>, <<<<Long>>>>, <<<<Stuck>>, <<NoNumber>>>>}

\* Tables of three rows over two files.
ThreeRows ==
  LET refused == {[Of(d) EXCEPT !.file = f] : d \in Subjects, f \in {1, 2}}
      others  == {[Of(<<<<Stuck>>>>) EXCEPT !.file = 2, !.rejected = FALSE],
                  [Of(<<<<Stuck>>>>) EXCEPT !.file = 2, !.code = "2090"],
                  [Of(<<>>) EXCEPT !.file = 2, !.parses = FALSE]}
  IN  [tables  |-> [1..3 -> refused \cup others],
       options |-> [over : BOOLEAN, multi : BOOLEAN, limit : {0, 1}, file : {0, 1}]]

BothScenes == {OneDeal, ThreeRows}
=============================================================================
