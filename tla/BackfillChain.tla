---------------------------- MODULE BackfillChain ----------------------------
(***************************************************************************)
(* backfill_deallife.py: the generator that takes the subjects the bureau  *)
(* refused for a jump of the overdue days (2091) and writes them again,    *)
(* with the one current slice of a deal expanded into a chain of monthly   *)
(* slices from the overdue start on.                                       *)
(*                                                                         *)
(* A date is the number of its day and a period the number of its month    *)
(* in a calendar that LastDay describes; None is a date that does not      *)
(* parse, a period outside the calendar or an end date that is absent, and *)
(* Malformed an end date that does not parse or a period that is no        *)
(* number.  A slice keeps the fields the algorithm reads, a deal is the    *)
(* sequence of its slices, and a line its deals.  The size of a line is    *)
(* the number of its slices.                                               *)
(***************************************************************************)
EXTENDS Integers, Sequences, FiniteSetsExt

CONSTANTS
  Months,       \* the months of the calendar
  LastDay,      \* the last day of each of them, and the day before the first
  MaxStep,      \* --max-step
  MaxSlices,    \* slices that fit into MAX_LINE_BYTES
  None, Malformed,
  Code,         \* --errcode
  Scenes        \* the inputs considered: records of tables and options

Month == 1..Months
MonthOf(day) == CHOOSE m \in Month : day \in (LastDay[m - 1] + 1)..LastDay[m]
Day == 1..LastDay[Months]

\* dlmonth and dlyear; dldateclc; dldpf; dldayexp; whether dlamtexp is not 0; the
\* month of dldff; whether dlflstat asserts that the deal is over.
Slice == [month : Month \cup {None, Malformed}, clc : Day \cup {None},
          dpf : Day \cup {None}, exp : Nat, owed : BOOLEAN,
          ff : Month \cup {None, Malformed}, over : BOOLEAN]
Empty == [month |-> None, clc |-> None, dpf |-> None, exp |-> 0, owed |-> FALSE,
          ff |-> None, over |-> FALSE]

\* A row of the records table, and the options of a run (0: no --limit, no --file-id).
Row == [file : Nat \ {0}, rejected : BOOLEAN, code : STRING, parses : BOOLEAN,
        deals : Seq(Seq(Slice))]
Option == [over : BOOLEAN, multi : BOOLEAN, limit : Nat, file : Nat]

\* Months are long enough for the self-check's constants, and steps of one month
\* are within the step the operator allows.
ASSUME BackfillAssumption ==
  /\ Months \in Nat /\ LastDay \in [0..Months -> Nat] /\ LastDay[0] = 0
  /\ \A m \in Month : LastDay[m] - LastDay[m - 1] \in 28..31
  /\ MaxStep \in Nat /\ MaxStep >= 31 /\ MaxSlices \in Nat
  /\ None # Malformed /\ {None, Malformed} \cap Month = {}
  /\ \A s \in Scenes : s.tables \subseteq Seq(Row) /\ s.options \subseteq Option

VARIABLES
  rows,         \* the records table
  opt,          \* the command line
  n,            \* lines of the source that have been processed
  out,          \* the output file: the deals of each line, and its source line
  pc            \* "loop", "done", or "raised" by the self-check

vars == <<rows, opt, n, out, pc>>

-----------------------------------------------------------------------------
\* The elements of a sequence at some of its positions, in order: its i-th element
\* is at the position that i of them do not exceed.
At(seq, positions) ==
  [i \in 1..Cardinality(positions) |->
     seq[CHOOSE k \in positions : Cardinality({j \in positions : j <= k}) = i]]

\* read_db_lines
Refused == {i \in DOMAIN rows : rows[i].rejected /\ rows[i].code = Code}
FileId == IF opt.file # 0 THEN opt.file
          ELSE IF Refused = {} THEN 0 ELSE Max({rows[i].file : i \in Refused})
Lines == At(rows, {i \in Refused : rows[i].file = FileId})

\* _clean
Clean(s) == IF s.ff = Malformed THEN [s EXCEPT !.ff = None] ELSE s

\* Mutants: an end date in slices that it does not belong to; the producer's own
\* number of days.
KeepEndDate(s, clc, historical) ==
  [Clean(s) EXCEPT !.month = MonthOf(clc), !.clc = clc,
                   !.exp = IF clc > s.dpf THEN clc - s.dpf ELSE 0]
KeepOwnDays(s, clc, historical) ==
  [Clean(s) EXCEPT !.month = MonthOf(clc), !.clc = clc,
                   !.exp = IF historical THEN clc - s.dpf ELSE @,
                   !.ff = IF historical THEN None ELSE @]

Overdue(clc, dpf) == IF clc > dpf THEN clc - dpf ELSE 0

\* _make_slice: the period of a slice is the month of its calculation date, whatever
\* the deal's own; only a historical slice drops the end date.
MakeSlice(s, clc, historical) ==
  [Clean(s) EXCEPT !.month = MonthOf(clc), !.clc = clc, !.exp = Overdue(clc, s.dpf),
                   !.ff = IF historical THEN None ELSE @]

\* The reasons of expand_deal to leave a deal as it is.
Kept(s) == \/ s.exp <= MaxStep
           \/ s.dpf = None
           \/ s.over /\ ~opt.over
           \/ ~s.owed
           \/ s.month = None

\* What the others go through, unless the period is no number: int() raises then.
Expands(s) == ~Kept(s) /\ s.month # Malformed

FinalClc(s) == IF s.clc = None THEN LastDay[s.month] ELSE s.clc

\* month_iter, with the slice of each month.
History(s) ==
  LET start == MonthOf(s.dpf)
  IN  [i \in 1..(s.month - start) |-> MakeSlice(s, LastDay[start + i - 1], TRUE)]

\* Mutants: slices of zero days stay; the month of the overdue start is left out.
ChainWithZero(s) ==
  Append(History(s), MakeSlice(s, FinalClc(s), FALSE))
ChainFromSecond(s) ==
  Append(IF History(s) = <<>> THEN <<>> ELSE Tail(History(s)),
         MakeSlice(s, FinalClc(s), FALSE))

\* The chain of expand_deal.
Chain(s) ==
  LET history == History(s)
      overdue == {i \in DOMAIN history : history[i].exp # 0}
  IN  Append(At(history, overdue), MakeSlice(s, FinalClc(s), FALSE))

\* expand_deal is called for the one deal of a subject, or with --include-multi-deal.
IsTried(deals) == Len(deals) = 1 \/ opt.multi
IsExpanded(deals, deal) == IsTried(deals) /\ Len(deal) = 1 /\ Expands(deal[1])
HasBadPeriod(deals) ==
  /\ IsTried(deals)
  /\ \E i \in DOMAIN deals :
        Len(deals[i]) = 1 /\ ~Kept(deals[i][1]) /\ deals[i][1].month = Malformed

\* A subject with a bad period gets no further than this.
ExpandDeal(deal) ==
  IF Len(deal) # 1 THEN deal
  ELSE IF Expands(deal[1]) THEN Chain(deal[1]) ELSE <<Clean(deal[1])>>

\* expand_subject
ExpandSubject(deals) ==
  [i \in DOMAIN deals |->
     IF IsTried(deals) THEN ExpandDeal(deals[i])
     ELSE IF deals[i] = <<>> THEN <<Empty>> ELSE <<Clean(Head(deals[i]))>>]

\* assert_chain_sane of one deal
ChainSane(life) ==
  Len(life) >= 2 =>
    /\ life[1].exp <= 31
    /\ \A i \in DOMAIN life : (life[i].exp = 0) = ~life[i].owed
    /\ \A i \in 2..Len(life) :
          /\ life[i].exp >= life[i - 1].exp
          /\ life[i].exp - life[i - 1].exp <= MaxStep
          /\ life[i].month > life[i - 1].month

Slices(deals) == SumFunction([i \in DOMAIN deals |-> Len(deals[i])])

-----------------------------------------------------------------------------
Init ==
  \E s \in Scenes :
     /\ rows \in s.tables
     /\ opt \in s.options
     /\ n = 0
     /\ out = <<>>
     /\ pc = "loop"

Line == Lines[n + 1]
Result == ExpandSubject(Line.deals)
ExpandedIn(deals) == {i \in DOMAIN deals : IsExpanded(deals, deals[i])}

MoreLines == pc = "loop" /\ n < Len(Lines) /\ (opt.limit = 0 \/ n < opt.limit)
Write(deals) == out' = Append(out, [src |-> n + 1, deals |-> deals])

\* A line that is no JSON.
PassThrough ==
  /\ MoreLines /\ ~Line.parses
  /\ Write(Line.deals)
  /\ n' = n + 1
  /\ UNCHANGED <<rows, opt, pc>>

Expanded == MoreLines /\ Line.parses /\ ~HasBadPeriod(Line.deals)
Checked == Expanded /\ \A i \in DOMAIN Result : ChainSane(Result[i])

\* Mutant: an oversized line is written expanded.
WriteOversized ==
  /\ Checked /\ Slices(Result) > MaxSlices
  /\ Write(Result)
  /\ n' = n + 1
  /\ UNCHANGED <<rows, opt, pc>>

Fits == Slices(Result) <= MaxSlices

WriteExpanded ==
  /\ Checked /\ Fits
  /\ Write(Result)
  /\ n' = n + 1
  /\ UNCHANGED <<rows, opt, pc>>

\* The original line stands for one that is too long.
WriteOriginal ==
  /\ Checked /\ ~Fits
  /\ Write(Line.deals)
  /\ n' = n + 1
  /\ UNCHANGED <<rows, opt, pc>>

\* assert_chain_sane raises out of main; what has been written stays.
SelfCheckRaises ==
  /\ Expanded
  /\ \E i \in DOMAIN Result : ~ChainSane(Result[i])
  /\ pc' = "raised"
  /\ UNCHANGED <<rows, opt, n, out>>

\* So does int() of a dlyear or dlmonth that is no number.
BadPeriodRaises ==
  /\ MoreLines /\ Line.parses /\ HasBadPeriod(Line.deals)
  /\ pc' = "raised"
  /\ UNCHANGED <<rows, opt, n, out>>

Done ==
  /\ pc = "loop" /\ ~MoreLines
  /\ pc' = "done"
  /\ UNCHANGED <<rows, opt, n, out>>

Next ==
  PassThrough \/ WriteExpanded \/ WriteOriginal \/ SelfCheckRaises \/ BadPeriodRaises \/ Done

Spec == Init /\ [][Next]_vars
-----------------------------------------------------------------------------
TypeOK ==
  /\ n \in 0..Len(Lines) /\ Len(out) <= n
  /\ \A i \in DOMAIN out : out[i].src \in DOMAIN Lines /\ out[i].deals \in Seq(Seq(Slice))
  /\ pc \in {"loop", "done", "raised"}

\* A deal whose calculation date lies in its own period.
Sound(s) == s.month \in Month /\ (s.clc = None \/ MonthOf(s.clc) = s.month)

\* "Self-check on every expanded deal": one assertion ends the whole run in the
\* middle of its output, and so does a period that is no number.  Neither happens but
\* for a deal of the line in hand that came with several slices, or that is to be
\* expanded and is not calculated in its own period, however wild the other fields
\* and lines.
SoundInputIsProcessed ==
  pc = "raised" =>
    /\ n + 1 \in DOMAIN Lines /\ IsTried(Lines[n + 1].deals)
    /\ \E j \in DOMAIN Lines[n + 1].deals :
          LET deal == Lines[n + 1].deals[j]
          IN  \/ Len(deal) > 1
              \/ Len(deal) = 1 /\ ~Kept(deal[1]) /\ ~Sound(deal[1])

\* The deals a chain was written for, as pairs of the source slice and the chain.
Chains ==
  UNION {LET src == Lines[out[i].src].deals
         IN  {<<src[j][1], out[i].deals[j]>> :
                j \in {k \in ExpandedIn(src) : out[i].deals # src}} : i \in DOMAIN out}

\* The bureau must see the overdue days grow without a gap: the written chain of a
\* deal calculated in its own period has every month from the overdue start to that
\* period, but for a first month on whose last day the deal was not overdue yet.
ChainIsUnbroken ==
  \A c \in Chains : Sound(c[1]) =>
     {c[2][i].month : i \in DOMAIN c[2]} =
        {m \in MonthOf(c[1].dpf)..c[1].month : LastDay[m] # c[1].dpf} \cup {c[1].month}

\* "dldayexp grows smoothly (steps of 28-31 days)" (backfill_deallife.py:4): so
\* it is for every deal calculated in its own period; the last step may be short.
OverdueGrowsByTheMonth ==
  \A c \in Chains : Sound(c[1]) =>
     /\ Len(c[2]) > 1 => c[2][1].exp \in 1..31
     /\ \A i \in 2..Len(c[2]) : c[2][i].exp - c[2][i - 1].exp \in
           (IF i = Len(c[2]) THEN 1 ELSE 28)..31

\* What the bureau refuses a package for.  A malformed end date (2001): no slice of a
\* chain has one.  Zero overdue days beside an amount (2051): no slice has them but
\* the last, if the deal was calculated before it was overdue; a chain of one slice is
\* not checked.  An end date outside its own period (2056): no slice but the last has
\* an end date, and the last one's is that of the deal, so it lies in the period if
\* the deal was calculated, and ended, in its own period.
ChainBreaksNoRule ==
  \A c \in Chains :
     /\ \A i \in DOMAIN c[2] : c[2][i].ff # Malformed
     /\ \A i \in 1..(Len(c[2]) - 1) : c[2][i].ff = None /\ c[2][i].exp > 0
     /\ c[2][Len(c[2])].exp = 0 =>
          c[1].dpf >= (IF c[1].clc = None THEN LastDay[c[1].month] ELSE c[1].clc)
     /\ (Sound(c[1]) /\ c[1].ff \in {None, Malformed, c[1].month}) =>
          \A i \in DOMAIN c[2] : c[2][i].ff \in {None, c[2][i].month}

\* "Precise scope": a run that ends without a limit has written every subject the
\* bureau refused with the code in the newest such file, once and in order:
\* expanded, or, if it does not parse or is too long expanded, as it was.
EveryStuckSubjectIsWritten ==
  (pc = "done" /\ opt.limit = 0 /\ opt.file = 0) =>
    LET newest == {i \in Refused : \A j \in Refused : rows[j].file <= rows[i].file}
    IN  /\ Len(out) = Cardinality(newest)
        /\ \A i \in DOMAIN out :
              LET expanded == ExpandSubject(Lines[i].deals)
              IN  /\ out[i].src = i
                  /\ out[i].deals = IF Lines[i].parses /\ Slices(expanded) <= MaxSlices
                                    THEN expanded ELSE Lines[i].deals
=============================================================================
