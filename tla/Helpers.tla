------------------------------ MODULE Helpers -------------------------------
(***************************************************************************)
(* Small algorithms of the helpers, each compared with what it is for:     *)
(* lists of ranges, the calendar, colours, the questions that quiz-rip     *)
(* takes from web pages, and those of Markup and Help.  The variables are  *)
(* a case and what the program makes of it.                                *)
(***************************************************************************)
EXTENDS Markup, Help

CONSTANTS
    RangeLists,    \* sequences of ranges: lower and upper bound, or -1
    Days,          \* days to count back from, years since 1900
    BeforeDMap,    \* what may stand in memory in front of dmap, as an int
    Palette,       \* irc_colors
    Pages,         \* question pages: sequences of their lines
    Documents,     \* pages as sequences of tokens
    Texts,         \* texts as sequences of characters
    Asks           \* commands !help is asked about

VARIABLES case, answer
caseVars == <<case, answer>>

(* parse_rangelist: a range without a number in front or the wrong way     *)
(* round is passed over, one without an upper bound is a single number.    *)
RangeOf(r) ==
    LET upper == IF r[2] = -1 THEN r[1] ELSE r[2]
    IN  IF r[1] = -1 \/ upper < r[1] THEN <<>>
        ELSE [i \in 1 .. upper - r[1] + 1 |-> r[1] + i - 1]
ParseRangeList(list) == FlattenSeq([i \in DOMAIN list |-> RangeOf(list[i])])
-----------------------------------------------------------------------------
(* cal.h: months from 0, years since 1900.                                 *)
DMap == <<31, 28, 31, 30, 31, 30, 31, 31, 30, 31, 30, 31>>

\* a plausible mistake: every fourth year
MutIsLeapYear(y) == y % 4 = 0

(* date_t passes tm_year: the century rule is that of other years.         *)
IsLeapYear(y) == (y % 4 = 0 /\ y % 100 # 0) \/ y % 400 = 0
DaysInMonth(y, m) == DMap[m + 1] + (IF m = 1 /\ IsLeapYear(y) THEN 1 ELSE 0)

(* dec_month: January goes to -1 of the year before, and dec_day of the     *)
(* first of January reads dmap[-1], which is not part of the array.        *)
DecMonth(d) == [d EXCEPT !.year = IF d.mon = 0 THEN @ - 1 ELSE @, !.mon = @ - 1]
DecDay(d, before) ==
    LET m == IF d.mday = 1 THEN DecMonth(d) ELSE d
        day == IF d.mday # 1 THEN d.mday
               ELSE 1 + (IF m.mon = -1 THEN before ELSE DaysInMonth(m.year, m.mon))
        yday == IF d.yday = 0 THEN 365 + (IF IsLeapYear(m.year) THEN 1 ELSE 0)
                ELSE d.yday
    IN  [m EXCEPT !.mday = day - 1, !.yday = yday - 1]
-----------------------------------------------------------------------------
(* irc.cpp: the nearest colour, the first of several; distances are        *)
(* compared squared.                                                       *)
Difference(a, b) == IF a < b THEN b - a ELSE a - b
Distance(c1, c2) ==
    LET Square(n) == n * n
    IN  Square(Difference(c1[1], c2[1])) + Square(Difference(c1[2], c2[2]))
        + Square(Difference(c1[3], c2[3]))
ClosestColor(c) ==
    CHOOSE i \in DOMAIN Palette :
        /\ \A j \in DOMAIN Palette : Distance(Palette[i], c) <= Distance(Palette[j], c)
        /\ \A j \in 1 .. i - 1 : Distance(Palette[i], c) # Distance(Palette[j], c)
-----------------------------------------------------------------------------
(* quiz-rip: a line is a question, the page that says whether the choice   *)
(* after it is right (which may not be had), or a choice.                  *)
RipLine(s, l) ==
    IF l.kind = "question" THEN [out |-> Append(s.out, l), star |-> FALSE]
    ELSE IF l.kind = "check" THEN [s EXCEPT !.star = @ \/ (l.had /\ l.right)]
    ELSE [out |-> Append(s.out, [l EXCEPT !.right = s.star]), star |-> FALSE]
Ripped(page) ==
    LET after[i \in 0 .. Len(page)] ==
            IF i = 0 THEN [out |-> <<>>, star |-> FALSE] ELSE RipLine(after[i - 1], page[i])
    IN  after[Len(page)].out

CaseInit ==
    /\ answer = <<>>
    /\ \/ case \in [kind : {"ranges"}, of : RangeLists]
       \/ case \in [kind : {"day"}, of : Days]
       \/ case \in [kind : {"color"}, of : DOMAIN Palette]
       \/ case \in [kind : {"page"}, of : Pages]
       \/ case \in [kind : {"document"}, of : Documents]
       \/ case \in [kind : {"text"}, of : Texts]
       \/ case \in [kind : {"help"}, of : Asks]

CaseNext ==
    /\ answer = <<>> /\ UNCHANGED case
    /\ \/ case.kind = "ranges" /\ answer' = <<ParseRangeList(case.of)>>
       \/ /\ case.kind = "day"
          /\ \E before \in BeforeDMap : answer' = <<DecDay(case.of, before)>>
       \/ case.kind = "color" /\ answer' = <<ClosestColor(Palette[case.of])>>
       \/ case.kind = "page" /\ answer' = <<Ripped(case.of)>>
       \/ case.kind = "document" /\ answer' = <<Tags(case.of, <<"t">>)>>
       \/ case.kind = "text" /\ answer' = <<UrlDecode(UrlEncode(case.of))>>
       \/ case.kind = "help" /\ answer' = <<BotHelp(case.of)>>

CaseSpec == CaseInit /\ [][CaseNext]_caseVars
-----------------------------------------------------------------------------
(* What the cases are for, said without the algorithm.                     *)
InRange(r, n) == r[1] # -1 /\ n >= r[1] /\ (n <= r[2] \/ (r[2] = -1 /\ n = r[1]))

(* The Gregorian number of a day.                                          *)
Leap(year) == (year % 4 = 0 /\ year % 100 # 0) \/ year % 400 = 0
DaysBefore == <<0, 31, 59, 90, 120, 151, 181, 212, 243, 273, 304, 334>>
DayOfYear(d) ==
    DaysBefore[d.mon + 1] + d.mday - 1 + (IF d.mon > 1 /\ Leap(d.year + 1900) THEN 1 ELSE 0)

(* A choice is right if a page that was had, after whatever stands in      *)
(* front of it, says so.                                                   *)
SaidRight(page, k) ==
    \E i \in 1 .. k - 1 : /\ page[i].kind = "check" /\ page[i].had /\ page[i].right
                         /\ \A j \in i .. k - 1 : page[j].kind = "check"

(* A list of ranges stands for the numbers in its ranges and no others.    *)
RangesAgree ==
    \A n \in 0 .. 9 :
        n \in ToSet(answer[1]) <=> \E i \in DOMAIN case.of : InRange(case.of[i], n)

(* A day counted back is the day before, by the calendar and in its year.  *)
(* The day before the first of January is put in month 00, where cal.h has *)
(* months from 01 to 12, on a day taken from what stands in front of dmap: *)
(* of it only the year is right, and its number in the year but for the    *)
(* years whose February the program has wrong.  Of the day before the      *)
(* first of March of such a year only that number is.                      *)
WrongFebruary(year) == year % 400 \in {0, 100}
NewYear(d) == d.mon = 0 /\ d.mday = 1
AfterWrongFebruary(d) == d.mon = 2 /\ d.mday = 1 /\ WrongFebruary(d.year)
LastDay(year) == 364 + (IF Leap(year + 1900) THEN 1 ELSE 0)

DaysAgree ==
    LET d == case.of
        back == answer[1]
    IN  /\ NewYear(d) => /\ back.year = d.year - 1
                         /\ ~WrongFebruary(back.year) => back.yday = LastDay(back.year)
        /\ ~NewYear(d) => back.year = d.year /\ back.yday = DayOfYear(d) - 1
        /\ ~NewYear(d) /\ ~AfterWrongFebruary(d) =>
              DayOfYear(back) = DayOfYear(d) - 1 /\ back.mday \in 1 .. 31

(* A ripped question's choices are all there in their order, the right     *)
(* ones marked and no others.                                              *)
PagesAgree ==
    LET kept == {k \in DOMAIN case.of : case.of[k].kind # "check"}
    IN  /\ Len(answer[1]) = Cardinality(kept)
        /\ \A k \in kept :
              LET l == answer[1][Cardinality({i \in kept : i <= k})]
              IN  /\ l.text = case.of[k].text
                  /\ l.kind = "choice" => (l.right <=> SaidRight(case.of, k))

(* What the cases are: ranges of naturals, any days that mktime has        *)
(* normalised, different colours, lines, tokens, texts, plugins, and       *)
(* commands whose keys have a word.                                        *)
Bounds == Nat \cup {-1}
Lines == [kind : {"question", "choice", "check"}, text : STRING, had : BOOLEAN, right : BOOLEAN]
Tokens == [kind : {"open", "close", "text"}, name : Seq(STRING)]
Calendar == [year : Nat, mon : 0 .. 11, mday : 1 .. 31, yday : Nat]

ASSUME HelpersAssumption ==
    /\ RangeLists \subseteq Seq(Bounds \X Bounds)
    /\ \A d \in Days : d \in Calendar /\ d.yday = DayOfYear(d)
    /\ BeforeDMap \subseteq Int
    /\ Palette \in Seq(Nat \X Nat \X Nat)
    /\ \A i, j \in DOMAIN Palette : Palette[i] = Palette[j] => i = j
    /\ Pages \subseteq Seq(Lines) /\ Documents \subseteq Seq(Tokens)
    /\ Texts \subseteq Seq(STRING)
    /\ LoadedPlugins \in Seq(ToSet(LoadedPlugins))
    /\ TriggerWords \in Seq([words : Seq(STRING) \ {<<>>}, help : BOOLEAN])

(* The helpers do what they are for: ranges, days and question pages, a    *)
(* colour of the palette is its own nearest, elements and texts of a web   *)
(* page come out of it, and !help tells what it may.                       *)
HelpersAgree ==
    answer # <<>> =>
        /\ case.kind = "ranges" => RangesAgree
        /\ case.kind = "day" => DaysAgree
        /\ case.kind = "color" => answer[1] = case.of
        /\ case.kind = "page" => PagesAgree
        /\ case.kind = "document" => TakenApart(case.of, <<"t">>)
        /\ case.kind = "text" => AskedRight(case.of)
        /\ case.kind = "help" => HelpTold(case.of)
=============================================================================
