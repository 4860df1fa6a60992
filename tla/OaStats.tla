------------------------------ MODULE OaStats -------------------------------
(***************************************************************************)
(* Player statistics (plugin-oastats.cpp): tables fetched from a web page, *)
(* ranked by their overall score and listed in divisions, by a command or, *)
(* one division after the other, by the timer.                             *)
(***************************************************************************)
EXTENDS Naturals, Sequences, SequencesExt, FiniteSets, Selections, TLC

CONSTANTS
    Tables,        \* tables of players: their name, score and opponents
    Dates,         \* what users write after an @
    Today,         \* year and month
    FilterFrom,    \* 2012
    MinOpponents,  \* 20
    Division,      \* 10, the players of a division
    Divisions,     \* oastats.divisions
    MaxResults,    \* oastats.max_results
    MaxMatches,    \* 30
    Lookups,       \* what two or more names on a command line may find
    PageNumbers,       \* n of !oatop #n
    ServedChannels,\* channels that ask for regular listings
    SizeT,         \* the values of size_t, which wraps
    Sort(_),       \* std::sort by score, the best first: equal ones in any order
    MaxTables      \* bound: changes of the table

VARIABLES
    table,     \* the page of the month, the rows in any order
    v,         \* get_oatop: v
    listing,   \* the rows listed so far
    division,  \* of a listing of the timer, the last one listed; 0 if none
    channels,  \* those the timer serves
    changes,   \* changes of the table
    steady,    \* the table has not changed since the listing began
    asked      \* "none", "oatop", "oastat" or "oa1v1", and its number

statVars == <<table, v, listing, division, channels, changes, steady, asked>>

Sorted(rows, s) ==
    /\ \A i, j \in DOMAIN s : i < j => s[i].score >= s[j].score
    /\ \A r \in ToSet(rows) \cup ToSet(s) :
          Cardinality({i \in DOMAIN s : s[i] = r}) = Cardinality({i \in DOMAIN rows : rows[i] = r})

Regulars(rows) == {r \in ToSet(rows) : r.to >= MinOpponents}

ASSUME OaStatsAssumption ==
    /\ Division \in Nat /\ Division > 1 /\ Divisions \in Nat /\ SizeT \in Nat
    /\ Divisions * Division < SizeT /\ Division < SizeT /\ PageNumbers \subseteq Nat
    /\ \A rows \in Tables :
          /\ \A r \in ToSet(rows) : r.score \in Nat /\ {"rank", "score"} \subseteq DOMAIN r
          /\ rows \in Seq(ToSet(rows))
          /\ \A sub \in {rows, Only(rows, Regulars(rows))} :
                Sort(sub) \in Seq(ToSet(rows)) /\ Sorted(sub, Sort(sub))

StatInit ==
    /\ table \in Tables /\ v = <<>> /\ listing = <<>> /\ division = 0
    /\ channels = {} /\ changes = 0 /\ steady = TRUE /\ asked = <<"none", 0>>

TableChanges ==
    /\ changes < MaxTables /\ changes' = changes + 1
    /\ table' \in Tables \ {table} /\ steady' = FALSE
    /\ UNCHANGED <<v, listing, division, channels, asked>>

(* extract_y_and_m: the last of each kind counts, a bad number leaves both *)
(* as they were; a month to come is one of last year.                      *)
YearAndMonth(params) ==
    LET Bad(d) == IF d.kind = "year" THEN d.number \notin 1000 .. 9999
                  ELSE d.number \notin 1 .. 12
        Read(s, d) == IF d.kind = "year" THEN [s EXCEPT !.year = d.number]
                      ELSE [s EXCEPT !.month = d.number - 1]
        date == FoldLeft(Read, Today, params)
    IN  IF \E i \in DOMAIN params : Bad(params[i]) THEN Today
        ELSE IF date.month > Today.month /\ date.year = Today.year
          THEN [date EXCEPT !.year = @ - 1]
        ELSE date

(* Only tables of June to December leave somebody out.                     *)
Eligible(rows, date) ==
    IF date.year >= FilterFrom /\ date.month >= 5
    THEN Only(rows, Regulars(rows)) ELSE rows

\* a plausible mistake: d is not reset
MutPlace(p, r) ==
    IF r.score # p.prev THEN [p EXCEPT !.rank = @ + p.d, !.prev = r.score]
    ELSE [p EXCEPT !.d = @ + 1]

(* One turn of the loop over the sorted scores.                            *)
Place(p, r) ==
    IF r.score # p.prev THEN [rank |-> p.rank + p.d, prev |-> r.score, d |-> 1]
    ELSE [p EXCEPT !.d = @ + 1]

Ranked(rows) ==
    LET s == Sort(rows)
        place[i \in 0 .. Len(s)] == IF i = 0 THEN [rank |-> 0, prev |-> 0, d |-> 1]
                                    ELSE Place(place[i - 1], s[i])
    IN  [i \in 1 .. Len(s) |-> [s[i] EXCEPT !.rank = place[i].rank]]

(* get_oatop: a page of which a part is missing is taken as it is.         *)
Standings(date) == Ranked(Eligible(table, date))
GetOatop(date) == v' = Standings(date)

(* oatop: min = (min - 1) * factor + 1 and the nine after it.              *)
FirstPlace(n) == ((n + SizeT - 1) * Division + 1) % SizeT
LastPlace(n) == (FirstPlace(n) + Division - 1) % SizeT
Listed(rows, n) ==
    SubSeq(rows, FirstPlace(n), IF LastPlace(n) < Len(rows) THEN LastPlace(n) ELSE Len(rows))

OaTop(params, n) ==
    /\ division = 0 /\ GetOatop(YearAndMonth(params)) /\ asked' = <<"oatop", n>>
    /\ listing' = Listed(Standings(YearAndMonth(params)), n) /\ steady' = TRUE
    /\ UNCHANGED <<table, division, channels, changes>>

(* regular_stats, on the timer's thread: each division has its own page.   *)
RegularStats ==
    /\ channels # {} /\ division < Divisions /\ division' = division + 1
    /\ GetOatop(YearAndMonth(<<>>)) /\ asked' = <<"oatop", 1>>
    /\ listing' = (IF division = 0 THEN <<>> ELSE listing)
                  \o Listed(Standings(YearAndMonth(<<>>)), division + 1)
    /\ steady' = (steady \/ division = 0)
    /\ UNCHANGED <<table, channels, changes>>
ListingOver ==
    /\ division = Divisions /\ division' = 0 /\ listing' = <<>> /\ asked' = <<"none", 0>>
    /\ UNCHANGED <<table, v, channels, changes, steady>>

(* rpc_lookup_players and rpc_match_player: the player finder's service,   *)
(* if that plugin is there; nobody is found without it.                    *)
LookedUp(finder, found) == IF finder THEN found ELSE {}
Matched(finder, name, found) == name \in LookedUp(finder, found)

(* oastat: the rows of the players found, the last in rank first (the rank *)
(* stands in the page), and no more than max_matches; a maximum of 0       *)
(* counts down past 0.                                                     *)
FirstOf(rows, n) == SubSeq(rows, 1, IF n < Len(rows) THEN n ELSE Len(rows))

OaStat(finder, found) ==
    /\ division = 0 /\ asked' = <<"oastat", MaxResults>>
    /\ LET rows == SelectSeq(Ranked(table), LAMBDA r : Matched(finder, r.name, found))
           last == SortSeq(rows, LAMBDA r, s : r.rank > s.rank)
       IN  listing' = IF MaxResults = 0 THEN last ELSE FirstOf(last, MaxResults)
    /\ UNCHANGED <<table, v, division, channels, changes, steady>>

(* oa1v1: the players found for the first name against those found for     *)
(* each other one, a row of the table for every pair that fits it.         *)
Opponents(finder, subs, r) ==
    {i \in 2 .. Len(subs) : /\ subs[i].handle # subs[1].handle
                            /\ Matched(finder, r.name, subs[1].matches)
                            /\ Matched(finder, r.foe, subs[i].matches)}
Fights(finder, subs) ==
    FlattenSeq([i \in DOMAIN table |->
                   [k \in 1 .. Cardinality(Opponents(finder, subs, table[i])) |-> table[i]]])
OneOnOne(finder, subs) ==
    /\ division = 0 /\ asked' = <<"oa1v1", 0>>
    /\ listing' = FirstOf(Fights(finder, subs), MaxMatches)
    /\ UNCHANGED <<table, v, division, channels, changes, steady>>

(* oastats_on, oastats_off                                                 *)
StatsOn(c) ==
    /\ c \notin channels /\ channels' = channels \cup {c}
    /\ UNCHANGED <<table, v, listing, division, changes, steady, asked>>
StatsOff(c) ==
    /\ c \in channels /\ division = 0 /\ channels' = channels \ {c}
    /\ UNCHANGED <<table, v, listing, division, changes, steady, asked>>

StatNext ==
    \/ TableChanges \/ RegularStats \/ ListingOver
    \/ \E params \in Dates, n \in PageNumbers : OaTop(params, n)
    \/ \E finder \in BOOLEAN, found \in SUBSET {table[i].name : i \in DOMAIN table} :
          OaStat(finder, found)
    \/ \E finder \in BOOLEAN, subs \in Lookups : OneOnOne(finder, subs)
    \/ \E c \in ServedChannels : StatsOn(c) \/ StatsOff(c)

StatSpec == StatInit /\ [][StatNext]_statVars
-----------------------------------------------------------------------------
(* A player's rank is one more than the number of better ones, equal ones  *)
(* share theirs (all are 0 where nobody has scored); a division lists the  *)
(* players of its places and no others, division 0 nobody; and the         *)
(* divisions that the timer lists one after the other show every player of *)
(* theirs once, unless the table changes meanwhile.                        *)
OaRanked ==
    /\ \A i \in DOMAIN v :
          v[i].rank = IF v[1].score = 0 THEN 0
                      ELSE 1 + Cardinality({j \in DOMAIN v : v[j].score > v[i].score})
    /\ asked[1] = "oatop" /\ division = 0 /\ asked[2] * Division < SizeT /\ steady =>
          ToSet(listing) = {v[i] : i \in {k \in DOMAIN v :
                               (k + Division - 1) \div Division = asked[2]}}
    /\ division > 0 /\ steady => listing = FirstOf(v, division * Division)
=============================================================================
