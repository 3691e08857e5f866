------------------------------ MODULE SeasonMC ------------------------------
(***************************************************************************)
(* The regular season's claims, the playoffs and pages of given clauses    *)
(* read different data and are explored in disjoint behaviours of one run: *)
(* those of the playoffs and of given pages keep season unstarted, the     *)
(* others keep cup = NoCup.                                                *)
(***************************************************************************)
EXTENDS PageReading, Postseason

Fixture(h, a, day, at) == [home |-> h, away |-> a, matchday |-> day, kickoff |-> at]

MCTeams == 1 .. 4
MCSchedule ==
    <<Fixture(1, 2, 1, 10), Fixture(3, 4, 1, 11),
      Fixture(4, 1, 2, 20), Fixture(2, 3, 2, 20),
      Fixture(1, 3, 3, 30), Fixture(2, 4, 3, 30)>>
MCScores == {<<1, 0>>, <<0, 1>>, <<1, 1>>, <<0, 2>>}
Two == {<<1, 0>>, <<0, 0>>}
Three == {<<1, 0>>, <<1, 1>>, <<0, 2>>}
MCStarts ==
    {<<a, <<1, 0>>, <<>>, <<>>, <<>>, <<>> >> : a \in Two}
    \cup {<< <<1, 0>>, <<1, 0>>, c, d, <<>>, <<>> >> : c \in Three, d \in Three}
    \cup {<< <<0, 0>>, <<0, 2>>, <<1, 0>>, <<1, 1>>, <<>>, <<>> >>}
NoSeason == [f \in DOMAIN Schedule |-> <<>>]
MCPartner == <<2, 1>>

(* Four seeds with faults and undecided seeds; the byes and the eight      *)
(* seeds of past formats with a faithful source.                           *)
Quiet(format, reversed) ==
    [format |-> format, vague |-> {}, reversed |-> reversed, ordered |-> TRUE, faulty |-> FALSE]
MCCups ==
    {[Quiet(Four, FALSE) EXCEPT !.vague = v, !.ordered = FALSE, !.faulty = TRUE] :
        v \in {{}, {4}, {3, 4}, {2, 3, 4}, {1, 2, 3, 4}}}
    \cup {Quiet(Byes, FALSE), Quiet(Byes, TRUE), Quiet(Eight, TRUE)}

(* Pages of given clauses, with matches 3 to 6 left, for team 1, who plays *)
(* matches 3 and 5, and headings of some of its results.  A race: team 2 takes at most so many points more, the *)
(* score deciding when it takes as many.  Two clauses that ask for results *)
(* of teams 3 and 2 and of team 1's own.  A choice about team 3 and one    *)
(* about team 4, some pairs of which are missing.                          *)
PageLeft == 3 .. 6
Judge(u) == Condition(1, u, <<AtLeast("difference", 1)>>)
PageClause(cube, conditions) == [cube |-> cube @@ [f \in PageLeft |-> Outcomes], conditions |-> conditions]
Distanced(a, most) == Points([f \in {4, 6} |-> a[f]], 2) - Points([f \in {3, 5} |-> a[f]], 1) - most
Race(most, tie) ==
    Merged({PageClause([f \in PageLeft |-> {a[f]}], IF tie /\ Distanced(a, most) = 0 THEN {Judge(2)} ELSE {}) :
               a \in {a \in [PageLeft -> Outcomes] : Distanced(a, most) <= 0}}, PageLeft)
Masks(f, t) == {{WinFor(f, t), "draw"}, Outcomes}
Cubes == {PageClause((4 :> x) @@ (6 :> y), c) :
             x \in Masks(4, 3) \cup {{"home"}, {"away"}}, y \in Masks(6, 2), c \in {{}, {Judge(2)}}}
OwnParts == {(3 :> {"away"}), (3 :> {"away", "draw"}) @@ (5 :> {"home"})}
Choice(f, u) == {PageClause(f :> {"home"}, {}), PageClause(f :> {"draw"}, {Judge(u)})}
Joint(a, b) ==
    PageClause((2 :> {"draw", "away"}) @@ [f \in PageLeft |-> a.cube[f] \cap b.cube[f]],
               a.conditions \cup b.conditions)
PageOf(clauses, limit) == [team |-> 1, clauses |-> clauses, limit |-> limit, combos |-> {}]
ColumnFor(combos) == [team |-> 1, clauses |-> {}, limit |-> 64, combos |-> combos]
MCPages ==
    {PageOf(race, limit) : race \in {Race(most, tie) : most \in -3 .. 6, tie \in BOOLEAN}, limit \in {1, 64}}
    \cup {PageOf({[a EXCEPT !.cube = own @@ @], b}, 64) : a \in Cubes, b \in Cubes, own \in OwnParts}
    \cup {PageOf(pairs, 64) :
             pairs \in SUBSET {Joint(a, b) : a \in Choice(4, 3), b \in Choice(6, 4)} \ {{}}}
    \cup {ColumnFor(combos) : combos \in SUBSET [{3, 5} -> Outcomes] \ {{}}}

(* The views of the clinching page; the seeding page and the forecast      *)
(* without an assumption and with one on a match of the last matchday, or  *)
(* of the first one, which is played by then.                              *)
Query(view, fixed) == [view |-> view, fixed |-> fixed]
MCQueries ==
    {Query("next-matchday", None), Query("rest-of-season", None), Query("seeding", None)}
    \cup {Query("seeding", 5 :> o) : o \in Outcomes}
    \cup {Query("seeding", 1 :> "home")}
    \cup {Query("forecast", fixed) : fixed \in {None, 5 :> "draw", 1 :> "home"}}

NoneInit == season = NoSeason /\ claims = NoClaims
BothInit == \/ Init /\ cup = NoCup /\ page = NoPage
            \/ CupInit /\ NoneInit /\ page = NoPage
            \/ GivenInit /\ NoneInit /\ cup = NoCup
BothNext == \/ cup = NoCup /\ page.kind \notin {"given", "drawn"} /\ PagesNext /\ UNCHANGED cup
            \/ cup # NoCup /\ CupNext /\ UNCHANGED <<season, claims, page>>
            \/ DrawGiven /\ UNCHANGED <<season, claims, cup>>
BothSpec == BothInit /\ [][BothNext]_<<season, claims, cup, page>>
=============================================================================
