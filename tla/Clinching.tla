------------------------------ MODULE Clinching ------------------------------
(***************************************************************************)
(* The conservative qualification proofs of src/internal/clinching: has    *)
(* team t clinched a place among the first k, whatever the remaining       *)
(* matches bring?  A season s is one of Standings; results maps matches to *)
(* outcomes; fixed is the part of results a caller assumes.                *)
(***************************************************************************)
EXTENDS Standings

Outcomes == {"home", "draw", "away"}
OutcomeOf(score) == IF score[1] > score[2] THEN "home"
                    ELSE IF score[1] < score[2] THEN "away" ELSE "draw"

(* outcomePoints.                                                          *)
Takes(f, o, t) == IF o = "draw" THEN 1
                  ELSE IF (o = "home") = (Home(f) = t) THEN 3 ELSE 0
WinFor(f, t) == IF Home(f) = t THEN "home" ELSE "away"
LossFor(f, t) == IF Home(f) = t THEN "away" ELSE "home"

Settled(s) == Tabulated([f \in Played(s) |-> OutcomeOf(s[f])])
Points(results, t) ==
    LET games == Of(t) \cap DOMAIN results
    IN 3 * Cardinality({f \in games : results[f] = WinFor(f, t)})
         + Cardinality({f \in games : results[f] = "draw"})

None == [f \in {} |-> "draw"]

(* prepare: the target loses every match nobody assumed for it; what is    *)
(* left to decide is the matches of the others.                            *)
Prepared(s, t, fixed) ==
    LET lost == [f \in (Of(t) \cap Remaining(s)) \ DOMAIN fixed |-> LossFor(f, t)]
        known == fixed @@ lost @@ Settled(s)
        decision == Matches \ DOMAIN known
        points == Tabulated([u \in Teams |-> Points(known, u)])
    IN [target |-> t, points |-> points, frontier |-> points[t], decision |-> decision]

Rivals(p) == Teams \ {p.target}
Most(p, u) == p.points[u] + 3 * Cardinality(p.decision \cap Of(u))
CapableStrictly(p) == {u \in Rivals(p) : Most(p, u) > p.frontier}   \* a slip: ties lost
Capable(p) == {u \in Rivals(p) : Most(p, u) >= p.frontier}
StrictlyAhead(p) == {u \in Rivals(p) : p.points[u] > p.frontier}

-----------------------------------------------------------------------------
(* feasibleThresholdWitnessAtLeast: a few starts, each improved by one     *)
(* pass over the matches; any completion it finds is a counterexample.     *)
Final(p, chosen, u) == p.points[u] + Points(chosen, u)
Reach(p, chosen, threshold) == {u \in Rivals(p) : Final(p, chosen, u) >= threshold}

(* thresholdScore: teams at the threshold, then points toward it.          *)
Progress(p, chosen, threshold) ==
    MapThenSumSet(LAMBDA u : Min({Final(p, chosen, u), threshold}), Rivals(p))
Better(p, a, b, threshold) ==
    LET ra == Cardinality(Reach(p, a, threshold))
        rb == Cardinality(Reach(p, b, threshold))
    IN ra > rb \/ (ra = rb /\ Progress(p, a, threshold) > Progress(p, b, threshold))

(* improveThresholdWitness: an outcome is replaced by a strictly better    *)
(* one only, the first of the best in the order home, draw, away.          *)
Improved(p, seed, threshold) ==
    LET Step(chosen, f) ==
            FoldLeft(LAMBDA best, o : IF Better(p, [chosen EXCEPT ![f] = o], best, threshold)
                                      THEN [chosen EXCEPT ![f] = o] ELSE best,
                     chosen, <<"home", "draw", "away">>)
    IN FoldLeft(Step, seed, FixtureOrder(p.decision))

Seeds(p) ==
    {Tabulated([f \in p.decision |-> o]) : o \in Outcomes}
    \cup {Tabulated([f \in p.decision |-> IF u \in {Home(f), Away(f)} THEN WinFor(f, u) ELSE "draw"])
            : u \in Rivals(p)}

QuickWitness(p, threshold, k) ==
    IF p.decision = {} THEN Cardinality(Reach(p, None, threshold)) >= k
    ELSE \E seed \in Seeds(p) : Cardinality(Reach(p, Improved(p, seed, threshold), threshold)) >= k

-----------------------------------------------------------------------------
(* solveCandidateSet: can every selected team reach the threshold?  They   *)
(* beat everyone else; only their matches with each other are shared out.  *)

RECURSIVE Linked(_, _)
Linked(games, group) ==
    LET more == group \cup UNION {{Home(f), Away(f)} : f \in {g \in games : {Home(g), Away(g)} \cap group # {}}}
    IN IF more = group THEN group ELSE Linked(games, more)

(* The prunes: a team, a connected component or all of them lack points    *)
(* that the matches still open cannot supply.                              *)
TeamShort(open, deficit) == \E u \in DOMAIN deficit : deficit[u] > 3 * Cardinality(open \cap Of(u))
Short(open, deficit, group) ==
    MapThenSumSet(LAMBDA u : deficit[u], group)
        > 3 * Cardinality({f \in open : Home(f) \in group /\ Away(f) \in group})
ComponentShort(open, deficit, components) == \E group \in components : Short(open, deficit, group)

RECURSIVE Shared(_, _, _)
Shared(open, deficit, components) ==
    /\ ~TeamShort(open, deficit)
    /\ ~ComponentShort(open, deficit, components)
    /\ \/ \A u \in DOMAIN deficit : deficit[u] = 0
       \/ /\ open # {} /\ ~Short(open, deficit, DOMAIN deficit)
          /\ LET f == Max(open) IN
             \E o \in Outcomes :
                Shared(open \ {f},
                       Tabulated([u \in {Home(f), Away(f)} |-> Max({0, deficit[u] - Takes(f, o, u)})])
                           @@ deficit,
                       components)

SetReaches(p, threshold, selected) ==
    LET internal == {f \in p.decision : Home(f) \in selected /\ Away(f) \in selected}
        deficit == Tabulated([u \in selected |->
                      Max({0, threshold - p.points[u]
                                - 3 * Cardinality((p.decision \cap Of(u)) \ internal)})])
    IN Shared(internal, deficit, {Linked(internal, {u}) : u \in selected})

(* solveCutoff: can k rivals reach the threshold together?                 *)
Cutoff(p, threshold, k) ==
    LET already == {u \in Rivals(p) : p.points[u] >= threshold}
        candidates == {u \in Rivals(p) \ already : Most(p, u) >= threshold}
        need == k - Cardinality(already)
    IN \/ need <= 0
       \/ /\ Cardinality(candidates) >= need
          /\ \E chosen \in kSubset(need, candidates) : SetReaches(p, threshold, already \cup chosen)

(* solveThresholdMaximumOracle and solveComponent: the exact search that   *)
(* solveCutoff replaced and its tests compare it with.  Teams that can     *)
(* still reach the threshold beat all others; each connected component of  *)
(* what is left is tried out.                                              *)
Hopefuls(p, threshold) == {u \in Rivals(p) : Most(p, u) >= threshold}
Inner(f, group) == Home(f) \in group /\ Away(f) \in group
Granted(p, group) ==
    [f \in {f \in p.decision : ~Inner(f, group)} |->
        IF Home(f) \in group THEN "home" ELSE IF Away(f) \in group THEN "away" ELSE "draw"]

RECURSIVE MostOf(_, _, _)
MostOf(games, points, threshold) ==
    IF games = {} THEN Cardinality({u \in DOMAIN points : points[u] >= threshold})
    ELSE LET f == Min(games)
             After(o) == Tabulated([u \in {Home(f), Away(f)} |-> points[u] + Takes(f, o, u)]) @@ points
         IN Max({MostOf(games \ {f}, After(o), threshold) : o \in Outcomes})

MostOfComponent(p, edges, given, component, threshold) ==
    MostOf({f \in edges : Home(f) \in component},
           Tabulated([u \in component |-> Final(p, given, u)]), threshold)
MostReaching(p, group, threshold) ==
    LET edges == {f \in p.decision : Inner(f, group)}
        given == Granted(p, group)
    IN MapThenSumSet(LAMBDA component : MostOfComponent(p, edges, given, component, threshold),
                     {Linked(edges, {u}) : u \in group})
Oracle(p, threshold) == MostReaching(p, Hopefuls(p, threshold), threshold)

-----------------------------------------------------------------------------
Proof(state, method) == [state |-> state, method |-> method]

(* finishCompleted: the official table decides a completed season, apart   *)
(* from disciplinary points, which nobody has.                             *)
ProofOf(table, t, k) ==
    LET ahead == Cardinality(Ahead(table, t))
        possibly == ahead + Cardinality(Tied(table, t)) - 1
    IN IF ahead >= k THEN Proof("not_clinched", "accessible_tiebreak")
       ELSE IF possibly < k THEN Proof("clinched", "accessible_tiebreak")
       ELSE Proof("unresolved", "missing_disciplinary_rule")
Completed(s, t, k) == ProofOf(Table("total", s), t, k)

(* evaluateStatusRequest: a status and how it was proved.  expired says    *)
(* that the deadline ends the first or the second optimisation.            *)
Proven(p, k, expired) ==
    IF Cardinality(StrictlyAhead(p)) >= k THEN Proof("not_clinched", "cheap_bound")
    ELSE IF Cardinality(Capable(p)) < k THEN Proof("clinched", "cheap_bound")
    ELSE IF QuickWitness(p, p.frontier + 1, k) THEN Proof("not_clinched", "points_optimization")
    ELSE IF expired = "strict" THEN Proof("unresolved", "compute_budget")
    ELSE IF Cutoff(p, p.frontier + 1, k) THEN Proof("not_clinched", "points_optimization")
    ELSE IF expired = "level" THEN Proof("unresolved", "compute_budget")
    ELSE IF Cutoff(p, p.frontier, k) THEN Proof("unresolved", "unproved_score_tiebreak")
    ELSE Proof("clinched", "points_optimization")
Status(s, t, k, fixed, expired) ==
    IF Remaining(s) = {} THEN Completed(s, t, k) ELSE Proven(Prepared(s, t, fixed), k, expired)

(* EvaluateCheapClinched: the linear bound alone.                          *)
CheapClinched(s, t, k, fixed) == Cardinality(Capable(Prepared(s, t, fixed))) < k

(* NewSlateBlocker and Blocks: the target wins its slate matches, and a    *)
(* completion of the matches after the slate still puts k rivals ahead.    *)
SlateBlocks(s, t, k, slate) ==
    LET own == (Of(t) \cap Remaining(s))
        fixed == [f \in own |-> IF f \in slate THEN WinFor(f, t) ELSE LossFor(f, t)] @@ Settled(s)
        p == [target |-> t, decision |-> (Remaining(s) \ slate) \ own,
              points |-> Tabulated([u \in Teams |-> Points(fixed, u)])]
    IN Cutoff(p, p.points[t] + 1, k)

-----------------------------------------------------------------------------
(* addNoHelp: the fewest of its next matches a team must win to clinch     *)
(* without help, by bisection over how many; order is FixtureOrder.        *)
OwnMatches(s, t, order) == SelectSeq(order, LAMBDA f : f \in Of(t) \cap Remaining(s))
Winning(t, matches) == [f \in matches |-> WinFor(f, t)]
WinningNext(t, own, count) == Winning(t, {own[i] : i \in 1 .. count})
Clinches(s, t, k, own, count) == Status(s, t, k, WinningNext(t, own, count), "never").state = "clinched"

RECURSIVE Bisect(_, _, _, _, _, _)
Bisect(s, t, k, own, low, high) ==
    IF low + 1 >= high THEN high
    ELSE LET mid == low + (high - low) \div 2
         IN IF Clinches(s, t, k, own, mid) THEN Bisect(s, t, k, own, low, mid)
            ELSE Bisect(s, t, k, own, mid, high)

(* The path for one achievement, with the shortest path already found for  *)
(* an easier one as a lower bound: <<state, matches to win>>.              *)
Path(s, t, k, own, lower, endpoint) ==
    LET bound == Min({lower, Len(own)})
        low == IF bound > 0 /\ Clinches(s, t, k, own, bound) THEN 0 ELSE bound
    IN IF Status(s, t, k, None, "never").state = "clinched" THEN <<"not_applicable", {}>>
       ELSE IF endpoint = "not_clinched" THEN <<"impossible", {}>>
       ELSE IF endpoint = "unresolved" THEN <<"unresolved", {}>>
       ELSE <<"guaranteed", {own[i] : i \in 1 .. Bisect(s, t, k, own, low, Len(own))}>>
NoHelp(s, t, k, order, lower) ==
    LET own == OwnMatches(s, t, order)
    IN Path(s, t, k, own, lower, Status(s, t, k, WinningNext(t, own, Len(own)), "never").state)

(* EvaluateNoHelpBatch: easier achievements first; each path found is a    *)
(* lower bound for the next.                                               *)
WithPath(found, k, path) ==
    [lower |-> IF path[1] = "guaranteed" THEN Cardinality(path[2]) ELSE found.lower,
     paths |-> (k :> path) @@ found.paths]
NoHelpBatch(s, t, ks, order) ==
    FoldLeft(LAMBDA found, k : WithPath(found, k, NoHelp(s, t, k, order, found.lower)),
             [lower |-> 0, paths |-> <<>>], SetToSortSeq(ks, >)).paths
=============================================================================
