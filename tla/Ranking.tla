------------------------------- MODULE Ranking -------------------------------
(***************************************************************************)
(* The order in which eligible accelerators are offered                    *)
(* (src/engine/ranking.cpp), with the default weights and the two          *)
(* dimensions a caller may switch on.                                      *)
(***************************************************************************)
EXTENDS Portability, Sorting

RankScore(c, useMemory, useTopology) ==
  LET steps == TransformationSteps(c.decision.portability)
      bonus == CASE c.decision.portability = "Native" -> 1000
                 [] c.decision.portability = "LiveMigrationSupported" -> 500
                 [] OTHER -> 0
  IN c.decision.score + bonus - (IF steps = 255 THEN 0 ELSE 250 * steps) - c.cost
       - 2 * ProvenancePenalty(c.decision.provenance)
       - (IF useTopology THEN 100 * c.distance ELSE 0)
       + (IF useMemory THEN 10 * c.free ELSE 0)

(* Mutant: equal scores and classes are not told apart.                    *)
RanksBeforeUntied(a, b) ==
  \/ a.score > b.score
  \/ a.score = b.score /\ Strength(a.portability) > Strength(b.portability)

RanksBefore(a, b) ==
  \/ a.score > b.score
  \/ a.score = b.score /\ Strength(a.portability) > Strength(b.portability)
  \/ a.score = b.score /\ a.portability = b.portability /\ a.accelerator < b.accelerator

Ranked(entries) ==
  Arranged(entries, {p \in (DOMAIN entries) \X (DOMAIN entries) : RanksBefore(entries[p[1]], entries[p[2]])})

(* rank_candidates(): the ranked ones in order, and the excluded.          *)
RankCandidates(cs, useMemory, useTopology) ==
  LET entry(c) == [accelerator |-> c.accelerator, portability |-> c.decision.portability,
                   score |-> RankScore(c, useMemory, useTopology)]
      eligible == {i \in DOMAIN cs : cs[i].decision.outcome = "Eligible"}
  IN [ranked |-> Ranked(Selected([i \in DOMAIN cs |-> entry(cs[i])], eligible)),
      excluded |-> Sorted(Selected([i \in DOMAIN cs |-> cs[i].accelerator], DOMAIN cs \ eligible))]
=============================================================================
