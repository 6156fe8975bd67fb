---------------------------- MODULE RankingCases ----------------------------
(* How candidates are ranked, and what must hold of that.                  *)
EXTENDS Ranking, Cases

AnswerRanking(q) == RankCandidates(q.candidates, q.dimensions, q.dimensions)

RankingAnswer == input.kind = "ranking" /\ answer' = AnswerRanking(input)

-----------------------------------------------------------------------------
(* Properties.                                                             *)

(* A ranking does not depend on the order of its candidates, ranks exactly *)
(* the eligible ones and leaves no two of them unordered.                  *)
RankingIgnoresOrder ==
  Answered("ranking") =>
    LET ids(s) == {s[i] : i \in DOMAIN s}
        accelerators == [i \in DOMAIN input.candidates |-> input.candidates[i].accelerator]
        sorted == SortedBy(input.candidates, accelerators)
        eligible == {c.accelerator : c \in {d \in ids(input.candidates) : d.decision.outcome = "Eligible"}}
    IN /\ answer = AnswerRanking([input EXCEPT !.candidates = sorted])
       /\ {e.accelerator : e \in ids(answer.ranked)} = eligible
       /\ ids(answer.excluded) = ids(accelerators) \ eligible
       /\ \A i \in DOMAIN answer.ranked : i > 1 => answer.ranked[i - 1].score >= answer.ranked[i].score
=============================================================================
