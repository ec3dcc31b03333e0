----------------------------- MODULE ProfileSearch -----------------------------
(***************************************************************************)
(* How a choice for a plan is found (comment_campaign/allocation.py        *)
(* match_profiles; service.py _freeze_content gives every comment a text   *)
(* of its own by the same algorithm).  The search tries candidates in the  *)
(* order of a hash of a seed, so the list of a comment's candidates may be *)
(* any permutation of them.  What it finds is compared with the Matchings  *)
(* that CampaignPlanning chooses from.                                     *)
(***************************************************************************)
EXTENDS CampaignPlanning, SequencesExt, TLC

CONSTANT Comment   \* the comments to assign, numbered in the order of their ids

VARIABLE suited    \* of each comment, its candidates: any graph

SearchInit == suited \in [Comment -> SUBSET Profile]

\* A mutant: a candidate that is taken stays taken.
Greedy(cand, n, k, seen, of) ==
  LET free == {i \in k..Len(cand[n]) : cand[n][i] \notin DOMAIN of}
  IN IF free = {} THEN [found |-> FALSE, seen |-> seen, of |-> of]
     ELSE LET c == cand[n][CHOOSE i \in free : \A j \in free : i <= j]
          IN [found |-> TRUE, seen |-> seen, of |-> (c :> n) @@ of]

\* The search for comment n from its k-th candidate on, cand being the candidates in order,
\* seen those this search has tried, and of the comment each taken candidate has so far: one
\* that is taken is free if its comment finds another.
RECURSIVE Assign(_, _, _, _, _)
Assign(cand, n, k, seen, of) ==
  IF k > Len(cand[n]) THEN [found |-> FALSE, seen |-> seen, of |-> of]
  ELSE LET c == cand[n][k]
           freed == IF c \in DOMAIN of
                    THEN Assign(cand, of[c], 1, seen \cup {c}, of)
                    ELSE [found |-> TRUE, seen |-> seen \cup {c}, of |-> of]
       IN CASE c \in seen  -> Assign(cand, n, k + 1, seen, of)
            [] freed.found -> [freed EXCEPT !.of = (c :> n) @@ @]
            [] OTHER       -> Assign(cand, n, k + 1, freed.seen, freed.of)

\* The comments in the order they are assigned: those with fewest candidates first.
InOrder(cand) ==
  SetToSortSeq(DOMAIN cand, LAMBDA a, b : \/ Len(cand[a]) < Len(cand[b])
                                          \/ Len(cand[a]) = Len(cand[b]) /\ a < b)

\* match_profiles: what the search finds, as a set of one choice or of none.
Matched(cand) ==
  LET Extended(found, n) == {Assign(cand, n, 1, {}, of).of :
                           of \in {o \in found : Assign(cand, n, 1, {}, o).found}}
  IN {AntiFunction(of) : of \in FoldLeft(Extended, {<<>>}, InOrder(cand))}

\* Every order of the candidates of each comment.
Orders(e) == {o \in [DOMAIN e -> UNION {SetToSeqs(e[n]) : n \in DOMAIN e}] :
                \A n \in DOMAIN e : o[n] \in SetToSeqs(e[n])}

\* The search never gives two comments one candidate, nor a comment somebody who does not suit
\* it; whatever the seed, it fails only if no complete choice exists; and every complete choice
\* is what it finds under some seed, so that planning is a choice among all of them.
SearchIsComplete ==
  /\ UNION {Matched(o) : o \in Orders(suited)} = Matchings(suited)
  /\ \A o \in Orders(suited) : Matched(o) = {} <=> Matchings(suited) = {}
=============================================================================
