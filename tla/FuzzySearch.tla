----------------------------- MODULE FuzzySearch -----------------------------
(***************************************************************************)
(* pkg/fuzzysearch: how well a query matches a text, and the best matches  *)
(* of a query of several words.  Texts are sequences of characters in      *)
(* lower case.                                                             *)
(***************************************************************************)
EXTENDS Integers, SequencesExt

CONSTANTS
  Chars,      \* characters of names and queries
  Letters     \* those of them that are letters or digits

ASSUME LettersAssumption == Letters \subseteq Chars

Text == Seq(Chars)

\* The elements of a finite set in an order, which is given as the set of its pairs.
Ordered(S, before) ==
  [r \in 1..Cardinality(S) |->
     CHOOSE x \in S : Cardinality({y \in S : <<y, x>> \in before}) = r - 1]

Ascending(S) == Ordered(S, {p \in S \X S : p[1] < p[2]})

\* The elements of s at these indices, in the order of s.
Parts(s, at) == LET index == Ascending(at) IN [r \in DOMAIN index |-> s[index[r]]]

\* A character begins a word.
AtBoundary(target, ti) == ti = 1 \/ target[ti - 1] \notin Letters

Bonus(condition, points) == IF condition THEN points ELSE 0

\* Mutant: a character that does not match starts the query over.
TurnRestart(query, target, s, ti) ==
  IF target[ti] # query[s.qi] THEN [s EXCEPT !.consecutive = 0, !.qi = 1]
  ELSE [qi |-> s.qi + 1, consecutive |-> s.consecutive + 1, score |-> s.score + 1]

\* One turn of the loop, while a character of the query is left to match.
Turn(query, target, s, ti) ==
  IF target[ti] # query[s.qi] THEN [s EXCEPT !.consecutive = 0]
  ELSE [qi          |-> s.qi + 1,
        consecutive |-> s.consecutive + 1,
        score       |-> s.score + 1 + Bonus(AtBoundary(target, ti), 10)
                                    + Bonus(s.qi = 1 /\ ti = 1, 20)
                                    + Bonus(s.consecutive > 0, 5)]

\* The loop's variables after each character of the target.
Loop(query, target) ==
  LET after[ti \in 0..Len(target)] ==
        IF ti = 0 THEN [qi |-> 1, consecutive |-> 0, score |-> 0]
        ELSE LET s == after[ti - 1]
             IN  IF s.qi > Len(query) THEN s ELSE Turn(query, target, s, ti)
  IN  after

Score(query, target) ==
  LET end == Loop(query, target)[Len(target)]
  IN  CASE query = <<>>                    -> 0
        [] query # <<>> /\ query = target -> 1000
        [] OTHER                          -> IF end.qi <= Len(query) THEN 0 ELSE end.score

\* strings.Fields of a query, which is the sequence of its parts between blanks.
Fields(query) == Parts(query, {i \in DOMAIN query : query[i] # <<>>})

\* The score of each word, and of all of them.
Scores(words, item) == [n \in DOMAIN words |-> Score(words[n], item)]

Total(scores) ==
  LET sum[n \in 0..Len(scores)] == IF n = 0 THEN 0 ELSE sum[n - 1] + scores[n]
  IN  sum[Len(scores)]

ScoreAll(query, item) == Total(Scores(Fields(query), item))

\* The items every word matches, each scored once.
Matches(query, items) ==
  LET words  == Fields(query)
      scores == [i \in DOMAIN items |-> Scores(words, items[i])]
      hits   == {i \in DOMAIN scores :
                   scores[i] # <<>> /\ \A n \in DOMAIN scores[i] : scores[i][n] > 0}
  IN  {[Index |-> i, Score |-> Total(scores[i])] : i \in hits}

\* The higher score first. Equals are in their order: up to a dozen matches, sort.Slice is
\* an insertion sort.
Better(matches) ==
  {p \in matches \X matches :
     \/ p[1].Score > p[2].Score
     \/ (p[1].Score = p[2].Score /\ p[1].Index < p[2].Index)}

\* The indices of the matches, best first, no more than the limit.
Search(query, items, limit) ==
  LET matches == Matches(query, items)
      sorted  == Ordered(matches, Better(matches))
      size    == IF limit > 0 /\ Len(sorted) > limit THEN limit ELSE Len(sorted)
  IN  [r \in 1..size |-> sorted[r].Index]

-----------------------------------------------------------------------------
\* What Search promises, without the loop of Score.

\* The characters of the query occur in the target in their order.
Subsequence(query, target) ==
  \E at \in [DOMAIN query -> DOMAIN target] :
    /\ \A i \in DOMAIN query : target[at[i]] = query[i]
    /\ \A i, j \in DOMAIN query : i < j => at[i] < at[j]

Fits(query, item) ==
  Fields(query) # <<>> /\ \A word \in ToSet(Fields(query)) : Subsequence(word, item)
=============================================================================
