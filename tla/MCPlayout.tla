------------------------------ MODULE MCPlayout ------------------------------
EXTENDS Playout, TLC

\* Push requests are alike.
AlikeRequests == Permutations(Caller)

\* holdTail and minClause are those of the code, maxClause is small.
MCPolicies == {[holdTail |-> 2, minClause |-> 3, maxClause |-> 4], [holdTail |-> 1, minClause |-> 2, maxClause |-> 4]}
\* "gonna" can be written as two words, "now" closes a clause; words come back in
\* all sentences but the first.
MCSentences == {<<"we", "are", "gonna", "leave", "now", "all">>, <<"gonna", "be", "gonna", "be", "now", "be">>,
                <<"no", "no", "no", "no", "no">>, <<"gonna", "gonna", "gonna", "be", "all">>}

\* Words of one letter that share a line; a word longer than a line, and more
\* lines than one cue has.
MCTexts == {<<1, 1>>, <<4, 1, 2>>}
=============================================================================
