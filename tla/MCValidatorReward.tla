------------------------- MODULE MCValidatorReward -------------------------
EXTENDS ValidatorReward

\* Two delegates and one outside distributor; Unit 10 stands for 1e09, so
\* shares and commissions of 0%, 50% and 100% keep their rounding.
MCAddrs == {"v1", "v2", "x"}
MCTotals == {3, 10}          \* under and over two base rewards of 2
MCPowers == {1, 2}
MCCommissions == {0, 5}
MCShareSet == {5, 10}
MCAutobidSet == {0, 50}
==============================================================================
