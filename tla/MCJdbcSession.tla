---------------------------- MODULE MCJdbcSession ----------------------------
EXTENDS JdbcSession, TLC

CONSTANTS p1, r1, r2, ctx, saved, u1, u2

MCPk == {p1}
MCRequest == {r1, r2}
MCAttr == {ctx, saved}
MCValue == {u1, u2}
MCInterval == {-1, 2}

Symmetry == Permutations(MCRequest) \cup Permutations(MCValue)
=============================================================================
