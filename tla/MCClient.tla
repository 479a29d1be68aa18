------------------------------ MODULE MCClient ------------------------------
EXTENDS Client, TLC

CONSTANTS w1, w2, alice, bob

MCWindow == {w1, w2}
MCUser == {alice, bob}
=============================================================================
