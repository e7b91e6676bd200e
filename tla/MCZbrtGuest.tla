------------------------------ MODULE MCZbrtGuest ------------------------------
(* A model-checking instance of ZbrtGuest.                                    *)
EXTENDS ZbrtGuest

CONSTANTS t1, t2, q1, zeroboot, blank, none

MCTurn == {t1, t2}
MCCtl == {q1}
MCSession == {zeroboot}

=============================================================================
