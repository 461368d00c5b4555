---------------------------- MODULE MCWebSession ----------------------------
(* A small instance of WebSession *)
EXTENDS WebSession

CONSTANTS alice, bob, t1, t2, t3, p1, p2

Tokens == {t1, t2, t3}
Owner == [t \in Tokens |-> IF t = t3 THEN bob ELSE alice]
OnePage == {p1}
TwoPages == {p1, p2}
=============================================================================
