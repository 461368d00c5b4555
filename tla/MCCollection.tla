---------------------------- MODULE MCCollection ----------------------------
(* A small instance of Collection *)
EXTENDS Collection

Headings == {<<"up", "up">>, <<"administratively down", "down">>, <<Other, "up">>}
=============================================================================
