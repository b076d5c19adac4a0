----------------------------- MODULE MCWebPage -----------------------------
(***************************************************************************)
(* Two requests in flight and two changes of the system, so that an answer    *)
(* can be overtaken by a later one, before and after a POST.                *)
(***************************************************************************)
EXTENDS WebPage

CONSTANTS r1, r2

MCThread == {r1, r2}

=============================================================================
