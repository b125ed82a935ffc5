----------------------------- MODULE MCCollect -----------------------------
(***************************************************************************)
(* The containers and events that TLC explores.                            *)
(***************************************************************************)
EXTENDS Collect

MCInitNames == <<"init">>
MCAppNames == <<"app">>
MCEvents ==
    {[first |-> 1, last |-> l, series |-> FALSE]: l \in 1 .. 3}
      \cup {[first |-> 2, last |-> 2, series |-> s]: s \in BOOLEAN}
      \cup {[first |-> 1, last |-> 3, series |-> TRUE]}

=============================================================================
