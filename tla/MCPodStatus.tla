---------------------------- MODULE MCPodStatus ----------------------------
(***************************************************************************)
(* The containers of the pod that TLC explores.                            *)
(***************************************************************************)
EXTENDS PodStatus

MCInitNames == <<"init">>
MCAppNames == <<"app", "sidecar">>

=============================================================================
