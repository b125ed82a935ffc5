----------------------------- MODULE MCDiagctl -----------------------------
(***************************************************************************)
(* The command lines that TLC explores, and the symmetry of the constants  *)
(* of Diagctl.                                                             *)
(***************************************************************************)
EXTENDS Diagctl, TLC

\* Flags before and after the name, without a value, with a wrong or an empty one.
MCLines ==
    {<<>>, <<"--help">>}
      \cup UNION {{<<d>>, <<d, "--help">>, <<"--yes", d>>, <<"-n", d>>, <<"-o", "yaml", d>>,
                  <<"-n", None, "--yes", d>>, <<"-n", "--yes", d>>}: d \in DiagNames}
      \cup UNION {{<<"-n", n, d>>, <<"-n", n, "--yes", d>>, <<"-n", n, "-o", "json", d>>}:
                 d \in DiagNames, n \in Namespaces}

MCExamples == UNION {Examples(verb): verb \in Verbs}

Symmetry == Permutations(Users) \cup Permutations(Namespaces) \cup Permutations(DiagNames)

=============================================================================
