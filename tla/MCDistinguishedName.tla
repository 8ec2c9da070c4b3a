------------------------ MODULE MCDistinguishedName ------------------------
(* Two directories with different domains (one with a trailing dot, whose  *)
(* split yields an empty label) and three groups, so that chains of two    *)
(* parents, cycles of one to three groups and parents in the other         *)
(* directory can all be built.                                             *)
EXTENDS DistinguishedName

CONSTANTS d1, d2, g1, g2, g3

MCDirectories == {d1, d2}

MCGroups == {g1, g2, g3}

MCDomains == {<<"example", ".", "com">>, <<"corp", ".", "example", ".">>}

MCCommonNames == {"admins", "users"}
=============================================================================
