----------------------------- MODULE MCSeeding -----------------------------
(***************************************************************************)
(* Instances of Seeding and Listing for TLC.                               *)
(***************************************************************************)
EXTENDS Seeding, TLC

CONSTANTS e1, e2, m1, admin, u1, s1, s2, local, remote

MCSeeders   == {s1, s2}
MCDatabases == {local, remote}
MCExamples  == {e1, e2}
MCMovieIds  == {e1, e2, m1}
MCUserIds   == {admin, u1}

Symmetry == Permutations(MCSeeders)
             \union Permutations(MCExamples)
=============================================================================
