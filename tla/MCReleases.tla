----------------------------- MODULE MCReleases -----------------------------
(***************************************************************************)
(* Releases on a small instance.  One unit of time stands for a minute of  *)
(* the replay guard (ReplayWindow 120 s is 2, SeenSlack 60 s is 1); the    *)
(* lengths of a notice, 5 to 180 minutes in the code, shrink to 1 to 3 so  *)
(* that a notice runs out within a run.                                    *)
(***************************************************************************)
EXTENDS Releases, TLC

CONSTANTS v1, v2

MCVersions == {v1, v2}

\* A number of minutes below, and one above, what a notice may last.
MCAsked == {-2, 9}

VersionSymmetry == Permutations(MCVersions)
=============================================================================
