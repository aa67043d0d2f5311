---------------------------- MODULE MCWorkspace ----------------------------
(* One instance of each component of Workspace, for TLC. *)
EXTENDS Workspace, TLC

CONSTANTS h1, h2, h3, prefix, path

\* Requests with an integration key are counted under its prefix and their path,
\* those without under the path.
MCOrigins == {<<prefix, path>>, <<path>>}

\* Requests in progress are alike.
MCSymmetry == Permutations({h1, h2})
=============================================================================
