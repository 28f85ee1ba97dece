------------------------ MODULE MCRepositoryVersions ------------------------
(* Small instances of RepositoryVersions for TLC.                         *)
EXTENDS RepositoryVersions

CONSTANTS u1, u2

MCContents == {u1, u2}

=============================================================================
