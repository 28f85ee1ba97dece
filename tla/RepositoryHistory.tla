------------------------- MODULE RepositoryHistory -------------------------
(***************************************************************************)
(* What the Repository Version Manager promises (spec 4.4, 8), for one    *)
(* repository: versions are numbered in increasing order and numbers are  *)
(* never reused; the content set of a version never changes once created; *)
(* a version may be deleted only while another version remains.           *)
(***************************************************************************)
EXTENDS Naturals, FiniteSets

CONSTANT Contents      \* content units

VARIABLES
    vers,      \* numbers of the repository's complete versions
    content,   \* content[n]: the content set of version n, for every number ever used
    nextNum    \* the number the next version gets

absvars == <<vers, content, nextNum>>

Init ==
    /\ vers = {0}
    /\ content = [n \in {0} |-> {}]
    /\ nextNum = 1

\* A new version with any content set gets the next number.
CreateVersion(S) ==
    /\ S \subseteq Contents
    /\ vers' = vers \cup {nextNum}
    /\ content' = [n \in DOMAIN content \cup {nextNum} |-> IF n = nextNum THEN S ELSE content[n]]
    /\ nextNum' = nextNum + 1

\* A version other than the last remaining one disappears; no number and
\* no other version's content changes.
DeleteVersion(v) ==
    /\ v \in vers
    /\ vers \ {v} # {}
    /\ vers' = vers \ {v}
    /\ UNCHANGED <<content, nextNum>>

Next ==
    \/ \E S \in SUBSET Contents : CreateVersion(S)
    \/ \E v \in vers : DeleteVersion(v)

Spec == Init /\ [][Next]_absvars

=============================================================================
