------------------------ MODULE ImportPathValidation ------------------------
(***************************************************************************)
(* RemoteSerializer.validate_url (pulpcore/app/serializers/repository.py  *)
(* lines 263-305): a remote's url may not carry credentials, and a        *)
(* file:// url must name an absolute path whose real path lies in one of  *)
(* settings.ALLOWED_IMPORT_PATHS.  A path is a string over a small        *)
(* alphabet holding the separator, a name character and the dot, so that *)
(* os.path.realpath has ".", ".." and repeated separators to resolve      *)
(* (symbolic links are left out).                                          *)
(***************************************************************************)
EXTENDS Naturals, Sequences, SequencesExt

CONSTANTS
    AllowedImportPaths,  \* settings.ALLOWED_IMPORT_PATHS: strings over Chars
    MaxPath              \* the longest path of a url, a natural

Chars == {"/", "a", "."}

\* A url: its scheme as written, whether urlparse finds a username or a
\* password in it, and what follows "scheme://".
Urls == [scheme : {"file", "FILE", "https"}, userinfo : BOOLEAN,
         path : SeqOf(Chars, MaxPath)]

VARIABLES
    url,      \* the url of the request
    outcome   \* "pending", "accepted" or "rejected"

vars == <<url, outcome>>

\* os.path.isabs
IsAbs(p) == p # <<>> /\ p[1] = "/"

\* The segments between separators, "." dropped and ".." going up one.
\* The fold carries the segments so far and the segment being read.
Resolve(p) ==
    LET close(st) ==
            LET seg == st[2]
            IN IF seg = <<>> \/ seg = <<".">> THEN st[1]
               ELSE IF seg = <<".", ".">>
                    THEN IF st[1] = <<>> THEN <<>> ELSE Front(st[1])
                    ELSE Append(st[1], seg)
        step(st, c) ==
            IF c = "/" THEN <<close(st), <<>>>> ELSE <<st[1], Append(st[2], c)>>
    IN close(FoldLeft(step, <<<<>>, <<>>>>, p))

\* The string "/seg1/seg2/..." of a list of segments; "/" for none.
JoinPath(segs) ==
    IF segs = <<>> THEN <<"/">>
    ELSE FoldLeft(LAMBDA acc, seg : acc \o <<"/">> \o seg, <<>>, segs)

\* os.path.realpath of an absolute path.
RealPath(p) == JoinPath(Resolve(p))

\* Lines 298-301: str.startswith of the real path and an allowed path.
StartsWithAllowed(p) == \E a \in AllowedImportPaths : IsPrefix(a, RealPath(p))

\* validate_url, lines 279-305.
Accepts(u) ==
    /\ ~u.userinfo
    /\ u.scheme \in {"file", "FILE"} =>
            IsAbs(u.path) /\ StartsWithAllowed(u.path)

Init ==
    /\ url \in Urls
    /\ outcome = "pending"

\* The serializer validates the url.
ValidateUrl ==
    /\ outcome = "pending"
    /\ outcome' = IF Accepts(url) THEN "accepted" ELSE "rejected"
    /\ UNCHANGED url

Done ==
    /\ outcome # "pending"
    /\ UNCHANGED vars

Next == ValidateUrl \/ Done

Spec == Init /\ [][Next]_vars

-----------------------------------------------------------------------------
(* Properties                                                              *)

\* The directory an accepted file url names lies in an allowed directory:
\* the path's segments begin with all the segments of an allowed path.
InAllowedDirectory(p) ==
    \E a \in AllowedImportPaths :
        LET segs == Resolve(a)
        IN SubSeq(Resolve(p), 1, Len(segs)) = segs

\* validate_url's docstring: a file:// url is accepted only when it is "a
\* subfolder of a path in the ALLOWED_IMPORT_PATH setting".
AcceptedFileUrlInAllowedPath ==
    (outcome = "accepted" /\ url.scheme \in {"file", "FILE"}) => InAllowedDirectory(url.path)

=============================================================================
