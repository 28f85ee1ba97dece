------------------------- MODULE RemoteProxySettings -------------------------
(***************************************************************************)
(* The proxy settings of a remote through its serializer                  *)
(* (RemoteSerializer, pulpcore/app/serializers/repository.py lines        *)
(* 142-160, 307-344): create (POST), full update (PUT) and partial update *)
(* (PATCH).  validate() checks the proxy url and credentials that the     *)
(* remote will have: for PATCH the values the request leaves out are the  *)
(* instance's, for POST and PUT they are None.  The save, from            *)
(* ModelSerializer (outside src/), writes the fields the request gives    *)
(* and leaves the others as they were (defaults on create).               *)
(* A value is abstracted to what the checks test: None or set, and for a  *)
(* proxy url whether it holds an "@".                                      *)
(***************************************************************************)
EXTENDS Naturals

ProxyFields == {"proxy_url", "proxy_username", "proxy_password"}

\* A field of a request: left out, null, a value, or (proxy_url only) a
\* value with credentials in it.
RequestValues == {"omitted", "null", "set", "with_at"}

\* A stored field: None or a value.
Stored == {"null", "set"}

VARIABLES
    exists,   \* the remote has been created
    remote    \* remote[f]: the stored value of proxy field f

vars == <<exists, remote>>

\* An "@" in a credential makes no difference to any check, so only the
\* proxy url's values tell it apart.
Requests ==
    {req \in [ProxyFields -> RequestValues] :
        \A f \in ProxyFields \ {"proxy_url"} : req[f] # "with_at"}

\* validate_proxy_url, lines 307-313 (run only for a field the request gives).
ValidProxyUrl(v) == v # "with_at"

\* Lines 327-332: the request's value, else the instance's for a partial
\* update, else None.
Effective(req, partial, f) ==
    IF req[f] # "omitted" THEN req[f]
    ELSE IF partial THEN remote[f] ELSE "null"

\* validate(), lines 321-344.
ProxyValid(req, partial) ==
    LET url == Effective(req, partial, "proxy_url")
        user == Effective(req, partial, "proxy_username")
        pass == Effective(req, partial, "proxy_password")
    IN /\ (user # "null" \/ pass # "null") => url # "null"
       /\ (user # "null") = (pass # "null")

\* The model's save: the fields the request gives, the others as they were.
Saved(req, old) == [f \in ProxyFields |-> IF req[f] = "omitted" THEN old[f] ELSE req[f]]

\* POST: the remote is created; left-out fields get the model default None.
Create(req) ==
    /\ ~exists
    /\ ValidProxyUrl(req["proxy_url"])
    /\ ProxyValid(req, FALSE)
    /\ exists' = TRUE
    /\ remote' = Saved(req, [f \in ProxyFields |-> "null"])

\* PUT (partial = FALSE) and PATCH (partial = TRUE).
Update(req, partial) ==
    /\ exists
    /\ ValidProxyUrl(req["proxy_url"])
    /\ ProxyValid(req, partial)
    /\ remote' = Saved(req, remote)
    /\ UNCHANGED exists

Init ==
    /\ exists = FALSE
    /\ remote = [f \in ProxyFields |-> "null"]

Next ==
    \/ \E req \in Requests : Create(req)
    \/ \E req \in Requests, partial \in BOOLEAN : Update(req, partial)

Spec == Init /\ [][Next]_vars

-----------------------------------------------------------------------------
(* Properties                                                              *)

\* validate()'s docstring: "proxy credentials are only provided completely
\* and if a proxy is configured" -- for the remote as stored.
ProxyCredentialsConsistent ==
    /\ (remote["proxy_username"] = "set" \/ remote["proxy_password"] = "set")
            => remote["proxy_url"] = "set"
    /\ (remote["proxy_username"] = "set") = (remote["proxy_password"] = "set")

=============================================================================
