--------------------------- MODULE DomainSettings ---------------------------
(***************************************************************************)
(* The storage settings of a domain through its serializers               *)
(* (pulpcore/app/serializers/domain.py): create (POST), full and partial  *)
(* update (PUT, PATCH) with DomainSerializer, and a backend migration     *)
(* with DomainBackendMigratorSerializer.  DRF validates the fields in     *)
(* declaration order (storage_class, then storage_settings, which reads   *)
(* the raw request), collecting ValidationErrors, then runs validate();   *)
(* a ValidationError is a 400 answer, any other exception a 500.          *)
(*                                                                         *)
(* A settings dict is abstracted to the keys it gives a value.  A backend *)
(* serializer's validated data holds every one of its fields (those not   *)
(* given take their default), so stored settings are abstracted to the   *)
(* backend whose fields they hold (their "shape") and the keys given.     *)
(* Each backend keeps its credentials, its bucket or container and        *)
(* location; the other fields only take defaults and are left out.        *)
(***************************************************************************)

\* BACKEND_CHOICES, lines 22-28 (the SFTP and Google lines are commented out).
Classes == {"FileSystem", "S3", "Azure"}

\* SETTING_MAPPING of each backend serializer, restricted to the settings
\* kept (the others only take defaults).  Every field of a backend
\* serializer is also an argument of its backend's constructor.
\* FileSystemSettingsSerializer, lines 95-100.
FileSystemMapping ==
    [s \in {"media_root", "media_url"} |->
        IF s = "media_root" THEN "location" ELSE "base_url"]

\* AmazonS3SettingsSerializer, lines 163-196.
S3Mapping ==
    [s \in {"aws_access_key_id", "aws_secret_access_key", "aws_session_token",
            "aws_storage_bucket_name", "aws_location"} |->
        CASE s = "aws_access_key_id" -> "access_key"
          [] s = "aws_secret_access_key" -> "secret_key"
          [] s = "aws_session_token" -> "security_token"
          [] s = "aws_storage_bucket_name" -> "bucket_name"
          [] s = "aws_location" -> "location"]

\* AzureSettingsSerializer, lines 258-277.
AzureMapping ==
    [s \in {"azure_account_name", "azure_account_key", "azure_container",
            "azure_location"} |->
        CASE s = "azure_account_name" -> "account_name"
          [] s = "azure_account_key" -> "account_key"
          [] s = "azure_container" -> "azure_container"
          [] s = "azure_location" -> "location"]

\* The SETTING_MAPPING of the serializer of backend c.
Mapping(c) ==
    CASE c = "FileSystem" -> FileSystemMapping
      [] c = "S3" -> S3Mapping
      [] c = "Azure" -> AzureMapping

Fields(c) == {Mapping(c)[s] : s \in DOMAIN Mapping(c)}

Required(c) ==
    CASE c = "FileSystem" -> {"location"}
      [] c = "S3" -> {"access_key", "bucket_name"}
      [] c = "Azure" -> {"account_name", "account_key", "azure_container"}

\* The keys a request's storage_settings may give: setting names, init
\* arguments, and keys of one backend sent for another.
RequestKeys == {"media_root", "location", "aws_access_key_id", "secret_key",
                "bucket_name", "account_name", "account_key", "azure_container"}

\* A request: its storage_class ("omitted" if absent), whether it has
\* storage_settings and the keys they give.
Requests ==
    {r \in [cls : Classes \cup {"omitted"}, hasSettings : BOOLEAN,
            settings : SUBSET RequestKeys] : r.hasSettings \/ r.settings = {}}

\* The stored domain; class "none" before it is created.
NoDomain == [class |-> "none", shape |-> "none", given |-> {}]

VARIABLES
    domain,   \* the domain's storage_class and storage_settings
    answer    \* the answer to the last request: "ok", "invalid" (400), "error" (500)

vars == <<domain, answer>>

-----------------------------------------------------------------------------
(* Validation                                                              *)

\* BaseSettingsClass.to_internal_value, lines 57-79: a setting name becomes
\* its init argument; a key that is neither is an unexpected field.
Translated(c, d) ==
    {Mapping(c)[k] : k \in d \cap DOMAIN Mapping(c)} \cup (d \ DOMAIN Mapping(c))

SettingsValid(c, d) ==
    /\ \A k \in d : k \in DOMAIN Mapping(c) \/ k \in Fields(c)
    /\ Required(c) \subseteq Translated(c, d)
    \* AmazonS3SettingsSerializer.validate, lines 237-244.
    /\ c = "S3" => ("secret_key" \in Translated(c, d) \/ "security_token" \in Translated(c, d))

\* StorageSettingsSerializer.to_internal_value, lines 359-388, for request
\* r on the domain inst (NoDomain when the serializer has no instance):
\* the class comes from the raw request, else from the instance, whose
\* settings are merged in when the class is its own.  With no instance the
\* class is read with initial_data["storage_class"] (line 380).
StorageSettingsField(r, inst) ==
    IF inst = NoDomain /\ r.cls = "omitted" THEN [ok |-> "error"]     \* KeyError
    ELSE LET c == IF r.cls = "omitted" THEN inst.class ELSE r.cls
             d == IF c = inst.class THEN inst.given \cup r.settings ELSE r.settings
         IN IF SettingsValid(c, d)
            THEN [ok |-> "ok", v |-> [shape |-> c, given |-> Translated(c, d)]]
            ELSE [ok |-> "invalid"]

\* _validate_storage_backend, lines 404-424: the backend c is built with
\* the settings v.  A django-storages backend raises ImproperlyConfigured
\* for an argument it does not know, which becomes a ValidationError;
\* FileSystem is Django's FileSystemStorage, whose constructor raises
\* TypeError, which is not caught.
BackendCheck(c, v) ==
    IF Fields(v.shape) \subseteq Fields(c) THEN "ok"
    ELSE IF c = "FileSystem" THEN "error" ELSE "invalid"

\* A request's answer from its fields' answers fs and validate()'s vd:
\* an exception other than a ValidationError ends it at once; field
\* ValidationErrors are reported together and validate() is not run.
Answer(fs, vd) ==
    IF "error" \in fs THEN "error" ELSE IF "invalid" \in fs THEN "invalid" ELSE vd

\* The storage_class field (a required ChoiceField; skipped by PATCH).
ClassField(r, partial) == IF r.cls = "omitted" /\ ~partial THEN "invalid" ELSE "ok"

\* The storage_settings field (required; skipped by PATCH when absent).
SettingsField(r, partial, inst) ==
    IF r.hasSettings THEN StorageSettingsField(r, inst)
    ELSE IF partial THEN [ok |-> "skip"] ELSE [ok |-> "invalid"]

\* DomainSerializer.validate, lines 465-487: the class and settings are the
\* validated ones, else the instance's.  (It returns early for the domain
\* named "default", which is not modelled; the redirect check is about the
\* SFTP backend, no choice of storage_class.)
DomainValidate(r, sf) ==
    LET c == IF r.cls = "omitted" THEN domain.class ELSE r.cls
        v == IF sf.ok = "skip" THEN [shape |-> domain.shape, given |-> domain.given] ELSE sf.v
    IN BackendCheck(c, v)

-----------------------------------------------------------------------------
(* Requests                                                                *)

\* DomainBackendMigratorSerializer.validate, lines 513-518.
MigratorValidate(r, sf) == BackendCheck(r.cls, sf.v)

\* A request handled by DomainSerializer, or by the migrator serializer
\* when migrator, on instance inst (NoDomain for none): the domain is
\* saved with the validated class and settings if it passes.
Handle(r, partial, inst, migrator) ==
    LET cf == ClassField(r, partial)
        sf == SettingsField(r, partial, inst)
        vd == IF cf # "ok" \/ sf.ok \notin {"ok", "skip"} THEN "ok"
              ELSE IF migrator THEN MigratorValidate(r, sf) ELSE DomainValidate(r, sf)
    IN /\ answer' = Answer({cf, sf.ok}, vd)
       /\ domain' =
            IF answer' = "ok"
            THEN [class |-> IF r.cls = "omitted" THEN domain.class ELSE r.cls,
                  shape |-> IF sf.ok = "skip" THEN domain.shape ELSE sf.v.shape,
                  given |-> IF sf.ok = "skip" THEN domain.given ELSE sf.v.given]
            ELSE domain

\* POST /domains/: DomainSerializer with no instance.
Create(r) ==
    /\ domain = NoDomain
    /\ Handle(r, FALSE, NoDomain, FALSE)

\* PUT (partial = FALSE) and PATCH (partial = TRUE) of the domain.
Update(r, partial) ==
    /\ domain # NoDomain
    /\ Handle(r, partial, domain, FALSE)

\* A backend migration: DomainBackendMigratorSerializer (lines 502-518) has
\* no instance; the migration task then gives the domain the new class
\* and settings.
Migrate(r) ==
    /\ domain # NoDomain
    /\ Handle(r, FALSE, NoDomain, TRUE)

Init ==
    /\ domain = NoDomain
    /\ answer = "ok"

Next ==
    \/ \E r \in Requests : Create(r)
    \/ \E r \in Requests, partial \in BOOLEAN : Update(r, partial)
    \/ \E r \in Requests : Migrate(r)

Spec == Init /\ [][Next]_vars

-----------------------------------------------------------------------------
(* Properties                                                              *)

\* to_internal_value answers a malformed storage_settings with a
\* ValidationError (lines 363-369): a request the serializers cannot
\* accept is a 400, never a server error.
NoServerError == answer # "error"

=============================================================================
