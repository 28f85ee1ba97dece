---------------------- MODULE MCImportPathValidation ----------------------
(* ALLOWED_IMPORT_PATHS = ["/a"] for TLC.                                  *)
EXTENDS ImportPathValidation

MCAllowedImportPaths == {<<"/", "a">>}

=============================================================================
