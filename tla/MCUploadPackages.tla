-------------------------- MODULE MCUploadPackages --------------------------
(* An instance of UploadPackages for TLC: two jobs. *)
EXTENDS UploadPackages

CONSTANTS r1, r2, x, y

MCArchives == <<"amd64.tar.gz", "arm64.tar.gz">>
MCRpms     == <<"x86_64.rpm", "aarch64.rpm">>

\* Two builds that agree in one archive: reproducible up to a time stamp.
MCBuilt ==
  [r \in Runs |-> [f \in Files |-> IF r = r1 \/ f = "amd64.tar.gz" THEN x ELSE y]]
=============================================================================
