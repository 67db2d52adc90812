--------------------------- MODULE UploadPackages ---------------------------
(***************************************************************************)
(* The release script worker/scripts/upload-packages.sh: local validation, *)
(* then one upload after the other into two Gitea registries (external).   *)
(* Executions may overlap, die at any request, lose an answer after the    *)
(* registry has acted on it, and be started again by hand.  Nothing can be *)
(* rolled back: a release is consistent only because of the order of the   *)
(* uploads and of what the script does on a conflict.                      *)
(***************************************************************************)
EXTENDS Naturals, Sequences

CONSTANTS
  Runs,      \* CI jobs that publish this version
  Contents,  \* bytes a file may have
  Archives,  \* the two archives, in the order of the glob
  Rpms,      \* the two RPMs
  Sums,      \* checksums.txt
  Built,     \* bytes of each file as the job's build made it
  Damaged,   \* bytes that are not what the build made (a truncated artifact)
  Absent     \* nothing is published under this name

Packages == Archives \o Rpms
Files    == {Packages[n] : n \in DOMAIN Packages} \cup {Sums}

\* The bundle goes to the generic registry, its manifest last, then the RPMs to
\* the RPM registry.
Generic(f) == <<"generic", f>>
Rpm(f)     == <<"rpm", f>>

\* Fault: the manifest is uploaded first.
UploadsManifestFirst ==
  LET Bundle == <<Sums>> \o Packages
  IN  [n \in DOMAIN Bundle |-> Generic(Bundle[n])] \o [n \in DOMAIN Rpms |-> Rpm(Rpms[n])]

Uploads ==
  LET Bundle == Append(Packages, Sums)
  IN  [n \in DOMAIN Bundle |-> Generic(Bundle[n])] \o [n \in DOMAIN Rpms |-> Rpm(Rpms[n])]

Names == {Uploads[n] : n \in DOMAIN Uploads}

ASSUME UploadAssumption ==
  /\ Archives \in Seq(Files) /\ Rpms \in Seq(Files)
  /\ \A n \in DOMAIN Packages : Packages[n] # Sums
  /\ Built \in [Runs -> [Files -> Contents]]
  /\ Damaged \notin Contents /\ Absent \notin Contents \cup {Damaged}

VARIABLES
  local,   \* bytes in the artifact directory of each job
  remote,  \* what the registries hold
  next,    \* the upload each execution is at
  pc       \* where each execution is

vars == <<local, remote, next, pc>>

Init ==
  /\ local \in [Runs -> [Files -> Contents \cup {Damaged}]]
  /\ \A r \in Runs, f \in Files : local[r][f] \in {Built[r][f], Damaged}
  /\ remote = [n \in Names |-> Absent]
  /\ next = [r \in Runs |-> 1]
  /\ pc = [r \in Runs |-> "start"]

Item(r) == Uploads[next[r]]
Mine(r) == local[r][Item(r)[2]]

Goto(r, p) == pc' = [pc EXCEPT ![r] = p]

\* The upload is done: the next one, or the end of the script.
Advance(r) ==
  /\ next' = [next EXCEPT ![r] = @ + 1]
  /\ Goto(r, IF next[r] = Len(Uploads) THEN "done" ELSE "uploading")

-----------------------------------------------------------------------------
\* Fault: only the presence of the files is checked before the first request.
ValidateNames(r) ==
  /\ pc[r] = "start"
  /\ Goto(r, "uploading") /\ next' = [next EXCEPT ![r] = 1]
  /\ UNCHANGED <<local, remote>>

\* All local bytes are validated against the manifest before any request.
Validate(r) ==
  /\ pc[r] = "start"
  /\ Goto(r, IF local[r] = Built[r] THEN "uploading" ELSE "failed")
  /\ next' = [next EXCEPT ![r] = 1]
  /\ UNCHANGED <<local, remote>>

\* 201: the registry has created the package.
Created(r) ==
  /\ pc[r] = "uploading" /\ remote[Item(r)] = Absent
  /\ remote' = [remote EXCEPT ![Item(r)] = Mine(r)]
  /\ Advance(r)
  /\ UNCHANGED local

\* curl fails, or any other status: the script ends; the registry may have
\* created the package all the same.
UploadFails(r) ==
  /\ pc[r] = "uploading"
  /\ \/ UNCHANGED remote
     \/ remote[Item(r)] = Absent /\ remote' = [remote EXCEPT ![Item(r)] = Mine(r)]
  /\ Goto(r, "failed")
  /\ UNCHANGED <<local, next>>

\* 409: the existing package has to be downloaded and compared.
Conflict(r) ==
  /\ pc[r] = "uploading" /\ remote[Item(r)] # Absent
  /\ Goto(r, "comparing")
  /\ UNCHANGED <<local, remote, next>>

\* cmp of the local and the existing bytes.
Compare(r) ==
  /\ pc[r] = "comparing"
  /\ IF remote[Item(r)] = Mine(r) THEN Advance(r)
                                  ELSE Goto(r, "refused") /\ UNCHANGED next
  /\ UNCHANGED <<local, remote>>

DownloadFails(r) ==
  /\ pc[r] = "comparing"
  /\ Goto(r, "failed")
  /\ UNCHANGED <<local, remote, next>>

\* The job is started again, with the artifacts it had or with good ones.
Rerun(r) ==
  /\ pc[r] \in {"failed", "refused", "done"}
  /\ Goto(r, "start")
  /\ local' \in {local, [local EXCEPT ![r] = Built[r]]}
  /\ UNCHANGED <<remote, next>>

Next ==
  \E r \in Runs :
    \/ Validate(r) \/ Created(r) \/ UploadFails(r) \/ Conflict(r) \/ Compare(r)
    \/ DownloadFails(r) \/ Rerun(r)

Spec == Init /\ [][Next]_vars

-----------------------------------------------------------------------------
(* Properties. *)

\* Whoever finds the manifest in the registry finds every package it lists, with
\* the bytes of the build that made the manifest, although several jobs with
\* different builds may have been publishing, each up to its own failure.
BundleIsConsistent ==
  remote[Generic(Sums)] # Absent =>
    \E r \in Runs :
      /\ remote[Generic(Sums)] = Built[r][Sums]
      /\ \A n \in DOMAIN Packages : remote[Generic(Packages[n])] = Built[r][Packages[n]]

\* A script that ends well has published its own build in both registries, byte
\* for byte, however many attempts of its own or of other jobs came before.
SuccessIsPublished ==
  \A r \in Runs : pc[r] = "done" => \A n \in Names : remote[n] = Built[r][n[2]]

\* A publication that died can always be resumed: an execution is refused only over
\* a file that another build made differently, never over what was left behind by
\* an attempt to publish the same bytes, its own or of another job.
AlwaysResumable ==
  \A r \in Runs :
    pc[r] = "refused" => \E s \in Runs : Built[s][Item(r)[2]] # Built[r][Item(r)[2]]
=============================================================================
