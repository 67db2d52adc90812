------------------------ MODULE UploadPackagesProofs ------------------------
(* Releases are consistent for any number of jobs, builds and attempts. *)
EXTENDS UploadPackages, TLAPS

Working == {"uploading", "comparing", "done"}

\* What an execution past its validation knows: its files are what its build made,
\* and every upload it has left behind is in the registry with those bytes.
Published(r) ==
  pc[r] \in Working =>
    /\ local[r] = Built[r]
    /\ \A k \in 1..(next[r] - 1) : remote[Uploads[k]] = Built[r][Uploads[k][2]]

\* Nothing but the bytes of some build is ever in a registry.
OnlyBuilds == \A n \in Names : remote[n] # Absent => \E r \in Runs : remote[n] = Built[r][n[2]]

UploadTypeOK ==
  /\ local \in [Runs -> [Files -> Contents \cup {Damaged}]]
  /\ remote \in [Names -> Contents \cup {Damaged, Absent}]
  /\ next \in [Runs -> 1..(Len(Uploads) + 1)]
  /\ pc \in [Runs -> Working \cup {"start", "failed", "refused"}]
  /\ \A r \in Runs : /\ pc[r] \in {"uploading", "comparing"} => next[r] <= Len(Uploads)
                     /\ pc[r] = "done" => next[r] = Len(Uploads) + 1
                     /\ pc[r] = "comparing" => remote[Item(r)] # Absent

UploadInv ==
  /\ UploadTypeOK
  /\ \A r \in Runs : Published(r)
  /\ OnlyBuilds
  /\ BundleIsConsistent
  /\ AlwaysResumable

\* The order of the uploads: the packages, the manifest, the RPMs once more.
LEMMA UploadOrder ==
  /\ Packages \in Seq(Files) /\ Uploads \in Seq(Names)
  /\ Len(Uploads) = Len(Packages) + 1 + Len(Rpms)
  /\ \A n \in 1..Len(Packages) : Uploads[n] = Generic(Packages[n])
  /\ Uploads[Len(Packages) + 1] = Generic(Sums)
  /\ \A n \in 1..Len(Uploads) : Uploads[n] \in Names /\ Uploads[n][2] \in Files
  /\ \A n \in 1..Len(Uploads) : Uploads[n] = Generic(Sums) => n = Len(Packages) + 1
<1> DEFINE Bundle == Append(Packages, Sums)
           G == [n \in DOMAIN Bundle |-> Generic(Bundle[n])]
           R == [n \in DOMAIN Rpms |-> Rpm(Rpms[n])]
           Any == {"generic", "rpm"} \X Files
<1>1. Archives \in Seq(Files) /\ Rpms \in Seq(Files) /\ Sums \in Files
  BY UploadAssumption DEF Files
<1>2. Packages \in Seq(Files)
  BY <1>1 DEF Packages
<1>3. /\ Bundle \in Seq(Files) /\ Len(Bundle) = Len(Packages) + 1
      /\ Bundle[Len(Packages) + 1] = Sums
      /\ \A n \in 1..Len(Packages) : Bundle[n] = Packages[n]
  BY <1>1, <1>2
<1>4. /\ G \in Seq(Any) /\ Len(G) = Len(Packages) + 1
      /\ \A n \in 1..Len(G) : G[n] = <<"generic", Bundle[n]>>
  <2> HIDE DEF Bundle
  <2>1. DOMAIN Bundle = 1..Len(Bundle) /\ \A n \in 1..Len(Bundle) : Bundle[n] \in Files
    BY <1>3
  <2> QED BY <1>3, <2>1 DEF Generic
<1>5. /\ R \in Seq(Any) /\ Len(R) = Len(Rpms)
      /\ \A n \in 1..Len(R) : R[n] = <<"rpm", Rpms[n]>> /\ Rpms[n] \in Files
  <2>1. DOMAIN Rpms = 1..Len(Rpms) /\ \A n \in 1..Len(Rpms) : Rpms[n] \in Files
    BY <1>1
  <2> QED BY <1>1, <2>1 DEF Rpm
<1>6. Uploads = G \o R
  BY DEF Uploads
<1> HIDE DEF Bundle, G, R
<1>7. G \in Seq(Any) /\ R \in Seq(Any) /\ Len(G) \in Nat /\ Len(R) \in Nat
  BY <1>4, <1>5
<1>8. G \o R \in Seq(Any) /\ Len(G \o R) = Len(G) + Len(R)
  BY <1>7
<1>9. \A n \in 1..Len(G) : (G \o R)[n] = G[n]
  BY <1>7
<1>10. \A n \in (Len(G) + 1)..Len(G \o R) : (G \o R)[n] = R[n - Len(G)]
  BY <1>7, <1>8
<1>11. Uploads \in Seq(Any) /\ Len(Uploads) = Len(G) + Len(R)
  BY <1>6, <1>8
<1>12. \A n \in 1..Len(G) : Uploads[n] = G[n]
  BY <1>6, <1>9
<1>13. \A n \in (Len(G) + 1)..Len(Uploads) : Uploads[n] = R[n - Len(G)]
  BY <1>6, <1>10
<1>14. Len(Packages) \in Nat /\ Len(Rpms) \in Nat
  BY <1>1, <1>2
<1>15. \A n \in 1..Len(Uploads) : Uploads[n] \in Names /\ Uploads[n] \in Any
  BY <1>11 DEF Names
<1>16. \A n \in 1..Len(Packages) : Uploads[n] = Generic(Packages[n])
  <2>1. \A n \in 1..Len(Packages) : n \in 1..Len(G) /\ G[n] = <<"generic", Packages[n]>>
    BY <1>3, <1>4, <1>14
  <2> QED BY <1>12, <2>1 DEF Generic
<1>17. Uploads[Len(Packages) + 1] = Generic(Sums)
  <2>1. Len(Packages) + 1 \in 1..Len(G) /\ G[Len(Packages) + 1] = <<"generic", Sums>>
    BY <1>3, <1>4, <1>14
  <2> QED BY <1>12, <2>1 DEF Generic
<1>18. ASSUME NEW n \in 1..Len(Uploads), Uploads[n] = Generic(Sums)
       PROVE  n = Len(Packages) + 1
  <2>1. CASE n \in 1..Len(Packages)
    <3>1. Packages[n] # Sums
      BY <1>2, <2>1, UploadAssumption
    <3> QED BY <1>16, <1>18, <2>1, <3>1 DEF Generic
  <2>2. CASE n \in (Len(G) + 1)..Len(Uploads)
    <3>1. n - Len(G) \in 1..Len(R)
      BY <1>4, <1>5, <1>11, <1>14, <2>2
    <3>2. Uploads[n] = R[n - Len(G)]
      BY <1>13, <2>2, Zenon
    <3>3. R[n - Len(G)] = <<"rpm", Rpms[n - Len(G)]>>
      BY <1>5, <3>1
    <3> QED BY <1>18, <3>2, <3>3 DEF Generic
  <2> QED BY <1>4, <1>11, <1>14, <2>1, <2>2
<1>19. Uploads \in Seq(Names)
  BY <1>11 DEF Names
<1> QED BY <1>2, <1>4, <1>5, <1>11, <1>15, <1>16, <1>17, <1>18, <1>19

\* The invariant holds when no script has run.
LEMMA UploadStart == Init => UploadInv
<1> SUFFICES ASSUME Init PROVE UploadInv
  OBVIOUS
<1>1. \A n \in Names : remote[n] = Absent
  BY DEF Init
<1>2. Generic(Sums) \in Names
  <2>1. Len(Packages) + 1 \in 1..Len(Uploads)
    BY UploadOrder, UploadAssumption
  <2> QED BY UploadOrder, <2>1
<1>3. UploadTypeOK
  <2>1. 1 \in 1..(Len(Uploads) + 1)
    BY UploadOrder
  <2> QED BY <2>1 DEF Init, UploadTypeOK, Working
<1>4. (\A r \in Runs : Published(r)) /\ AlwaysResumable
  BY DEF Init, Published, Working, AlwaysResumable
<1> QED BY <1>1, <1>2, <1>3, <1>4 DEF UploadInv, OnlyBuilds, BundleIsConsistent

\* What an execution with an upload to make is about to make.
LEMMA ItemIsName ==
  ASSUME UploadInv, NEW r \in Runs, pc[r] \in {"uploading", "comparing"}
  PROVE  /\ next[r] \in 1..Len(Uploads) /\ Len(Uploads) \in Nat
         /\ Item(r) \in Names /\ Item(r)[2] \in Files
         /\ Mine(r) = Built[r][Item(r)[2]] /\ Mine(r) \in Contents
<1>1. next[r] \in 1..Len(Uploads) /\ Len(Uploads) \in Nat
  BY UploadOrder DEF UploadInv, UploadTypeOK
<1>2. Item(r) \in Names /\ Item(r)[2] \in Files
  BY <1>1, UploadOrder DEF Item
<1>3. local[r] = Built[r]
  BY DEF UploadInv, Published, Working
<1> QED BY <1>1, <1>2, <1>3, UploadAssumption DEF Mine

\* A step that touches no registry keeps what the registries say.
LEMMA RegistryKept ==
  ASSUME UploadInv, UNCHANGED remote
  PROVE  OnlyBuilds' /\ BundleIsConsistent'
BY DEF UploadInv, OnlyBuilds, BundleIsConsistent

\* The same for an upload that the registry accepts: the manifest arrives after
\* the packages of its own build, and nothing accepted earlier is overwritten.
LEMMA RegistryPut ==
  ASSUME UploadInv, NEW r \in Runs, pc[r] = "uploading", remote[Item(r)] = Absent,
         remote' = [remote EXCEPT ![Item(r)] = Mine(r)]
  PROVE  /\ remote' \in [Names -> Contents \cup {Damaged, Absent}]
         /\ remote'[Item(r)] = Built[r][Item(r)[2]]
         /\ \A n \in Names : remote[n] # Absent => remote'[n] = remote[n]
         /\ OnlyBuilds' /\ BundleIsConsistent'
<1>1. /\ Item(r) \in Names /\ Mine(r) = Built[r][Item(r)[2]] /\ Mine(r) \in Contents
      /\ next[r] \in 1..Len(Uploads)
  BY ItemIsName
<1>2. remote \in [Names -> Contents \cup {Damaged, Absent}]
  BY DEF UploadInv, UploadTypeOK
<1>3. \A n \in Names : remote'[n] = IF n = Item(r) THEN Mine(r) ELSE remote[n]
  BY <1>1, <1>2
<1>4. remote' \in [Names -> Contents \cup {Damaged, Absent}]
  BY <1>1, <1>2
<1>5. \A n \in Names : remote[n] # Absent => remote'[n] = remote[n]
  BY <1>3
<1>6. OnlyBuilds'
  <2> SUFFICES ASSUME NEW n \in Names, remote'[n] # Absent
               PROVE  \E s \in Runs : remote'[n] = Built[s][n[2]]
    BY DEF OnlyBuilds
  <2>1. CASE n = Item(r)
    BY <1>1, <1>3, <2>1
  <2>2. CASE n # Item(r)
    BY <1>3, <2>2 DEF UploadInv, OnlyBuilds
  <2> QED BY <2>1, <2>2
<1>7. /\ Generic(Sums) \in Names /\ Len(Packages) \in Nat
      /\ \A n \in 1..Len(Packages) : Generic(Packages[n]) \in Names /\ Packages[n] \in Files
  <2>1. Len(Packages) \in Nat /\ Len(Rpms) \in Nat
    BY UploadOrder, UploadAssumption
  <2>2. \A n \in 1..(Len(Packages) + 1) : n \in 1..Len(Uploads)
    BY UploadOrder, <2>1
  <2> QED BY UploadOrder, <2>1, <2>2
<1>8. DOMAIN Packages = 1..Len(Packages)
  BY UploadOrder
<1>9. CASE Item(r) = Generic(Sums)
  <2>1. next[r] = Len(Packages) + 1
    BY <1>1, <1>9, UploadOrder DEF Item
  <2>2. Item(r)[2] = Sums
    BY <1>9 DEF Generic
  <2>3. ASSUME NEW n \in DOMAIN Packages
        PROVE  remote'[Generic(Packages[n])] = Built[r][Packages[n]]
    <3>1. n \in 1..(next[r] - 1) /\ Uploads[n] = Generic(Packages[n])
      BY <1>7, <1>8, <2>1, <2>3, UploadOrder
    <3>2. remote[Uploads[n]] = Built[r][Uploads[n][2]]
      BY <3>1 DEF UploadInv, Published, Working
    <3>3. Uploads[n][2] = Packages[n]
      BY <3>1 DEF Generic
    <3>4. Built[r][Packages[n]] # Absent
      BY <1>7, <1>8, <2>3, UploadAssumption
    <3> QED BY <1>5, <1>7, <1>8, <2>3, <3>1, <3>2, <3>3, <3>4
  <2>4. remote'[Generic(Sums)] = Built[r][Sums]
    BY <1>1, <1>3, <1>9, <2>2
  <2> QED BY <1>4, <1>5, <1>6, <1>9, <1>1, <1>3, <2>3, <2>4 DEF BundleIsConsistent
<1>10. CASE Item(r) # Generic(Sums)
  <2>1. remote'[Generic(Sums)] = remote[Generic(Sums)]
    BY <1>3, <1>7, <1>10
  <2>2. ASSUME remote[Generic(Sums)] # Absent
        PROVE  \E s \in Runs :
                 /\ remote'[Generic(Sums)] = Built[s][Sums]
                 /\ \A n \in DOMAIN Packages :
                      remote'[Generic(Packages[n])] = Built[s][Packages[n]]
    <3>1. PICK s \in Runs :
            /\ remote[Generic(Sums)] = Built[s][Sums]
            /\ \A n \in DOMAIN Packages : remote[Generic(Packages[n])] = Built[s][Packages[n]]
      BY <2>2 DEF UploadInv, BundleIsConsistent
    <3>2. \A n \in DOMAIN Packages : Built[s][Packages[n]] # Absent
      BY <1>7, <1>8, UploadAssumption
    <3>3. \A n \in DOMAIN Packages : remote'[Generic(Packages[n])] = Built[s][Packages[n]]
      BY <1>5, <1>7, <1>8, <3>1, <3>2
    <3> QED BY <2>1, <3>1, <3>3
  <2>3. BundleIsConsistent'
    BY <2>1, <2>2 DEF BundleIsConsistent
  <2> QED BY <1>1, <1>3, <1>4, <1>5, <1>6, <2>3
<1> QED BY <1>9, <1>10

\* What an execution has published stays published.
LEMMA PublishedKept ==
  ASSUME UploadInv, NEW s \in Runs,
         \A n \in Names : remote[n] # Absent => remote'[n] = remote[n],
         pc[s] \in Working, local'[s] = local[s]
  PROVE  /\ local'[s] = Built[s]
         /\ \A k \in 1..(next[s] - 1) : remote'[Uploads[k]] = Built[s][Uploads[k][2]]
<1>1. local[s] = Built[s] /\ \A k \in 1..(next[s] - 1) : remote[Uploads[k]] = Built[s][Uploads[k][2]]
  BY DEF UploadInv, Published
<1>2. next[s] \in 1..(Len(Uploads) + 1) /\ Len(Uploads) \in Nat
  BY UploadOrder DEF UploadInv, UploadTypeOK
<1>3. ASSUME NEW k \in 1..(next[s] - 1) PROVE remote'[Uploads[k]] = Built[s][Uploads[k][2]]
  <2>1. k \in 1..Len(Uploads)
    BY <1>2
  <2>2. Uploads[k] \in Names /\ Uploads[k][2] \in Files
    BY <2>1, UploadOrder
  <2>3. Built[s][Uploads[k][2]] # Absent
    BY <2>2, UploadAssumption
  <2> QED BY <1>1, <2>2, <2>3
<1> QED BY <1>1, <1>3

\* An execution that moves on has published its upload too.
LEMMA AdvanceKeeps ==
  ASSUME UploadInv, NEW r \in Runs, pc[r] \in {"uploading", "comparing"}, Advance(r),
         UNCHANGED local,
         remote' \in [Names -> Contents \cup {Damaged, Absent}],
         remote'[Item(r)] = Built[r][Item(r)[2]],
         \A n \in Names : remote[n] # Absent => remote'[n] = remote[n]
  PROVE  UploadTypeOK' /\ (\A s \in Runs : Published(s)') /\ AlwaysResumable'
<1>1. next[r] \in 1..Len(Uploads) /\ Len(Uploads) \in Nat /\ Item(r) \in Names
  BY ItemIsName
<1>2. /\ next \in [Runs -> 1..(Len(Uploads) + 1)]
      /\ pc \in [Runs -> Working \cup {"start", "failed", "refused"}]
  BY DEF UploadInv, UploadTypeOK
<1>3. /\ next'[r] = next[r] + 1 /\ pc'[r] \in {"uploading", "done"}
      /\ pc'[r] = "done" <=> next[r] = Len(Uploads)
      /\ \A s \in Runs : s # r => next'[s] = next[s] /\ pc'[s] = pc[s]
  BY <1>2 DEF Advance, Goto
<1>4. /\ next' \in [Runs -> 1..(Len(Uploads) + 1)]
      /\ pc' \in [Runs -> Working \cup {"start", "failed", "refused"}]
  BY <1>1, <1>2 DEF Advance, Goto, Working
<1>5. ASSUME NEW s \in Runs
      PROVE  /\ pc'[s] \in {"uploading", "comparing"} => next'[s] <= Len(Uploads)
             /\ pc'[s] = "done" => next'[s] = Len(Uploads) + 1
             /\ pc'[s] = "comparing" => remote'[Item(s)'] # Absent
  <2>1. CASE s = r
    BY <1>1, <1>3, <2>1
  <2>2. CASE s # r
    <3>1. next'[s] = next[s] /\ pc'[s] = pc[s]
      BY <1>3, <2>2
    <3>2. pc[s] = "comparing" => Item(s) \in Names /\ remote[Item(s)] # Absent
      BY ItemIsName DEF UploadInv, UploadTypeOK
    <3>3. Item(s)' = Item(s)
      BY <3>1 DEF Item
    <3> QED BY <3>1, <3>2, <3>3 DEF UploadInv, UploadTypeOK
  <2> QED BY <2>1, <2>2
<1>6. UploadTypeOK'
  BY <1>4, <1>5 DEF UploadInv, UploadTypeOK
<1>7. ASSUME NEW s \in Runs PROVE Published(s)'
  <2>1. CASE s = r
    <3>1. /\ local'[r] = Built[r]
          /\ \A k \in 1..(next[r] - 1) : remote'[Uploads[k]] = Built[r][Uploads[k][2]]
      BY PublishedKept DEF Working
    <3>2. \A k \in 1..(next'[r] - 1) : k \in 1..(next[r] - 1) \/ k = next[r]
      BY <1>1, <1>3
    <3> QED BY <2>1, <3>1, <3>2 DEF Published, Item
  <2>2. CASE s # r
    BY <1>3, <2>2, PublishedKept DEF Published
  <2> QED BY <2>1, <2>2
<1>8. AlwaysResumable'
  <2>1. \A s \in Runs : s # r => Item(s)' = Item(s)
    BY <1>3 DEF Item
  <2> QED BY <1>3, <2>1 DEF UploadInv, AlwaysResumable
<1> QED BY <1>6, <1>7, <1>8

\* An execution that stays where it is, stops, or is started again.
LEMMA OtherwiseKept ==
  ASSUME UploadInv, NEW r \in Runs, NEW p \in {"start", "failed", "refused", "comparing"}, Goto(r, p),
         UNCHANGED next, \A s \in Runs : s # r \/ p = "comparing" => local'[s] = local[s],
         local' \in [Runs -> [Files -> Contents \cup {Damaged}]],
         remote' \in [Names -> Contents \cup {Damaged, Absent}],
         \A n \in Names : remote[n] # Absent => remote'[n] = remote[n],
         p = "comparing" => pc[r] = "uploading" /\ remote[Item(r)] # Absent,
         p = "refused" => \E s \in Runs : Built[s][Item(r)[2]] # Built[r][Item(r)[2]]
  PROVE  UploadTypeOK' /\ (\A s \in Runs : Published(s)') /\ AlwaysResumable'
<1>1. pc \in [Runs -> Working \cup {"start", "failed", "refused"}]
  BY DEF UploadInv, UploadTypeOK
<1>2. pc' \in [Runs -> Working \cup {"start", "failed", "refused"}]
  BY <1>1 DEF Goto, Working
<1>3. pc'[r] = p /\ \A s \in Runs : s # r => pc'[s] = pc[s]
  BY <1>1 DEF Goto
<1>4. ASSUME NEW s \in Runs
      PROVE  /\ pc'[s] \in {"uploading", "comparing"} => next'[s] <= Len(Uploads)
             /\ pc'[s] = "done" => next'[s] = Len(Uploads) + 1
             /\ pc'[s] = "comparing" => remote'[Item(s)'] # Absent
  <2>1. Item(s)' = Item(s)
    BY DEF Item
  <2>2. pc[s] = "comparing" => Item(s) \in Names /\ remote[Item(s)] # Absent
    BY ItemIsName DEF UploadInv, UploadTypeOK
  <2>3. CASE s = r
    <3>1. p = "comparing" => Item(r) \in Names /\ next[r] <= Len(Uploads)
      BY ItemIsName DEF UploadInv, UploadTypeOK
    <3> QED BY <1>3, <2>1, <2>3, <3>1
  <2>4. CASE s # r
    BY <1>3, <2>1, <2>2, <2>4 DEF UploadInv, UploadTypeOK
  <2> QED BY <2>3, <2>4
<1>5. UploadTypeOK'
  BY <1>2, <1>4 DEF UploadInv, UploadTypeOK
<1>6. ASSUME NEW s \in Runs PROVE Published(s)'
  <2>1. CASE s = r
    <3>1. pc'[s] \in Working => p = "comparing" /\ pc[s] \in Working
      BY <1>3, <2>1 DEF Working
    <3> QED BY <3>1, PublishedKept DEF Published
  <2>2. CASE s # r
    BY <1>3, <2>2, PublishedKept DEF Published
  <2> QED BY <2>1, <2>2
<1>7. AlwaysResumable'
  <2>1. \A s \in Runs : Item(s)' = Item(s)
    BY DEF Item
  <2> QED BY <1>3, <2>1 DEF UploadInv, AlwaysResumable
<1> QED BY <1>5, <1>6, <1>7

\* Every step of every execution preserves the invariant.
LEMMA UploadStep == UploadInv /\ [Next]_vars => UploadInv'
<1> SUFFICES ASSUME UploadInv, [Next]_vars PROVE UploadInv'
  OBVIOUS
<1>1. /\ local \in [Runs -> [Files -> Contents \cup {Damaged}]]
      /\ remote \in [Names -> Contents \cup {Damaged, Absent}]
      /\ next \in [Runs -> 1..(Len(Uploads) + 1)]
      /\ pc \in [Runs -> Working \cup {"start", "failed", "refused"}]
      /\ Len(Uploads) \in Nat /\ Len(Uploads) >= 1
  <2>1. Len(Packages) \in Nat /\ Len(Rpms) \in Nat
    BY UploadOrder, UploadAssumption
  <2> QED BY UploadOrder, <2>1 DEF UploadInv, UploadTypeOK
<1>2. ASSUME NEW r \in Runs, Validate(r) PROVE UploadInv'
  <2>1. CASE local[r] = Built[r]
    <3>1. /\ pc'[r] = "uploading" /\ next'[r] = 1 /\ UNCHANGED <<local, remote>>
          /\ \A s \in Runs : s # r => pc'[s] = pc[s] /\ next'[s] = next[s]
      BY <1>1, <1>2, <2>1 DEF Validate, Goto
    <3>2. /\ pc' \in [Runs -> Working \cup {"start", "failed", "refused"}]
          /\ next' \in [Runs -> 1..(Len(Uploads) + 1)]
      BY <1>1, <1>2, <2>1 DEF Validate, Goto, Working
    <3>3. \A s \in Runs : s # r => Item(s)' = Item(s)
      BY <3>1 DEF Item
    <3>4. \A s \in Runs : /\ pc'[s] \in {"uploading", "comparing"} => next'[s] <= Len(Uploads)
                          /\ pc'[s] = "done" => next'[s] = Len(Uploads) + 1
                          /\ pc'[s] = "comparing" => remote'[Item(s)'] # Absent
      BY <1>1, <3>1, <3>3 DEF UploadInv, UploadTypeOK
    <3>5. UploadTypeOK'
      BY <1>1, <3>1, <3>2, <3>4 DEF UploadTypeOK
    <3>6. \A s \in Runs : Published(s)'
      BY <2>1, <3>1 DEF UploadInv, Published
    <3>7. AlwaysResumable'
      BY <3>1, <3>3 DEF UploadInv, AlwaysResumable
    <3> QED BY <3>1, <3>5, <3>6, <3>7, RegistryKept DEF UploadInv
  <2>2. CASE local[r] # Built[r]
    <3>1. /\ pc'[r] = "failed" /\ next'[r] = 1 /\ UNCHANGED <<local, remote>>
          /\ \A s \in Runs : s # r => pc'[s] = pc[s] /\ next'[s] = next[s]
      BY <1>1, <1>2, <2>2 DEF Validate, Goto
    <3>2. /\ pc' \in [Runs -> Working \cup {"start", "failed", "refused"}]
          /\ next' \in [Runs -> 1..(Len(Uploads) + 1)]
      BY <1>1, <1>2, <2>2 DEF Validate, Goto, Working
    <3>3. \A s \in Runs : s # r => Item(s)' = Item(s)
      BY <3>1 DEF Item
    <3>4. \A s \in Runs : /\ pc'[s] \in {"uploading", "comparing"} => next'[s] <= Len(Uploads)
                          /\ pc'[s] = "done" => next'[s] = Len(Uploads) + 1
                          /\ pc'[s] = "comparing" => remote'[Item(s)'] # Absent
      BY <1>1, <3>1, <3>3 DEF UploadInv, UploadTypeOK
    <3>5. UploadTypeOK'
      BY <1>1, <3>1, <3>2, <3>4 DEF UploadTypeOK
    <3>6. \A s \in Runs : Published(s)'
      BY <3>1 DEF UploadInv, Published, Working
    <3>7. AlwaysResumable'
      BY <3>1, <3>3 DEF UploadInv, AlwaysResumable
    <3> QED BY <3>1, <3>5, <3>6, <3>7, RegistryKept DEF UploadInv
  <2> QED BY <2>1, <2>2
<1>3. ASSUME NEW r \in Runs, Created(r) PROVE UploadInv'
  <2>1. pc[r] = "uploading" /\ remote[Item(r)] = Absent /\ Advance(r) /\ UNCHANGED local
        /\ remote' = [remote EXCEPT ![Item(r)] = Mine(r)]
    BY <1>3 DEF Created
  <2> QED BY <2>1, RegistryPut, AdvanceKeeps DEF UploadInv
<1>4. ASSUME NEW r \in Runs, UploadFails(r) PROVE UploadInv'
  <2>1. Goto(r, "failed") /\ UNCHANGED <<local, next>> /\ pc[r] = "uploading"
    BY <1>4 DEF UploadFails
  <2>2. CASE UNCHANGED remote
    BY <1>1, <2>1, <2>2, RegistryKept, OtherwiseKept DEF UploadInv
  <2>3. CASE remote[Item(r)] = Absent /\ remote' = [remote EXCEPT ![Item(r)] = Mine(r)]
    BY <1>1, <2>1, <2>3, RegistryPut, OtherwiseKept DEF UploadInv
  <2> QED BY <1>4, <2>2, <2>3 DEF UploadFails
<1>5. ASSUME NEW r \in Runs, Conflict(r) PROVE UploadInv'
  BY <1>1, <1>5, RegistryKept, OtherwiseKept DEF UploadInv, Conflict
<1>6. ASSUME NEW r \in Runs, Compare(r) PROVE UploadInv'
  <2>1. pc[r] = "comparing" /\ UNCHANGED <<local, remote>>
    BY <1>6 DEF Compare
  <2>2. Mine(r) = Built[r][Item(r)[2]] /\ Item(r) \in Names
    BY <2>1, ItemIsName
  <2>3. CASE remote[Item(r)] = Mine(r)
    <3>1. Advance(r)
      BY <1>6, <2>3 DEF Compare
    <3> QED BY <1>1, <2>1, <2>2, <2>3, <3>1, RegistryKept, AdvanceKeeps DEF UploadInv
  <2>4. CASE remote[Item(r)] # Mine(r)
    <3>1. Goto(r, "refused") /\ UNCHANGED next
      BY <1>6, <2>4 DEF Compare
    <3>2. PICK s \in Runs : remote[Item(r)] = Built[s][Item(r)[2]]
      BY <2>1, <2>2 DEF UploadInv, UploadTypeOK, OnlyBuilds
    <3>3. Built[s][Item(r)[2]] # Built[r][Item(r)[2]]
      BY <2>2, <2>4, <3>2
    <3> QED BY <1>1, <2>1, <3>1, <3>3, RegistryKept, OtherwiseKept DEF UploadInv
  <2> QED BY <2>3, <2>4
<1>7. ASSUME NEW r \in Runs, DownloadFails(r) PROVE UploadInv'
  BY <1>1, <1>7, RegistryKept, OtherwiseKept DEF UploadInv, DownloadFails
<1>8. ASSUME NEW r \in Runs, Rerun(r) PROVE UploadInv'
  <2>1. Goto(r, "start") /\ UNCHANGED <<remote, next>>
    BY <1>8 DEF Rerun
  <2>2. local' \in [Runs -> [Files -> Contents \cup {Damaged}]]
    <3>1. Built[r] \in [Files -> Contents \cup {Damaged}]
      <4>1. Built[r] \in [Files -> Contents]
        BY UploadAssumption
      <4> QED BY <4>1
    <3> QED BY <1>1, <1>8, <3>1 DEF Rerun
  <2>3. \A s \in Runs : s # r => local'[s] = local[s]
    BY <1>1, <1>8 DEF Rerun
  <2> QED BY <1>1, <2>1, <2>2, <2>3, RegistryKept, OtherwiseKept DEF UploadInv
<1>9. CASE UNCHANGED vars
  <2>1. \A s \in Runs : Item(s)' = Item(s)
    BY <1>9 DEF vars, Item
  <2>2. UploadTypeOK'
    BY <1>9, <2>1 DEF vars, UploadInv, UploadTypeOK
  <2>3. (\A s \in Runs : Published(s)') /\ AlwaysResumable'
    BY <1>9, <2>1 DEF vars, UploadInv, Published, AlwaysResumable
  <2> QED BY <1>9, <2>2, <2>3, RegistryKept DEF vars, UploadInv
<1> QED BY <1>2, <1>3, <1>4, <1>5, <1>6, <1>7, <1>8, <1>9 DEF Next

-----------------------------------------------------------------------------
\* The inductive invariant holds for any number of jobs and files.
THEOREM UploadInvariant == Spec => []UploadInv
BY UploadStart, UploadStep, PTL DEF Spec

\* A manifest in the registry vouches for packages of its own build
\* (upload-packages.sh: the manifest is the last upload of the bundle).
THEOREM ReleaseIsConsistent == Spec => []BundleIsConsistent
<1>1. UploadInv => BundleIsConsistent
  BY DEF UploadInv
<1> QED BY <1>1, UploadInvariant, PTL

\* A script that ends well has published its own bytes in both registries.
THEOREM SuccessPublishes == Spec => []SuccessIsPublished
<1>1. UploadInv => SuccessIsPublished
  <2> SUFFICES ASSUME UploadInv, NEW r \in Runs, pc[r] = "done", NEW n \in Names
               PROVE  remote[n] = Built[r][n[2]]
    BY DEF SuccessIsPublished
  <2>1. PICK k \in 1..Len(Uploads) : n = Uploads[k]
    BY UploadOrder DEF Names
  <2>2. next[r] = Len(Uploads) + 1 /\ Len(Uploads) \in Nat
    BY UploadOrder DEF UploadInv, UploadTypeOK
  <2>3. k \in 1..(next[r] - 1)
    BY <2>2
  <2> QED BY <2>1, <2>3 DEF UploadInv, Published, Working
<1> QED BY <1>1, UploadInvariant, PTL

\* An execution is refused only over a file that another build made differently
\* (upload-packages.sh: a 409 is resolved by comparing the bytes).
THEOREM ResumeNeverRefused == Spec => []AlwaysResumable
<1>1. UploadInv => AlwaysResumable
  BY DEF UploadInv
<1> QED BY <1>1, UploadInvariant, PTL
=============================================================================
