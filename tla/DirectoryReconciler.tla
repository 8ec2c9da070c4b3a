------------------------- MODULE DirectoryReconciler -------------------------
(***************************************************************************)
(* The LDAPDirectory reconciler (internal/controller/                      *)
(* ldapdirectory_controller.go) against a Kubernetes API server whose      *)
(* objects it reads through the controller-runtime informer cache.         *)
(*                                                                         *)
(* One directory object is modelled.  The work queue runs at most one      *)
(* Reconcile for it at a time, so the reconcile is a single sequential     *)
(* process whose steps (pc) are the API calls of Reconcile; between two    *)
(* steps the environment may act: the user edits or deletes the           *)
(* directory and creates or deletes the certificate secret, the          *)
(* StatefulSet controller rolls the pod out from the current template, the *)
(* kubelet makes the pod ready or unready, and the informers bring         *)
(* the cache up to date one object kind at a time.                         *)
(*                                                                         *)
(* Reads (r.Get) see the cache, writes go to the API server.  An event     *)
(* re-queues the directory only for the kinds the controller watches:      *)
(* the LDAPDirectory itself (For) and the objects it owns as their         *)
(* controller (Owns with the default OnlyControllerOwner filter).          *)
(***************************************************************************)
EXTENDS Naturals, FiniteSets, Sequences

LOCAL INSTANCE SequencesExt
LOCAL INSTANCE FiniteSetsExt

CONSTANTS
  Passwords,   \* values password.Generate may return
  NoPassword,  \* the admin password secret does not exist
  MaxGen       \* bound on metadata.generation (user spec edits)

ASSUME NoPassword \notin Passwords /\ Passwords # {}
ASSUME MaxGen \in Nat \ {0}

VARIABLES
  dir,     \* the LDAPDirectory held by the API server
  cert,    \* the certificate secret named by spec.certificateSecretRef exists
  pw,      \* the ldap-<name>-admin-password secret's value, or NoPassword
  sts,     \* the ldap-<name> StatefulSet: template generation, the
           \* generation its pod was created from (0: no pod), readiness
  svc,     \* the ldap-<name> Service exists
  cache,   \* the informer cache: the last copy of each object it received
  queued,  \* the work queue holds the directory's key
  pc,      \* the step Reconcile is at ("Idle" when no Reconcile runs)
  local    \* Reconcile's in-memory copy of the directory

vars == <<dir, cert, pw, sts, svc, cache, queued, pc, local>>

Phases == {"", "Pending", "Ready", "Failed"}

\* metav1.Condition types; a condition in conds has status True.  The
\* controller never writes a condition with status False.
ConditionTypes == {"Pending", "Ready", "Failed"}

Directory == [exists: BOOLEAN, finalizer: BOOLEAN, deleting: BOOLEAN,
              gen: 1..MaxGen, phase: Phases, obsGen: 0..MaxGen,
              conds: SUBSET ConditionTypes]

StatefulSet == [exists: BOOLEAN, gen: 0..MaxGen, rev: 0..MaxGen, ready: BOOLEAN]

Steps == {"Idle", "Finalizer", "Deletion", "Resolve", "Password",
          "StatefulSet", "Service", "CheckReady"}

TypeOK ==
  /\ dir \in Directory
  /\ cert \in BOOLEAN
  /\ pw \in Passwords \cup {NoPassword}
  /\ sts \in StatefulSet
  /\ svc \in BOOLEAN
  /\ cache \in [dir: Directory, cert: BOOLEAN,
                pw: Passwords \cup {NoPassword},
                sts: StatefulSet, svc: BOOLEAN]
  /\ queued \in BOOLEAN
  /\ pc \in Steps
  /\ local \in Directory

-----------------------------------------------------------------------------
(* The volume lists of statefulSetTemplate.  A volume claim template or a  *)
(* volume mount is abstracted to its name and the rest of its spec (a      *)
(* size, a mount path, or a user's value).                                 *)

\* defaultVolumeClaimTemplates: "config" of 10Mi and "data" of 100Mi.
DefaultVolumeClaimTemplates ==
  <<[name |-> "config", spec |-> "10Mi"], [name |-> "data", spec |-> "100Mi"]>>

\* The three mounts every pod gets before the user's.
DefaultVolumeMounts ==
  <<[name |-> "config", spec |-> "/etc/ldap/slapd.d"],
    [name |-> "data",   spec |-> "/var/lib/ldap"],
    [name |-> "certs",  spec |-> "/etc/ldap/certs"]>>

\* Mutant: the name is looked up in the defaults only, not in the list built
\* so far.
MergeByNameSearchingDefaults(list, overrides) ==
  LET Step(acc, o) ==
        LET i == SelectInSeq(list, LAMBDA e : e.name = o.name)
        IN  IF i = 0 THEN Append(acc, o) ELSE [acc EXCEPT ![i] = o]
  IN  FoldLeft(Step, list, overrides)

\* One pass over the user's list: the first entry of the list built so far
\* with the same name is replaced (and the scan breaks), or the entry is
\* appended when none has it.
MergeByName(list, overrides) ==
  LET Step(acc, o) ==
        LET i == SelectInSeq(acc, LAMBDA e : e.name = o.name)
        IN  IF i = 0 THEN Append(acc, o) ELSE [acc EXCEPT ![i] = o]
  IN  FoldLeft(Step, list, overrides)

VolumeClaimTemplates(overrides) ==
  MergeByName(DefaultVolumeClaimTemplates, overrides)

VolumeMounts(overrides) == MergeByName(DefaultVolumeMounts, overrides)

-----------------------------------------------------------------------------
(* Helpers for the calls Reconcile makes.                                  *)

\* Reconcile returns.  A result with RequeueAfter, or an error, puts the key
\* back on the queue (after the retry interval or the rate limiter's
\* backoff); ctrl.Result{} with no error does not.
Return(requeue) ==
  /\ pc' = "Idle"
  /\ queued' = (queued \/ requeue)

\* updater.UpdateStatus(ctx, r.Client, key, directory, fn): re-reads the
\* directory by key from the cache, applies fn and writes the status; a
\* stale copy is rejected with a conflict and retried.  It succeeds when the
\* cache holds the API server's current object, and fn then sees that
\* object's metadata.generation.  meta.SetStatusCondition sets only the
\* condition of its own type to True and leaves the others as they are.
StatusWritable == dir.exists /\ cache.dir = dir

\* Mutant: ObservedGeneration recorded one past metadata.generation.
WithStatusOffByOne(phase) ==
  [dir EXCEPT !.phase  = phase,
              !.obsGen = dir.gen + 1,
              !.conds  = @ \cup {phase}]

WithStatus(phase) ==
  [dir EXCEPT !.phase  = phase,
              !.obsGen = dir.gen,
              !.conds  = @ \cup {phase}]

\* markPending / markReady / markFailed: dir' after the status update.
Mark(phase) == IF StatusWritable THEN WithStatus(phase) ELSE dir

\* Mutant: the step's error swallowed, Reconcile returning ctrl.Result{}.
MarkFailedWithoutRequeue ==
  /\ dir' = Mark("Failed")
  /\ Return(FALSE)

\* markFailed logs a failed update and Reconcile returns the original error.
MarkFailedAndReturn ==
  /\ dir' = Mark("Failed")
  /\ Return(TRUE)

-----------------------------------------------------------------------------
(* Reconcile, one action per API call.                                     *)

\* r.Get of the directory from the cache; not found ends the reconcile.
GetDirectory ==
  /\ pc = "Idle"
  /\ queued
  /\ queued' = FALSE
  /\ local' = cache.dir
  /\ pc' = IF cache.dir.exists THEN "Finalizer" ELSE "Idle"
  /\ UNCHANGED <<dir, cert, pw, sts, svc, cache>>

\* controllerutil.CreateOrPatch adding the finalizer when the copy lacks it.
\* The API server refuses a patch of an object that is gone and a new
\* finalizer on an object being deleted; the patch response refreshes the
\* copy.
EnsureFinalizer ==
  /\ pc = "Finalizer"
  /\ IF local.finalizer
       THEN /\ pc' = "Deletion"
            /\ UNCHANGED <<dir, local, queued>>
       ELSE IF dir.exists /\ ~dir.deleting
              THEN /\ dir' = [dir EXCEPT !.finalizer = TRUE]
                   /\ local' = dir'
                   /\ pc' = "Deletion"
                   /\ UNCHANGED queued
              ELSE /\ Return(TRUE)
                   /\ UNCHANGED <<dir, local>>
  /\ UNCHANGED <<cert, pw, sts, svc, cache>>

\* Mutant: the deletion branch is missing; a deleted directory is
\* reconciled like a live one.
HandleDeletionIgnoringTimestamp ==
  /\ pc = "Deletion"
  /\ pc' = "Resolve"
  /\ UNCHANGED <<dir, queued, cert, pw, sts, svc, cache, local>>

\* A directory with a deletion timestamp: remove the finalizer and return.
\* With no finalizer left the API server removes the object.
HandleDeletion ==
  /\ pc = "Deletion"
  /\ IF local.deleting
       THEN IF dir.exists
              THEN /\ dir' = [dir EXCEPT !.finalizer = FALSE, !.exists = FALSE]
                   /\ Return(FALSE)
              ELSE /\ Return(TRUE)
                   /\ UNCHANGED dir
       ELSE /\ pc' = "Resolve"
            /\ UNCHANGED <<dir, queued>>
  /\ UNCHANGED <<cert, pw, sts, svc, cache, local>>

\* LDAPDirectory.ResolveReferences: the only reference is the certificate
\* secret, resolved through the cached client; missing means not ok.
CertificateResolvable == cache.cert

\* Mutant: the StatefulSet is reconciled before the admin password secret.
ResolveReferencesSkippingPassword ==
  /\ pc = "Resolve"
  /\ IF CertificateResolvable
       THEN /\ pc' = "StatefulSet"
            /\ UNCHANGED <<dir, queued>>
       ELSE /\ dir' = Mark("Pending")
            /\ Return(TRUE)
  /\ UNCHANGED <<cert, pw, sts, svc, cache, local>>

\* directory.ResolveReferences: the certificate secret, read from the cache.
\* Unresolvable: a NotReady event, markPending, RequeueAfter 5s.
ResolveReferences ==
  /\ pc = "Resolve"
  /\ IF CertificateResolvable
       THEN /\ pc' = "Password"
            /\ UNCHANGED <<dir, queued>>
       ELSE /\ dir' = Mark("Pending")
            /\ Return(TRUE)
  /\ UNCHANGED <<cert, pw, sts, svc, cache, local>>

\* Mutant: the secret is written with create-or-update instead of Create.
EnsureAdminPasswordOverwriting ==
  /\ pc = "Password"
  /\ IF cache.pw # NoPassword
       THEN /\ pc' = "StatefulSet"
            /\ UNCHANGED <<pw, queued>>
       ELSE \E p \in Passwords :
              /\ pw' = p
              /\ pc' = "StatefulSet"
              /\ UNCHANGED queued
  /\ UNCHANGED <<dir, cert, sts, svc, cache, local>>

\* Get the admin password secret; if the cache has none, generate a password
\* and r.Create the secret.  Create fails with AlreadyExists when the API
\* server has the secret the cache has not yet received.
EnsureAdminPassword ==
  /\ pc = "Password"
  /\ IF cache.pw # NoPassword
       THEN /\ pc' = "StatefulSet"
            /\ UNCHANGED <<pw, queued>>
       ELSE \E p \in Passwords :
              IF pw = NoPassword
                THEN /\ pw' = p
                     /\ pc' = "StatefulSet"
                     /\ UNCHANGED queued
                ELSE /\ Return(TRUE)
                     /\ UNCHANGED pw
  /\ UNCHANGED <<dir, cert, sts, svc, cache, local>>

\* The StatefulSet built from the in-memory spec; CreateOrUpdateFromTemplate
\* may fail when its read of the existing object is stale (AlreadyExists or
\* Conflict), and the failure is reported with markFailed.  Updating the
\* template leaves the running pod, and its readiness, as they are.
StatefulSetApplied == [sts EXCEPT !.exists = TRUE, !.gen = local.gen]

ReconcileStatefulSet ==
  /\ pc = "StatefulSet"
  /\ \/ /\ sts' = StatefulSetApplied
        /\ pc' = "Service"
        /\ UNCHANGED <<dir, queued>>
     \/ /\ cache.sts # sts
        /\ MarkFailedAndReturn
        /\ UNCHANGED sts
  /\ UNCHANGED <<cert, pw, svc, cache, local>>

ReconcileService ==
  /\ pc = "Service"
  /\ \/ /\ svc' = TRUE
        /\ pc' = "CheckReady"
        /\ UNCHANGED <<dir, queued>>
     \/ /\ cache.svc # svc
        /\ MarkFailedAndReturn
        /\ UNCHANGED svc
  /\ UNCHANGED <<cert, pw, sts, cache, local>>

\* isStatefulSetReady: the StatefulSet read from the cache has as many
\* ReadyReplicas as Replicas (one); a ready pod counts whatever template
\* revision it was created from.
StatefulSetReady == cache.sts.ready

\* Mutant: an unready StatefulSet is reported Pending without RequeueAfter.
CheckReadyWithoutRequeue ==
  /\ pc = "CheckReady"
  /\ \/ /\ ~cache.sts.exists
        /\ MarkFailedAndReturn
     \/ /\ cache.sts.exists /\ ~StatefulSetReady
        /\ dir' = Mark("Pending")
        /\ Return(FALSE)
     \/ /\ cache.sts.exists /\ StatefulSetReady
        /\ IF local.phase # "Ready"
             THEN /\ dir' = Mark("Ready")
                  /\ Return(~StatusWritable)
             ELSE /\ Return(FALSE)
                  /\ UNCHANGED dir
  /\ UNCHANGED <<cert, pw, sts, svc, cache, local>>

\* isStatefulSetReady reads the StatefulSet from the cache (an error if it is
\* not there).  Not ready:
\* markPending and RequeueAfter; ready: markReady unless the in-memory copy
\* already says Ready.
CheckReady ==
  /\ pc = "CheckReady"
  /\ \/ /\ ~cache.sts.exists
        /\ MarkFailedAndReturn
     \/ /\ cache.sts.exists /\ ~StatefulSetReady
        /\ dir' = Mark("Pending")
        /\ Return(TRUE)
     \/ /\ cache.sts.exists /\ StatefulSetReady
        /\ IF local.phase # "Ready"
             THEN /\ dir' = Mark("Ready")
                  /\ Return(~StatusWritable)
             ELSE /\ Return(FALSE)
                  /\ UNCHANGED dir
  /\ UNCHANGED <<cert, pw, sts, svc, cache, local>>

Reconcile ==
  \/ GetDirectory
  \/ EnsureFinalizer
  \/ HandleDeletion
  \/ ResolveReferences
  \/ EnsureAdminPassword
  \/ ReconcileStatefulSet
  \/ ReconcileService
  \/ CheckReady

-----------------------------------------------------------------------------
(* The environment.                                                        *)

\* A user edit of the spec bumps metadata.generation.
UpdateSpec ==
  /\ dir.exists /\ dir.gen < MaxGen
  /\ dir' = [dir EXCEPT !.gen = @ + 1]
  /\ UNCHANGED <<cert, pw, sts, svc, cache, queued, pc, local>>

\* kubectl delete: a deletion timestamp while a finalizer is present,
\* otherwise the object is removed at once.
DeleteDirectory ==
  /\ dir.exists /\ ~dir.deleting
  /\ dir' = IF dir.finalizer THEN [dir EXCEPT !.deleting = TRUE]
                             ELSE [dir EXCEPT !.exists = FALSE]
  /\ UNCHANGED <<cert, pw, sts, svc, cache, queued, pc, local>>

\* The certificate secret is created or deleted (by the user or
\* cert-manager).
ToggleCertificate ==
  /\ cert' = ~cert
  /\ UNCHANGED <<dir, pw, sts, svc, cache, queued, pc, local>>

\* The StatefulSet's pod becomes ready or stops being ready.
ToggleReadiness ==
  /\ sts.rev # 0
  /\ sts' = [sts EXCEPT !.ready = ~@]
  /\ UNCHANGED <<dir, cert, pw, svc, cache, queued, pc, local>>

\* The StatefulSet controller (re)creates the pod from the current template:
\* the first pod, or the rolling update after a template change.  The new
\* pod is not ready yet.
RollOut ==
  /\ sts.exists /\ sts.rev # sts.gen
  /\ sts' = [sts EXCEPT !.rev = sts.gen, !.ready = FALSE]
  /\ UNCHANGED <<dir, cert, pw, svc, cache, queued, pc, local>>

\* The informers deliver the current object.  For(LDAPDirectory) and
\* Owns(Service) enqueue the directory.  Owns(StatefulSet) does not: the
\* StatefulSet carries an owner reference set with SetOwnerReference, which
\* is not a controller reference.  Secrets are not watched.
SyncDirectory ==
  /\ cache.dir # dir
  /\ cache' = [cache EXCEPT !.dir = dir]
  /\ queued' = TRUE
  /\ UNCHANGED <<dir, cert, pw, sts, svc, pc, local>>

SyncService ==
  /\ cache.svc # svc
  /\ cache' = [cache EXCEPT !.svc = svc]
  /\ queued' = TRUE
  /\ UNCHANGED <<dir, cert, pw, sts, svc, pc, local>>

SyncStatefulSet ==
  /\ cache.sts # sts
  /\ cache' = [cache EXCEPT !.sts = sts]
  /\ UNCHANGED <<dir, cert, pw, sts, svc, queued, pc, local>>

SyncSecrets ==
  /\ <<cache.cert, cache.pw>> # <<cert, pw>>
  /\ cache' = [cache EXCEPT !.cert = cert, !.pw = pw]
  /\ UNCHANGED <<dir, cert, pw, sts, svc, queued, pc, local>>

Sync == SyncDirectory \/ SyncService \/ SyncStatefulSet \/ SyncSecrets

Environment == UpdateSpec \/ DeleteDirectory \/ ToggleCertificate
               \/ ToggleReadiness \/ RollOut

-----------------------------------------------------------------------------

\* A new LDAPDirectory: no finalizer, empty status, its create event queued;
\* the manager starts workers only after the caches have synced.
Init ==
  /\ dir = [exists |-> TRUE, finalizer |-> FALSE, deleting |-> FALSE,
            gen |-> 1, phase |-> "", obsGen |-> 0, conds |-> {}]
  /\ cert \in BOOLEAN
  /\ pw = NoPassword
  /\ sts = [exists |-> FALSE, gen |-> 0, rev |-> 0, ready |-> FALSE]
  /\ svc = FALSE
  /\ cache = [dir |-> dir, cert |-> cert, pw |-> pw, sts |-> sts, svc |-> svc]
  /\ queued = TRUE
  /\ pc = "Idle"
  /\ local = dir

Next == Reconcile \/ Sync \/ Environment

\* The worker runs a queued reconcile to its end, and the informers keep
\* delivering events; the user and the kubelet are not obliged to act.
Fairness ==
  /\ WF_vars(Reconcile)
  /\ WF_vars(SyncDirectory) /\ WF_vars(SyncService)
  /\ WF_vars(SyncStatefulSet) /\ WF_vars(SyncSecrets)

Spec == Init /\ [][Next]_vars /\ Fairness

-----------------------------------------------------------------------------
(* Properties.                                                             *)

\* The admin password is generated once: while the secret exists its value
\* is never replaced, even when Reconcile reads a cache that has not yet
\* received the secret it created earlier (the Get-then-Create at
\* ldapdirectory_controller.go:160-177).
PasswordNeverReplaced ==
  [][pw # NoPassword /\ pw' # NoPassword => pw' = pw]_pw

\* The StatefulSet's pods take LDAP_ADMIN_PASSWORD from the admin password
\* secret: Reconcile never creates the StatefulSet before that secret exists.
SecretBeforeStatefulSet ==
  sts.exists => pw # NoPassword

\* A directory that is being deleted is eventually removed: Reconcile is
\* re-run by the deletion event and drops the finalizer that holds it.
DeletionCompletes ==
  dir.deleting ~> ~dir.exists

\* The directory is healthy when it is not being deleted, its certificate
\* secret exists and the StatefulSet, whenever it exists, is ready.
Healthy ==
  /\ dir.exists /\ ~dir.deleting
  /\ cert
  /\ sts.exists => sts.ready

\* A directory that stays healthy ends up Ready for good, although the
\* StatefulSet becoming ready enqueues nothing: the RequeueAfter of the
\* Pending paths must carry Reconcile there.
ReadyWhenHealthy ==
  <>[]Healthy => <>[](dir.phase = "Ready")

\* The status conditions agree with the phase: the only condition with
\* status True is the one of the current phase (markPending, markReady and
\* markFailed each set only their own condition).
ConditionsAgreeWithPhase ==
  dir.conds \subseteq {dir.phase}

\* Once the directory is healthy and its spec no longer changes, the status
\* records the generation the controller has acted on.
ObservedGenerationCatchesUp ==
  <>[]Healthy => <>[](dir.obsGen = dir.gen)

\* The readiness check reports Failed only when the StatefulSet is really
\* absent, not when the cache has yet to receive the StatefulSet this very
\* Reconcile created (a transient condition, to be reported as Pending).
FailedOnlyWhenStatefulSetMissing ==
  [][pc = "CheckReady" /\ dir'.phase = "Failed" /\ dir.phase # "Failed"
       => ~sts.exists]_vars

\* When markReady turns the directory Ready, the generation it records as
\* observedGeneration is the one the ready pod runs: the template is built
\* from the copy read at the start of Reconcile while markReady stamps the
\* generation it re-reads, and isStatefulSetReady counts ready replicas
\* whatever template they were created from.
ReadyRecordsRunningGeneration ==
  [][dir.phase # "Ready" /\ dir'.phase = "Ready" => dir'.obsGen = sts.rev]_vars

-----------------------------------------------------------------------------
(* The volume merge against a reference definition.                        *)

\* Overriding by name, stated without the loop: the defaults keep their
\* places and take the last user entry of their name; the other names
\* follow in the order of their first appearance, each with its last entry.
MergedReference(list, overrides) ==
  LET Known    == {list[i].name : i \in DOMAIN list}
      Named(n) == {i \in DOMAIN overrides : overrides[i].name = n}
      Fresh    == SetToSortSeq({i \in DOMAIN overrides :
                                  /\ overrides[i].name \notin Known
                                  /\ i = Min(Named(overrides[i].name))}, <)
      Final(e) == IF Named(e.name) = {} THEN e
                  ELSE overrides[Max(Named(e.name))]
  IN  [i \in 1..Len(list) |-> Final(list[i])]
        \o [k \in 1..Len(Fresh) |-> Final(overrides[Fresh[k]])]

\* User lists of up to three entries over a default name, a new name and
\* two user values.
UserVolumes ==
  BoundedSeq([name: {"config", "data", "certs", "extra"},
              spec: {"u1", "u2"}], 3)

\* statefulSetTemplate's two merge loops, for every user list.
VolumesOverrideByName ==
  \A ov \in UserVolumes :
    /\ VolumeClaimTemplates(ov) = MergedReference(DefaultVolumeClaimTemplates, ov)
    /\ VolumeMounts(ov) = MergedReference(DefaultVolumeMounts, ov)

\* A StatefulSet the reconciler has applied carries the volumes of the
\* directory's spec merged into the defaults by name (statefulSetTemplate's
\* two loops over spec.volumeClaimTemplates and spec.volumeMounts): a
\* default is replaced, never duplicated, a repeated user name yields one
\* entry with its last value, and the pod keeps every default it was not
\* given.  The spec's lists are abstracted away, so every list is checked.
VolumeMergeMatchesReference == sts.exists => VolumesOverrideByName

=============================================================================
