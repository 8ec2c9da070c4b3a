# TLA+ models of the LDAP operator

This directory holds TLA+ models of the Kubernetes operator in `src/`, the TLC
configurations that check them, and `PROJECT.json`, which lists for every
definition the source lines it models, every run, mutant, finding and hazard.

## The system

The operator runs controller-runtime controllers in one manager process:

* **LDAPDirectory reconciler** (`src/internal/controller/ldapdirectory_controller.go`).
  For one directory it adds a finalizer, and on deletion removes it. It waits
  for the referenced certificate secret (requeue after 5 s while Pending) and
  creates the admin password secret once. It then creates or updates an
  OpenLDAP StatefulSet and a Service from templates, checks the StatefulSet's
  readiness and writes the status: the phase Pending/Ready/Failed, the
  conditions and observedGeneration.
* **API types** (`src/api/v1alpha1/ldapdirectory_types.go`). LDAPDirectory and
  LDAPGroup compute their distinguished name (DN) and resolve their references
  by name through the informer cache. A group's DN is `cn=<name>,` followed by
  the parent's DN if `parentRef` is set, and otherwise by the directory's
  `dc=` suffix.
* **Generic object reconciler, directory client and attribute mapper.** These
  manage groups, organizational units and users. Only their wiring
  (`src/cmd/ldap-operator/main.go`) and the client's test are under `src/`.
* Manifests, RBAC, the Dockerfile and the e2e test. They configure and
  exercise the system but have no behaviour of their own.

The components interact through the Kubernetes API server. Every reconciler
reads through a per-kind informer cache that lags behind the API server.
Writes go to the API server directly. A reconcile runs when its key is
enqueued, and at most one reconcile per key runs at a time. The key is
enqueued by:

* an event on the directory itself (`For`);
* an event on an object it controls (`Owns`, but only through a *controller*
  owner reference);
* a `RequeueAfter` or an error.

## Modules

### `DirectoryReconciler` (checked through `MCDirectoryReconciler`)

The state:

* the truth in the API server: `dir`, `cert`, `pw`, `sts` and `svc`;
* the informer cache `cache` (one copy of each of the five);
* the work queue flag `queued`;
* the reconcile's program counter `pc`;
* the directory copy `local` that the reconcile works on.

`dir` keeps the fields the reconciler reads or writes: the finalizer, the
deletion timestamp, the generation, the phase, the condition types set True
and observedGeneration.

Reconcile is split into one action per step of the Go function. Each step is
atomic with respect to the environment, because it is one API call or one
cache read:

* `GetDirectory`
* `EnsureFinalizer`
* `HandleDeletion`
* `ResolveReferences`
* `EnsureAdminPassword`
* `ReconcileStatefulSet`
* `ReconcileService`
* `CheckReady`

Every early return goes to `Idle` through `Return`, and requeues when the
code returns an error or `RequeueAfter`. The status writers are modelled like
this:

* `WithStatus` is a status write; `Mark` applies it only when `StatusWritable`.
* `markFailed` becomes `MarkFailedAndReturn`. It returns an error, so the key
  is requeued, and it ignores a failed status write. The error requeue is what
  corrects a stale phase left by that dropped write: the mutant
  `MarkFailedWithoutRequeue` (error swallowed) leaves the directory Failed
  forever and breaks `ReadyWhenHealthy`, since StatefulSet events do not
  enqueue the directory.
* `LDAPDirectory.ResolveReferences` becomes `CertificateResolvable`: the
  certificate secret is in the cache.

The environment acts in any order and without fairness:

* the user updates the spec (`UpdateSpec`, bounded by `MaxGen`) and deletes
  the directory;
* cert-manager toggles the certificate secret;
* the StatefulSet controller creates the pod from the current template, the
  first time and again after every template change (`RollOut`);
* the kubelet toggles the pod's readiness (`ToggleReadiness`).

The informers copy truth into the cache one kind at a time (`Sync*`). Only
`SyncDirectory` and `SyncService` enqueue the key, because the StatefulSet is
not a controller-owned object (line 507) and secrets are not watched.

Abstractions:

* The StatefulSet is abstracted to three things: the generation of its
  template, the generation its one pod was created from (`rev`), and that
  pod's readiness. `StatefulSetReady` is `isStatefulSetReady`. It counts a
  ready pod whatever template the pod runs.
* The Service is abstracted to its existence. The environment variables and
  labels of the templates are left out, because no property tells them apart.
* The volume lists of `statefulSetTemplate` are pure operators.
  `DefaultVolumeClaimTemplates` and `DefaultVolumeMounts` are the defaults.
  `MergeByName` is the merge loop, a `FoldLeft` whose step finds the first
  entry of the same name with `SelectInSeq` and replaces it, or appends.
  `MergedReference` states the same merge declaratively: defaults keep their
  places, the last user entry of a name wins, and new names follow in the
  order they first appear.
* The password is a model value, drawn from `Passwords`.
* A CreateOrUpdate over a stale cache may fail with a conflict. It then takes
  the markFailed path.

### `DistinguishedName` (checked through `MCDistinguishedName`)

The state is the map from object names to specs (or `None`). The actions are
the users creating a directory or a group with any references, and deleting
any object.

* `GetDistinguishedName` is the Go recursion, given one unit of fuel per
  object. Running out of fuel stands for the unbounded recursion.
* `SplitDomain` and `DirectoryDN` are `strings.Split` and the `dc=` join over
  a domain given as a sequence of label words and dots.
* `ResolveReferences` checks the direct references, as the code does.
* The reference definition `ReferenceDN` builds the same DN without
  recursion. It computes the chain of objects as a closure and orders it.

### `ObjectReconciler` (checked through `MCObjectReconciler`)

The generic `LDAPObjectReconciler` is wired for LDAPGroup in
`src/cmd/ldap-operator/main.go:121-132`. Its code, and that of the directory
client, is not under `src/`. Their actions are therefore modelled from the
design (§4.4, §4.5, §7) and marked `spec_modelled` in the map. They use the
code-modelled `LDAPGroup.ResolveReferences` and `GetDistinguishedName`
through `DNs == INSTANCE DistinguishedName WITH objects <- specs`.

The state:

* `specs`: the directory and group objects;
* `meta`: per group, the finalizer, the deletion timestamp and the status
  phase (`LDAPGroup.SetStatus` is `SetPhase`);
* `entries`: per directory, the set of DNs its LDAP server holds;
* `pc` and `queued`: per group, the reconcile step and the work-queue flag;
* `target`: per group, the directory and DN its reconcile computed and has
  not written yet.

Each group reconciles on its own, and groups interleave freely. The steps
are:

1. `GetObject`
2. `HandleDeletion`: a best-effort delete of the entry at the current DN,
   then the finalizer is dropped.
3. `EnsureFinalizer`
4. `Resolve`: unresolved references mark the group Pending and requeue.
5. `Apply`: computes the DN (`GetDistinguishedName`). A DN that cannot be
   computed marks the group Failed and requeues through the error.
6. `WriteEntry`: calls createOrUpdateEntry with the DN `Apply` computed. The
   objects may have changed in between, as in the design, where the DN is
   computed and then written by separate calls. A refused add marks the
   group Failed and requeues; success marks it Ready.

The LDAP server keeps a tree:

* an add needs the parent entry;
* a non-recursive delete of an entry with children fails;
* a delete of a missing entry succeeds.

The environment is bounded by `MaxOps` in total. It covers:

* users creating directories and groups, and editing and deleting groups,
  with cyclic parent chains excluded (cycles are `dn_cycle`'s subject);
* `Restart` of the operator process, which loses in-flight reconciles and
  re-lists every object.

`Resync` is the informers' periodic resync. `ctrl.NewManager` is given no
`Cache.SyncPeriod` (main.go:87-104), so controller-runtime resyncs every
10 hours and enqueues every group. It is not a user action, so `MaxOps` does
not bound it. `Spec` gives it no fairness; `SpecWithResync` makes it weakly
fair.

Two switches restrict what the users may do:

* `UniqueNames` forbids two groups with the same name. The code has no such
  rule, but the design assumes that objects own disjoint DNs. Every run sets
  it. With it dropped, two groups write one entry, and deleting one of them
  leaves the other Ready with no entry.
* `AllowEdits` enables spec edits.

Abstractions:

* Reads see the API server directly; the informer lag is modelled only for
  the directory reconciler.
* The attribute mapping is abstracted to the entry's DN.

### `DirectoryTree` (the abstract specification of the trees)

This module states what the object reconcilers promise about each
directory's LDAP tree, without any reconcile step. A tree changes only in
these ways:

* it is provisioned with its suffix entry;
* an entry is placed at the current DN of an existing group of that
  directory, under an entry that exists;
* when a deleting group goes away, at most its own entry is removed. That
  entry must be a leaf that no live group claims.

`ObjectReconciler` instantiates it with this mapping:

* `objects <- specs`;
* `deleting <- {g : meta[g].deleting}`;
* `tree <- entries`.

`ImplementsDirectoryTree` (its `Spec`) is checked as a property of the
detailed specification, and `objects_stale_write` shows it fails. A group
renamed between `Apply` and `WriteEntry` gets an entry written at its old
DN, which no group claims any more.

## Runs

| run | cfg | expect | what it shows |
|---|---|---|---|
| directory_safety | DirectorySafety.cfg | pass | The secret exists before the StatefulSet. The password is never replaced, even over a stale cache. The volume merges equal their reference definition for every user list of up to three entries. |
| directory_liveness | DirectoryLiveness.cfg | pass | Deletion completes. A directory that stays healthy ends Ready. |
| directory_conditions | DirectoryConditions.cfg | violation | Pending=True and Ready=True at once (finding). |
| directory_observed_generation | DirectoryObservedGeneration.cfg | violation | observedGeneration is stuck after a spec change while Ready (finding). |
| directory_transient_failure | DirectoryTransientFailure.cfg | violation | A freshly created StatefulSet is missing from the cache, so the directory is marked Failed (finding). |
| directory_ready_generation | DirectoryReadyGeneration.cfg | violation | markReady records an observedGeneration that the ready pod does not run. This happens after a spec edit during the reconcile, or when an old pod is still ready (finding). |
| dn_reference | DNReference.cfg | pass | The recursive DN equals the closure-based reference wherever the chain is well rooted, and fails exactly where it is not. |
| dn_cycle | DNCycle.cfg | violation | A parentRef cycle makes the walk unbounded (finding). |
| objects_liveness | ObjectLiveness.cfg | pass | Without relying on the resync, once users stop every group with an intact chain is Ready with its entry present. This includes children applied before the parent's entry existed, which only the error requeue retries. |
| objects_resync | ObjectResync.cfg | pass | With edits, renames and moves, and with the resync weakly fair, once users stop every group with an intact chain is written again at its current DN and is Ready. Only the resync brings back a child whose parent was renamed, because nothing enqueues a group when its parent changes. |
| objects_stale_write | ObjectStaleWrite.cfg | violation | The refinement of `DirectoryTree` fails. A group renamed between computing its DN and writing it gets an entry at a DN no group claims (finding). |
| objects_orphans | ObjectOrphans.cfg | violation | A parent deleted before its child keeps its entry, because the non-recursive delete is refused and the finalizer is dropped anyway. The child's entry is skipped at its own deletion, because its DN can no longer be computed. Both stay in the LDAP tree, resync or not (finding). |

Every property of a passing run has a mutant in `PROJECT.json`: a plausible
bug in the mapped definition that TLC shows breaks the property.

## Bounds

* **Reconciler.**
  * `MaxGen = 2` in the safety run gives one spec change. That is enough for
    a StatefulSet built from an old generation to meet a new one.
  * Two passwords, under symmetry, let a second password be generated.
  * The volume merges are checked once, as a constant-level invariant, over
    every user list of up to three entries. An entry has one of four names
    (two defaults, the `certs` mount, and a new name) and one of two values.
    This covers a default overridden twice, a new name repeated, and a new
    name placed before a default's override.
  * Liveness uses one password and `MaxGen = 1` to keep the fair-cycle search
    small. Neither the password value nor the generation appears in the
    liveness properties.
* **DN.** Two directories, three groups, two domains and two common names.
  * Chains reach depth three (group, group, group, then the directory).
  * There are self-cycles, two-cycles and three-cycles.
  * Parents can sit in the other directory.
  * One domain has a trailing dot, which gives an empty label.

* **Group reconciler.**
  * One directory, two groups and two names. That is enough for a parent
    and a child, and for a missing parent. A missing grandparent (its
    grandchild's direct references resolve, its DN does not) needs three
    groups. A liveness run with three groups did not finish within the
    time a run is given, at 450,000 distinct states, so that case is listed
    as a hazard without a property.
  * `MaxOps` is 5 in `objects_liveness` and `objects_orphans`. That is
    enough to create a directory and two groups and delete both in either
    order, or to restart. It is 6 in `objects_stale_write`, and 4 with a
    third name in `objects_resync`. There a parent can take a name that is
    neither its old one nor its child's: the directory, the parent, the
    child, and the rename.
  * `objects_liveness` has no edits. With two distinct names, a group
    created again takes back its old name, so no group's DN changes after it
    is applied. That is why it needs no resync.
  * The runs have `CHECK_DEADLOCK FALSE`. Once the users stop and the queue
    is empty, the operator really does sit idle.

## Fairness

* Reconcile steps are weakly fair. The manager keeps a worker running, and a
  queued key is processed.
* Each informer sync is weakly fair. Watches deliver eventually.
* Each group's reconcile is weakly fair. RequeueAfter and the error backoff
  are finite delays.
* The user, cert-manager and the kubelet get no fairness. The group model's
  users are bounded instead, so "once users stop" is a suffix of every
  behaviour.
* `ReadyWhenHealthy` is stated under the assumption that the certificate and
  the StatefulSet stay healthy from some point on.
* The 10-hour informer resync is not modelled for the directory
  reconciler. Its liveness properties therefore hold without it.
* For the group reconciler, `Resync` is an action. `objects_liveness`
  gives it no fairness, so it shows convergence without the resync.
  `objects_resync` and `objects_orphans` make it weakly fair, because the
  timer fires as long as the process runs. The directory's unready
  StatefulSet (controller:507) is noticed only at that resync. That is a
  delay of up to 10 hours, not a liveness failure, so no run states it.

## Not modelled, and the plan

* **Organizational units and users.** Their API types are not under
  `src/`, so only groups are modelled.
* **Parts of the directory client.** Attribute diffs, password hashing and
  connections are not modelled. The client test's idempotence claims are
  about attribute values, which the model abstracts away.
* **Renames and moves of a parent.** The child is written under the new
  parent entry only at the next resync (`objects_resync`). The old entries
  stay behind, as `objects_orphans` shows for deletion.
* **Two groups with the same name.** Every run sets `UniqueNames`, so the
  case of two reconcilers sharing one entry is listed as a hazard.
* **The rest of the StatefulSet template.** The environment variables,
  labels, probes and the Service's fields are not modelled. Only the volume
  merges are, because only they have a loop that can go wrong.
* **A directory deleted and created again.** The admin password secret is
  garbage-collected with the directory, but the volume claims are kept. The
  new directory therefore gets a new password over the old volumes. Whether
  that breaks the server depends on the image's `bootstrap.sh`, which is not
  in the repository. This is listed as a hazard.
* **A cross-directory parent.** A group whose parent is in another directory
  gets a DN under that other directory's suffix. The spec does not forbid
  this, so no run states it as a requirement. `dn_reference` covers such
  chains.
* **Leader election.** The models assume one manager reconciles at a time,
  which the lease gives when `--leader-elect` is set (it is, in the
  Deployment). The rest of `main.go` after line 172 is manifests.
* **What is left.** Every state-changing step of the code under `src/` is
  an action or operator of a module. What remains is either not under
  `src/` (the organizational-unit and user types, the directory client, the
  reference helper) or has no behaviour a property could tell apart.
* **Manifests, RBAC, the Dockerfile and the e2e test.** They have no
  behaviour.
