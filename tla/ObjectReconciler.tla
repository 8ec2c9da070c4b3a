--------------------------- MODULE ObjectReconciler ---------------------------
(***************************************************************************)
(* The generic LDAP object reconciler, instantiated for LDAPGroup           *)
(* (cmd/ldap-operator/main.go wires LDAPObjectReconciler[*LDAPGroup,        *)
(* *ldap.Group] with mapper.GroupToEntry), writing entries to the LDAP     *)
(* server of each directory through the directory client.                  *)
(*                                                                         *)
(* The reconciler and the client are not under src/; their steps follow    *)
(* the design (sections 4.4, 4.5 and 7).  The references and DNs they use  *)
(* are LDAPGroup.ResolveReferences and GetDistinguishedName, taken from    *)
(* the DistinguishedName module over the objects of this one.              *)
(*                                                                         *)
(* Each group has its own reconcile, at most one at a time per group and   *)
(* any number of groups at once (the work queue of section 5); each step   *)
(* is one call to the API server or to the LDAP server.  An LDAP server     *)
(* keeps a tree: an entry is added only under an existing parent entry,    *)
(* and a non-recursive delete of an entry with children fails.  Users      *)
(* create directories and groups, edit and delete groups, and the          *)
(* operator process may restart; these are bounded by MaxOps in total.     *)
(***************************************************************************)
EXTENDS Naturals, Sequences, SequencesExt, FiniteSets

CONSTANTS
  Directories,  \* names of LDAPDirectory objects
  Groups,       \* names of LDAPGroup objects
  Domains,      \* spec.domain values of directories
  CommonNames,  \* spec.name values of groups
  None,         \* an absent object or an unset parentRef
  MaxOps,       \* bound on user actions and operator restarts
  UniqueNames,  \* users never give two groups the same spec.name
  AllowEdits    \* users may edit the spec of an existing group

ASSUME MaxOps \in Nat /\ UniqueNames \in BOOLEAN /\ AllowEdits \in BOOLEAN

VARIABLES
  specs,    \* name -> the object's spec, None when it does not exist
  meta,     \* group -> finalizer, deletion timestamp, status.phase
  entries,  \* directory -> the DNs of the entries its LDAP server holds
  pc,       \* group -> the step its reconcile is at
  queued,   \* group -> the work queue holds the group's key
  target,   \* group -> the directory and DN its reconcile computed, or None
  ops       \* user actions and restarts so far

vars == <<specs, meta, entries, pc, queued, target, ops>>

DNs == INSTANCE DistinguishedName WITH objects <- specs

Phases == {"", "Pending", "Ready", "Failed"}

Meta == [finalizer: BOOLEAN, deleting: BOOLEAN, phase: Phases]

NewMeta == [finalizer |-> FALSE, deleting |-> FALSE, phase |-> ""]

Steps == {"Idle", "Deletion", "Finalizer", "Resolve", "Apply", "Write"}

TypeOK ==
  /\ DNs!TypeOK
  /\ meta \in [Groups -> Meta]
  /\ \A d \in Directories : \A e \in entries[d] :
       Len(e) > 0 /\ \A i \in 1..Len(e) : e[i].attr \in {"cn", "dc"}
  /\ pc \in [Groups -> Steps]
  /\ queued \in [Groups -> BOOLEAN]
  /\ \A g \in Groups : target[g] = None \/ target[g].dir \in Directories
  /\ ops \in 0..MaxOps

Exists(n) == specs[n] # None

Live(g) == Exists(g) /\ ~meta[g].deleting

DirOf(g) == specs[g].directoryRef

-----------------------------------------------------------------------------
(* The directory client (section 4.4).                                     *)

\* createOrUpdateEntry: an add or a modify of the entry at dn.  The server
\* refuses an add whose parent entry is missing (noSuchObject).
Addable(d, dn) == Tail(dn) \in entries[d]

CreateOrUpdateEntry(d, dn) == [entries EXCEPT ![d] = @ \cup {dn}]

HasChildren(d, dn) == \E e \in entries[d] : IsStrictSuffix(dn, e)

\* deleteEntry(dn, recursive = false): NotFound counts as success; an entry
\* with children is left in place and the call fails.
DeleteEntry(d, dn) ==
  IF HasChildren(d, dn) THEN entries
  ELSE [entries EXCEPT ![d] = @ \ {dn}]

-----------------------------------------------------------------------------
(* The reconcile of one group (section 4.5), one action per call.          *)

\* The reconcile returns; RequeueAfter or an error requeues the key.
Return(g, requeue) ==
  /\ pc' = [pc EXCEPT ![g] = "Idle"]
  /\ queued' = [queued EXCEPT ![g] = @ \/ requeue]

Goto(g, step) ==
  /\ pc' = [pc EXCEPT ![g] = step]
  /\ UNCHANGED queued

\* LDAPGroup.SetStatus with a new phase, written to the status subresource.
SetPhase(g, phase) == meta' = [meta EXCEPT ![g].phase = phase]

\* Get the object; a deletion timestamp is handled first.
GetObject(g) ==
  /\ pc[g] = "Idle" /\ queued[g]
  /\ queued' = [queued EXCEPT ![g] = FALSE]
  /\ pc' = [pc EXCEPT ![g] = IF ~Exists(g) THEN "Idle"
                             ELSE IF meta[g].deleting THEN "Deletion"
                             ELSE "Finalizer"]
  /\ UNCHANGED <<specs, meta, entries, target, ops>>

\* Best-effort delete of the entry at the object's DN (skipped when the DN
\* cannot be computed, a failure ignored), then the finalizer is removed
\* and the API server removes the object.
HandleDeletion(g) ==
  /\ pc[g] = "Deletion"
  /\ LET r == DNs!DN(g)
     IN  entries' = IF r.status = "ok" THEN DeleteEntry(DirOf(g), r.dn)
                    ELSE entries
  /\ specs' = [specs EXCEPT ![g] = None]
  /\ meta' = [meta EXCEPT ![g] = NewMeta]
  /\ Return(g, FALSE)
  /\ UNCHANGED <<target, ops>>

\* Add the finalizer before any LDAP write.  The API server refuses it on
\* an object that is gone or being deleted, and the reconcile errors.
EnsureFinalizer(g) ==
  /\ pc[g] = "Finalizer"
  /\ IF meta[g].finalizer
       THEN Goto(g, "Resolve") /\ UNCHANGED meta
       ELSE IF Live(g)
              THEN /\ meta' = [meta EXCEPT ![g].finalizer = TRUE]
                   /\ Goto(g, "Resolve")
              ELSE Return(g, TRUE) /\ UNCHANGED meta
  /\ UNCHANGED <<specs, entries, target, ops>>

\* ResolveReferences; unresolved: Pending and RequeueAfter 5s.
Resolve(g) ==
  /\ pc[g] = "Resolve"
  /\ IF DNs!ResolveReferences(g)
       THEN Goto(g, "Apply") /\ UNCHANGED meta
       ELSE SetPhase(g, "Pending") /\ Return(g, TRUE)
  /\ UNCHANGED <<specs, entries, target, ops>>

\* GetDistinguishedName over the cached objects, then GroupToEntry; a DN
\* that cannot be computed: Failed, and the error is returned.
Apply(g) ==
  /\ pc[g] = "Apply"
  /\ LET r == DNs!DN(g)
     IN  IF r.status = "ok"
           THEN /\ target' = [target EXCEPT ![g] = [dir |-> DirOf(g), dn |-> r.dn]]
                /\ Goto(g, "Write")
                /\ UNCHANGED meta
           ELSE SetPhase(g, "Failed") /\ Return(g, TRUE)
                /\ UNCHANGED target
  /\ UNCHANGED <<specs, entries, ops>>

\* Mutant: a failed write is reported but not retried.
WriteEntryWithoutRequeue(g) ==
  /\ pc[g] = "Write"
  /\ LET t == target[g]
     IN  IF Addable(t.dir, t.dn)
           THEN /\ entries' = CreateOrUpdateEntry(t.dir, t.dn)
                /\ SetPhase(g, "Ready")
                /\ Return(g, FALSE)
           ELSE SetPhase(g, "Failed") /\ Return(g, FALSE)
                /\ UNCHANGED entries
  /\ target' = [target EXCEPT ![g] = None]
  /\ UNCHANGED <<specs, ops>>

\* Mutant: a group already Ready is not written again.
WriteEntrySkippingReady(g) ==
  /\ pc[g] = "Write"
  /\ LET t == target[g]
     IN  IF meta[g].phase = "Ready"
           THEN Return(g, FALSE) /\ UNCHANGED <<meta, entries>>
           ELSE IF Addable(t.dir, t.dn)
           THEN /\ entries' = CreateOrUpdateEntry(t.dir, t.dn)
                /\ SetPhase(g, "Ready")
                /\ Return(g, FALSE)
           ELSE SetPhase(g, "Failed") /\ Return(g, TRUE)
                /\ UNCHANGED entries
  /\ target' = [target EXCEPT ![g] = None]
  /\ UNCHANGED <<specs, ops>>

\* createOrUpdateEntry at the DN Apply computed, on the client of the
\* group's directory; the objects may have changed since.  A refused add
\* (no parent entry): Failed, and the error is returned.  Success: Ready.
WriteEntry(g) ==
  /\ pc[g] = "Write"
  /\ LET t == target[g]
     IN  IF Addable(t.dir, t.dn)
           THEN /\ entries' = CreateOrUpdateEntry(t.dir, t.dn)
                /\ SetPhase(g, "Ready")
                /\ Return(g, FALSE)
           ELSE SetPhase(g, "Failed") /\ Return(g, TRUE)
                /\ UNCHANGED entries
  /\ target' = [target EXCEPT ![g] = None]
  /\ UNCHANGED <<specs, ops>>

Reconcile(g) ==
  \/ GetObject(g)
  \/ HandleDeletion(g)
  \/ EnsureFinalizer(g)
  \/ Resolve(g)
  \/ Apply(g)
  \/ WriteEntry(g)

-----------------------------------------------------------------------------
(* The environment, bounded by MaxOps.                                     *)

\* No group's parent walk is cyclic (cycles are the dn_cycle run's subject;
\* the operator process would die in the walk).
Acyclic == \A g \in Groups : Exists(g) => DNs!DN(g) # DNs!Overflow

NameFree(g, name) ==
  ~UniqueNames \/ \A h \in Groups \ {g} : Exists(h) => specs[h].name # name

GroupSpecs(g) ==
  {s \in DNs!GroupSpec : s.parentRef \in (Groups \ {g}) \cup {None}
                         /\ NameFree(g, s.name)}

\* The directory's LDAP server starts with the entry of its suffix.
CreateDirectory(d, dom) ==
  /\ ~Exists(d)
  /\ specs' = [specs EXCEPT ![d] = [kind |-> "LDAPDirectory", domain |-> dom]]
  /\ entries' = [entries EXCEPT ![d] = {DNs!DirectoryDN(dom)}]
  /\ UNCHANGED <<meta, pc, queued, target>>

CreateGroup(g, s) ==
  /\ ~Exists(g)
  /\ specs' = [specs EXCEPT ![g] = s]
  /\ meta' = [meta EXCEPT ![g] = NewMeta]
  /\ queued' = [queued EXCEPT ![g] = TRUE]
  /\ UNCHANGED <<entries, pc, target>>

UpdateGroup(g, s) ==
  /\ AllowEdits /\ Live(g) /\ s # specs[g] /\ s.directoryRef = DirOf(g)
  /\ specs' = [specs EXCEPT ![g] = s]
  /\ queued' = [queued EXCEPT ![g] = TRUE]
  /\ UNCHANGED <<meta, entries, pc, target>>

DeleteGroup(g) ==
  /\ Live(g)
  /\ IF meta[g].finalizer
       THEN /\ meta' = [meta EXCEPT ![g].deleting = TRUE]
            /\ UNCHANGED specs
       ELSE /\ specs' = [specs EXCEPT ![g] = None]
            /\ meta' = [meta EXCEPT ![g] = NewMeta]
  /\ queued' = [queued EXCEPT ![g] = TRUE]
  /\ UNCHANGED <<entries, pc, target>>

\* The operator process restarts: in-flight reconciles are lost and the
\* informers' initial list enqueues every object.
Restart ==
  /\ pc' = [g \in Groups |-> "Idle"]
  /\ queued' = [g \in Groups |-> TRUE]
  /\ target' = [g \in Groups |-> None]
  /\ UNCHANGED <<specs, meta, entries>>

\* The informers' periodic resync (ctrl.Options without a Cache.SyncPeriod:
\* controller-runtime's default of 10 hours) sends an update event for
\* every cached object, which enqueues every group.  Not one of the users'
\* actions, so not bounded by MaxOps.
Resync ==
  /\ \E g \in Groups : Exists(g) /\ ~queued[g]
  /\ queued' = [g \in Groups |-> queued[g] \/ Exists(g)]
  /\ UNCHANGED <<specs, meta, entries, pc, target, ops>>

Environment ==
  /\ ops < MaxOps
  /\ ops' = ops + 1
  /\ \/ \E d \in Directories, dom \in Domains : CreateDirectory(d, dom)
     \/ \E g \in Groups : \E s \in GroupSpecs(g) :
          (CreateGroup(g, s) \/ UpdateGroup(g, s)) /\ Acyclic'
     \/ \E g \in Groups : DeleteGroup(g)
     \/ Restart

Init ==
  /\ specs = [n \in Directories \cup Groups |-> None]
  /\ meta = [g \in Groups |-> NewMeta]
  /\ entries = [d \in Directories |-> {}]
  /\ pc = [g \in Groups |-> "Idle"]
  /\ queued = [g \in Groups |-> FALSE]
  /\ target = [g \in Groups |-> None]
  /\ ops = 0

Next == (\E g \in Groups : Reconcile(g)) \/ Resync \/ Environment

\* A worker runs every queued reconcile to its end (RequeueAfter and the
\* error backoff are finite delays); users are not obliged to act.
Fairness == \A g \in Groups : WF_vars(Reconcile(g))

\* Without fairness on Resync: what holds here holds without relying on the
\* 10-hour resync.
Spec == Init /\ [][Next]_vars /\ Fairness

\* The resync timer fires again and again for as long as the process runs.
SpecWithResync == Spec /\ WF_vars(Resync)

-----------------------------------------------------------------------------
(* Properties.                                                             *)

\* The reconcilers implement DirectoryTree: every change of a directory's
\* tree is the provisioning of its suffix, the entry of a group placed at
\* its current DN under an existing entry, or the removal of the leaf entry
\* of a group whose deletion completes, claimed by no live group.  The
\* write uses the DN Apply computed one call earlier, so an edit of the
\* group or of an ancestor in between is what could break it.
Tree == INSTANCE DirectoryTree
          WITH objects <- specs,
               deleting <- {g \in Groups : meta[g].deleting},
               tree <- entries

ImplementsDirectoryTree == Tree!Spec

\* Entries whose DN is the suffix of their directory or the current DN of
\* an existing group of that directory.
Claimed(d, e) ==
  \/ Exists(d) /\ e = DNs!DirectoryDN(specs[d].domain)
  \/ \E g \in Groups : Exists(g) /\ DirOf(g) = d /\ DNs!DN(g) = DNs!Ok(e)

\* The tree is kept consistent with the objects (design section 1): once
\* users stop, every entry the LDAP servers hold is a directory's suffix or
\* the entry of an existing group, whatever the best-effort deletion of
\* HandleDeletion and the DN changes of edits left behind.
NoOrphanedEntries ==
  <>[](\A d \in Directories : \A e \in entries[d] : Claimed(d, e))

\* A live group whose parent chain exists, has no cycle and stays inside
\* its own directory.
Settled(g) ==
  /\ Live(g) /\ Exists(DirOf(g))
  /\ DNs!DN(g).status = "ok"
  /\ IsSuffix(DNs!DirectoryDN(specs[DirOf(g)].domain), DNs!DN(g).dn)

\* Once users stop acting, every settled group ends Ready with its entry at
\* its current DN in its directory: a child created before its parent's
\* entry, or before a missing ancestor appears, is retried until it lands.
EventuallyReady ==
  <>[](\A g \in Groups : Settled(g) =>
          /\ meta[g].phase = "Ready"
          /\ DNs!DN(g).dn \in entries[DirOf(g)])

=============================================================================
