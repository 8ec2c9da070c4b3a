-------------------------- MODULE DistinguishedName --------------------------
(***************************************************************************)
(* Reference resolution and distinguished-name derivation of the API       *)
(* types (api/v1alpha1/ldapdirectory_types.go): LDAPDirectory and          *)
(* LDAPGroup implement GetDistinguishedName and ResolveReferences.         *)
(*                                                                         *)
(* The state is the set of objects the API server holds.  Users create     *)
(* and delete them in any order, and references are by name, so a          *)
(* reference may name an object that does not exist (yet), and parent     *)
(* references may form a cycle.  GetDistinguishedName walks parentRef,    *)
(* or directoryRef when no parent is set, with no visited set or depth    *)
(* bound; the walk is given fuel for one visit per object, and running    *)
(* out of it stands for the unbounded recursion of the Go code, whose     *)
(* stack overflow is fatal to the operator process.                       *)
(***************************************************************************)
EXTENDS Naturals, Sequences, SequencesExt, FiniteSets

CONSTANTS
  Directories,  \* names of LDAPDirectory objects
  Groups,       \* names of LDAPGroup objects
  Domains,      \* spec.domain values: sequences of label words and "."
  CommonNames,  \* spec.name values of groups
  None          \* an unset parentRef

ASSUME Directories \cap Groups = {}
ASSUME None \notin Directories \cup Groups

Names == Directories \cup Groups

VARIABLES
  objects   \* name -> the object's spec, or None when it does not exist

vars == <<objects>>

DirectorySpec == [kind: {"LDAPDirectory"}, domain: Domains]

GroupSpec == [kind: {"LDAPGroup"}, name: CommonNames,
              directoryRef: Directories, parentRef: Names \cup {None}]

TypeOK ==
  /\ objects \in [Names -> DirectorySpec \cup GroupSpec \cup {None}]
  /\ \A d \in Directories : objects[d] \in DirectorySpec \cup {None}
  /\ \A g \in Groups : objects[g] \in GroupSpec \cup {None}

Exists(n) == objects[n] # None

-----------------------------------------------------------------------------
(* Distinguished names are sequences of RDNs, most specific first.         *)

RDN(attr, value) == [attr |-> attr, value |-> value]

\* strings.Split(domain, "."): the label words between dots, an empty label
\* where two dots meet or a dot ends the domain.
SplitDomain(domain) ==
  LET step(labels, t) ==
        IF t = "." THEN Append(labels, <<>>)
        ELSE [labels EXCEPT ![Len(labels)] = Append(@, t)]
  IN  FoldLeft(step, <<<<>>>>, domain)

\* LDAPDirectory.GetDistinguishedName: "dc=" + join(split(domain), ",dc=").
DirectoryDN(domain) ==
  LET labels == SplitDomain(domain)
  IN  [i \in 1..Len(labels) |-> RDN("dc", labels[i])]

\* The outcome of a walk: a DN, a resolution error, or a walk that never ends.
Ok(dn) == [status |-> "ok", dn |-> dn]
Err(msg) == [status |-> msg, dn |-> <<>>]
Overflow == Err("overflow")

\* Mutant: the DN is always built under the directory, the parentRef
\* ignored.
RECURSIVE GetDistinguishedNameIgnoringParent(_, _)
GetDistinguishedNameIgnoringParent(n, fuel) ==
  LET o == objects[n]
  IN  IF fuel = 0 THEN Overflow
      ELSE IF o.kind = "LDAPDirectory" THEN Ok(DirectoryDN(o.domain))
      ELSE IF ~Exists(o.directoryRef) THEN Err("directory not found")
      ELSE LET up == GetDistinguishedNameIgnoringParent(o.directoryRef,
                                                        fuel - 1)
           IN  Ok(<<RDN("cn", o.name)>> \o up.dn)

\* LDAPGroup.GetDistinguishedName: with a parentRef, "cn=<name>," + the
\* parent's DN (an error if the parent is not found); otherwise "cn=<name>,"
\* + the DN of the directory (an error if it is not found).
RECURSIVE GetDistinguishedName(_, _)
GetDistinguishedName(n, fuel) ==
  LET o == objects[n]
      Under(ref, missing) ==
        IF ~Exists(ref) THEN Err(missing)
        ELSE LET up == GetDistinguishedName(ref, fuel - 1)
             IN  IF up.status = "ok"
                   THEN Ok(<<RDN("cn", o.name)>> \o up.dn)
                   ELSE up
  IN  IF fuel = 0 THEN Overflow
      ELSE IF o.kind = "LDAPDirectory" THEN Ok(DirectoryDN(o.domain))
      ELSE IF o.parentRef # None
             THEN Under(o.parentRef, "parent not found")
             ELSE Under(o.directoryRef, "directory not found")

\* The DN of an existing object, as the generic reconciler asks for it.
DN(n) == GetDistinguishedName(n, Cardinality(Names) + 1)

\* LDAPGroup.ResolveReferences: the directory, then the parent if one is
\* set; a reference to a missing object is "not yet resolvable".  Reads of
\* the informer cache return no other error.
ResolveReferences(g) ==
  /\ Exists(objects[g].directoryRef)
  /\ objects[g].parentRef # None => Exists(objects[g].parentRef)

-----------------------------------------------------------------------------
(* The users of the API server.                                            *)

CreateDirectory(d, domain) ==
  /\ ~Exists(d)
  /\ objects' = [objects EXCEPT ![d] = [kind |-> "LDAPDirectory",
                                         domain |-> domain]]

CreateGroup(g, name, dref, pref) ==
  /\ ~Exists(g)
  /\ objects' = [objects EXCEPT ![g] = [kind |-> "LDAPGroup", name |-> name,
                                         directoryRef |-> dref,
                                         parentRef |-> pref]]

Delete(n) ==
  /\ Exists(n)
  /\ objects' = [objects EXCEPT ![n] = None]

Init == objects = [n \in Names |-> None]

Next ==
  \/ \E d \in Directories, dom \in Domains : CreateDirectory(d, dom)
  \/ \E g \in Groups, name \in CommonNames, dref \in Directories,
        pref \in Names \cup {None} : CreateGroup(g, name, dref, pref)
  \/ \E n \in Names : Delete(n)

Spec == Init /\ [][Next]_vars

-----------------------------------------------------------------------------
(* A reference definition of the DN, without the walk: the chain of        *)
(* objects an object's DN is built from, as the closure of the "is named   *)
(* under" relation, ordered by how many of its members lie below each.     *)

\* Up(x): the object x's DN is built on (its parent if set, else its
\* directory), as a set of at most one name.
Up(x) ==
  IF Exists(x) /\ objects[x].kind = "LDAPGroup"
    THEN {IF objects[x].parentRef # None THEN objects[x].parentRef
                                         ELSE objects[x].directoryRef}
    ELSE {}

\* The closure of a set of names under Up (a fixpoint over sets; the
\* closure operators of the Relation module are evaluated by their
\* definition and are far too slow here).
RECURSIVE Closure(_)
Closure(S) ==
  LET T == S \cup UNION {Up(x) : x \in S}
  IN  IF T = S THEN S ELSE Closure(T)

\* The objects strictly above n.
Above(n) == Closure(Up(n))

Chain(n) == {n} \cup Above(n)

\* The chain has no cycle and every object on it exists; it then ends at a
\* directory.
WellRooted(n) ==
  \A y \in Chain(n) : Exists(y) /\ y \notin Above(y)

\* The i-th object of the chain, counting n as the first.
ChainAt(n, i) ==
  CHOOSE y \in Chain(n) :
    Cardinality({z \in Chain(n) : z = y \/ y \in Above(z)}) = i

OwnRDNs(y) ==
  IF objects[y].kind = "LDAPDirectory" THEN DirectoryDN(objects[y].domain)
  ELSE <<RDN("cn", objects[y].name)>>

ReferenceDN(n) ==
  FlattenSeq([i \in 1..Cardinality(Chain(n)) |-> OwnRDNs(ChainAt(n, i))])

-----------------------------------------------------------------------------
(* Properties.                                                             *)

\* GetDistinguishedName yields a DN exactly when the object's chain of
\* parents and directory is acyclic and fully present, and that DN is its
\* own RDN followed by every ancestor's RDN and the directory's dc= suffix.
DNMatchesReference ==
  \A g \in Groups : Exists(g) =>
    LET r == DN(g)
    IN  /\ (r.status = "ok") <=> WellRooted(g)
        /\ r.status = "ok" => r.dn = ReferenceDN(g)

\* The parent walk of GetDistinguishedName ends for every object users can
\* create (spec section 4.2 requires a visited-set guard that fails a
\* cyclic reference with a permanent error).
DNComputationTerminates ==
  \A g \in Groups : Exists(g) => DN(g) # Overflow

=============================================================================
