---------------------------- MODULE DirectoryTree ----------------------------
(***************************************************************************)
(* What the LDAP object reconcilers promise about the directories' trees  *)
(* (design sections 3, 4.5 and 5), without the reconcile steps: the tree  *)
(* of a directory changes only                                             *)
(*   - when the directory is provisioned, with its suffix entry;           *)
(*   - by placing an entry at the current DN of an existing object of that *)
(*     directory, under an entry that exists;                              *)
(*   - when an object being deleted goes away, by removing at most its own *)
(*     entry, a leaf that no live object claims.                           *)
(* The objects themselves change as their users please.                    *)
(***************************************************************************)
EXTENDS Naturals, Sequences, SequencesExt, FiniteSets

CONSTANTS Directories, Groups, Domains, CommonNames, None

VARIABLES
  objects,   \* name -> spec, or None
  deleting,  \* the objects with a deletion timestamp
  tree       \* directory -> the DNs of its entries

vars == <<objects, deleting, tree>>

DNs == INSTANCE DistinguishedName

\* The object g exists in directory d and its DN is dn.
Claims(g, d, dn) ==
  /\ objects[g] # None
  /\ objects[g].directoryRef = d
  /\ DNs!DN(g) = DNs!Ok(dn)

IsLeaf(d, dn) == ~\E e \in tree[d] : IsStrictSuffix(dn, e)

Provision(d) ==
  /\ tree[d] = {} /\ objects[d] = None /\ objects'[d] # None
  /\ tree' = [tree EXCEPT ![d] = {DNs!DirectoryDN(objects'[d].domain)}]
  /\ UNCHANGED deleting

Place(d, dn) ==
  /\ \E g \in Groups : Claims(g, d, dn)
  /\ Tail(dn) \in tree[d]
  /\ tree' = [tree EXCEPT ![d] = @ \cup {dn}]
  /\ UNCHANGED <<objects, deleting>>

Finish(g) ==
  /\ g \in deleting
  /\ objects' = [objects EXCEPT ![g] = None]
  /\ deleting' = deleting \ {g}
  /\ \/ UNCHANGED tree
     \/ \E d \in Directories : \E dn \in tree[d] :
          /\ Claims(g, d, dn) /\ IsLeaf(d, dn)
          /\ \A h \in Groups \ deleting : ~Claims(h, d, dn)
          /\ tree' = [tree EXCEPT ![d] = @ \ {dn}]

UserChange == UNCHANGED tree

Init ==
  /\ objects = [n \in Directories \cup Groups |-> None]
  /\ deleting = {}
  /\ tree = [d \in Directories |-> {}]

Next ==
  \/ \E d \in Directories : Provision(d)
  \/ \E d \in Directories :
       \E dn \in {DNs!DN(g).dn : g \in {h \in Groups : objects[h] # None}} :
         Place(d, dn)
  \/ \E g \in Groups : Finish(g)
  \/ UserChange

Spec == Init /\ [][Next]_vars

=============================================================================
