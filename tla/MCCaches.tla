------------------------------ MODULE MCCaches ------------------------------
(***************************************************************************)
(* Instances of AdminCaches for TLC.                                       *)
(***************************************************************************)
EXTENDS AdminCaches, TLC

SomeKeys == {"role", "userRoles", "categories", "ids"}

RoleOperations ==
  {"createRole", "updateRole", "deleteRole", "assignPermissions", "removePermission"}
UserOperations == {"signUp", "createUser", "updateUser", "deleteUser", "assignRoles", "removeRole"}
CategoryOperations == {"createCategory", "updateCategory", "deleteCategory"}

RoleKeys == {"role", "roles"}

\* The operations that change what a key shows.  (Of those on a role, deleteRole stands
\* for all that its users' keys do not notice.)
OperationsOn ==
  [role |-> RoleOperations, roles |-> RoleOperations,
   userRoles |-> UserOperations \cup {"deleteRole"},
   categories |-> CategoryOperations, ids |-> CategoryOperations]

OperationsOf(S) == UNION {OperationsOn[k] : k \in S}

\* The keys of a role, of a user's roles and of categories, one at a time: they share
\* nothing but the database.  (No operation clears "rolePermissions".)
OneKeyEach == {{"role"}, {"userRoles"}, {"categories"}, {"ids"}}
OneKeyOperations == [S \in OneKeyEach |-> OperationsOf(S)]

\* Keys cleared by name and by pattern.
ByNameOrPattern == {{"role"}, {"roles"}}
RoleKeyOperations == [S \in ByNameOrPattern |-> OperationsOf(S)]

\* No liveness is checked under symmetry.
Symmetry == Permutations(Readers) \cup Permutations(Writers) \cup Permutations(Stamps)
=============================================================================
