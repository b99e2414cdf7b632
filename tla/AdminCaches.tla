----------------------------- MODULE AdminCaches -----------------------------
(***************************************************************************)
(* Roles, users and event categories behind the cache                      *)
(* (src/src/modules/role-permissions, users, event-categories: the         *)
(* services and their cache services).                                     *)
(*                                                                         *)
(* An operation is a sequence of commands: statements or transactions on   *)
(* the database, then the invalidation of keys in Redis, with an await     *)
(* between any two.  A readers' fetch may fall between them.               *)
(***************************************************************************)
EXTENDS CacheAside, Sequences

CONSTANTS
  KeySets,        \* the keys that are asked for together
  Operations,     \* Operations[S]: those that may happen while the keys in S are asked for
  Writers,        \* operations in progress at a time
  MaxMutations,   \* bound on operations begun
  Gone            \* of what is not in the database

ASSUME AdminAssumption ==
  /\ KeySets \subseteq SUBSET Keys
  /\ Operations \in [KeySets -> SUBSET {"createRole", "updateRole", "deleteRole",
       "assignPermissions", "removePermission", "signUp", "createUser", "updateUser",
       "deleteUser", "assignRoles", "removeRole", "createCategory", "updateCategory",
       "deleteCategory"}]
  /\ MaxMutations \in Nat
  /\ \A S \in SUBSET (0..MaxMutations) : Gone # S

VARIABLES
  asked,      \* (constant after Init) the keys readers ask for
  db,         \* db[x]: what mutations left in x, or Gone
  write,      \* write[w]: what operation w has left to do
  mutations,
  \* What the properties speak of:
  wanted,     \* wanted[x]: what the last operation that finished with x wanted there
  mixed,      \* what operations wrote at the same time, or one left half-way
  excused     \* keys whose cached value may be stale

adminVars == <<asked, db, write, mutations>>
history == <<wanted, mixed, excused>>
vars == <<cacheVars, adminVars, history>>

\* A mutation writes its number: what is in x says who wrote it.
Contents == {Gone} \cup SUBSET (0..MaxMutations)

\* `permissions` of one role and `grants` to one user are rows of join tables, `profile` and
\* `category` the columns of a row.
Cells == {"permissions", "grants", "profile", "category"}

-----------------------------------------------------------------------------
(***************************************************************************)
(* What the fetchers read.                                                 *)
(***************************************************************************)
CellsOf ==
  [role |-> {"permissions"}, roles |-> {"permissions"}, rolePermissions |-> {"permissions"},
   user |-> {"profile", "grants", "permissions"}, users |-> {"profile", "grants", "permissions"},
   userRoles |-> {"profile", "grants", "permissions"},
   category |-> {"category"}, categories |-> {"category"}, ids |-> {"category"}]

ASSUME KeysAssumption == Keys \subseteq DOMAIN CellsOf

\* The ids of categories do not say what is in their rows.
View(k) ==
  [x \in CellsOf[k] |-> IF k = "ids" /\ db[x] # Gone THEN {} ELSE db[x]]

\* The row that a key is about; lists are about none.
SubjectGone(k) ==
  \/ k \in {"role", "rolePermissions"} /\ db["permissions"] = Gone
  \/ k \in {"user", "userRoles"} /\ db["profile"] = Gone
  \/ k = "category" /\ db["category"] = Gone

\* findOne returns null, the others throw NotFoundException.
FetchedNow(k) == IF k \in {"role", "user"} /\ SubjectGone(k) THEN None ELSE View(k)

NotFound(k) == k \in {"rolePermissions", "userRoles", "category"} /\ SubjectGone(k)

Fresh(k, v) == v \in {None, FetchedNow(k)} /\ ~(NotFound(k) /\ v # None)

-----------------------------------------------------------------------------
(***************************************************************************)
(* The operations.                                                         *)
(***************************************************************************)
OnRow(cmd, x) == [cmd |-> cmd, cell |-> x]
OnKeys(cmd, S) == [cmd |-> cmd, keys |-> S]

\* (Commands on keys that nobody asks for are left out: they would change nothing.)
IfAsked(k, commands) == IF k \in asked THEN commands ELSE <<>>

\* clear: two commands.
Clear(k) == IfAsked(k, <<OnKeys("del", {k}), OnKeys("unlock", {k})>>)

\* clearByPattern of a list, and of a name without wildcard.
ClearList(k) == IfAsked(k, <<OnKeys("scanList", {k}), OnKeys("delFound", {k})>>)
ClearName(k) == IfAsked(k, <<OnKeys("scanName", {k}), OnKeys("delFound", {k})>>)

\* invalidateOnMutation of each service.
RoleChanged == Clear("role") \o ClearList("roles")
UserChanged == Clear("user") \o ClearList("users")
CategoryChanged == Clear("category") \o ClearList("categories")

\* Slip: assignPermissions leaves the rows that are there.
AssignAdds == <<OnRow("insert", "permissions")>>

AssignPermissions == <<OnRow("wipe", "permissions"), OnRow("insert", "permissions")>>

UpdateRole == <<OnRow("see", "permissions"), OnRow("replace", "permissions")>>

\* What an operation does in the database: alone, in a transaction (see, replace), or
\* statement by statement (wipe, insert).
DatabaseOf(o) ==
  CASE o = "createRole" -> <<OnRow("create", "permissions"), OnRow("insert", "permissions")>>
    [] o = "updateRole" -> UpdateRole
    [] o = "deleteRole" -> <<OnRow("drop", "permissions")>>
    [] o = "assignPermissions" -> AssignPermissions
    [] o = "removePermission" -> <<OnRow("cut", "permissions")>>
    [] o \in {"signUp", "createUser"} -> <<OnRow("create", "profile")>>
    [] o = "updateUser" -> <<OnRow("put", "profile")>>
    [] o = "deleteUser" -> <<OnRow("drop", "profile")>>
    [] o = "assignRoles" -> <<OnRow("see", "grants"), OnRow("replace", "grants")>>
    [] o = "removeRole" -> <<OnRow("cut", "grants")>>
    [] o = "createCategory" -> <<OnRow("create", "category")>>
    [] o = "updateCategory" -> <<OnRow("put", "category")>>
    [] o = "deleteCategory" -> <<OnRow("drop", "category")>>

\* ... and then in Redis.
CachesOf(o) ==
  CASE o = "createRole" -> ClearList("roles")
    [] o \in {"updateRole", "deleteRole", "assignPermissions", "removePermission"} -> RoleChanged
    [] o = "signUp" -> <<>>
    [] o = "createUser" -> ClearList("users")
    [] o \in {"updateUser", "deleteUser", "removeRole"} -> UserChanged
    [] o = "assignRoles" -> UserChanged \o ClearName("userRoles")
    [] o = "createCategory" -> ClearList("categories") \o Clear("ids")
    [] o = "updateCategory" -> CategoryChanged
    [] o = "deleteCategory" -> CategoryChanged \o Clear("ids")

\* Slip: the caches are cleared before the database is written.
ClearsFirst(o) == CachesOf(o) \o DatabaseOf(o)

CommandsOf(o) == DatabaseOf(o) \o CachesOf(o)

NotWriting ==
  [op |-> "none", number |-> 0, todo |-> <<>>, seen |-> {}, row |-> Gone, found |-> {}, locks |-> {}]

\* The row that must, or must not, be there when an operation begins.
RowNeeded(o) ==
  CASE o \in {"updateRole", "assignPermissions", "removePermission"} -> {"permissions"}
    [] o \in {"updateUser", "removeRole"} -> {"profile"}
    [] o = "assignRoles" -> {"profile", "permissions"}
    [] o \in {"updateCategory", "deleteCategory"} -> {"category"}
    [] OTHER -> {}

RowAbsent(o) ==
  CASE o = "createRole" -> {"permissions"}
    [] o \in {"signUp", "createUser"} -> {"profile"}
    [] o = "createCategory" -> {"category"}
    [] OTHER -> {}

\* What the keys that are asked for depend on: other operations are left out.
Relevant == UNION {CellsOf[k] : k \in asked}

CellOf(o) == DatabaseOf(o)[1].cell

Begin(w, o) ==
  /\ CellOf(o) \in Relevant
  /\ write[w] = NotWriting /\ mutations < MaxMutations
  /\ \A x \in RowNeeded(o) : db[x] # Gone
  /\ \A x \in RowAbsent(o) : db[x] = Gone
  /\ mutations' = mutations + 1
  /\ write' = [write EXCEPT ![w] =
                 [NotWriting EXCEPT !.op = o, !.number = mutations + 1, !.todo = CommandsOf(o),
                                    !.row = IF o = "assignRoles" THEN db["profile"] ELSE Gone]]
  /\ UNCHANGED <<cacheVars, asked, db, history>>

AtCommand(w, name) == write[w].todo # <<>> /\ Head(write[w].todo).cmd = name
Cell(w) == Head(write[w].todo).cell
KeysOf(w) == Head(write[w].todo).keys

GoOn(w, k) ==
  write' = [write EXCEPT ![w] =
              CASE Len(k.todo) = 1 -> NotWriting
                [] Len(k.todo) > 1 /\ "cell" \in DOMAIN k.todo[2] -> [k EXCEPT !.todo = Tail(@)]
                [] OTHER -> [NotWriting EXCEPT !.todo = Tail(k.todo), !.found = k.found,
                                               !.locks = k.locks]]

GiveUp(w) == write' = [write EXCEPT ![w] = NotWriting]

\* An operation has deleted the rows of x and will insert others.
Between(w, x) ==
  (AtCommand(w, "insert") \/ AtCommand(w, "replace")) /\ Cell(w) = x

MarkMixed(w, x) ==
  mixed' = IF \E v \in Writers \ {w} : Between(v, x) THEN mixed \cup {x} ELSE mixed

\* The operations that leave a key as it is although they change what it shows.
BlindSpot(o, k) ==
  \/ k = "rolePermissions"
  \/ /\ k \in {"user", "users", "userRoles"}
     /\ o \in {"createRole", "updateRole", "deleteRole", "assignPermissions", "removePermission"}
  \/ k = "role" /\ o = "createRole"   \* a reader may see the role before its permissions
  \/ k = "userRoles" /\ o \in {"updateUser", "deleteUser", "removeRole"}
  \/ k = "ids" /\ o = "updateCategory"   \* it may bring a category back (Put)
  \/ o = "signUp"

\* Of the keys in S and those excused before, the ones that are stale after the step.
Excuse(S) ==
  excused' = {k \in excused \cup S : cache'[k] # None /\ ~Fresh(k, cache[k])'}

\* What else a commit writes: assignRoles saves the user as it read it, if that is not
\* how the user is.
WithRow(w, rows) == IF write[w].row = Gone THEN rows ELSE [rows EXCEPT !["profile"] = write[w].row]

\* A statement or a commit that makes `content` what is in the cell; `wish` is what
\* the operation wants there.
Change(w, content, wish) ==
  LET x == Cell(w) IN
  /\ db' = WithRow(w, [db EXCEPT ![x] = content])
  /\ wanted' = WithRow(w, [wanted EXCEPT ![x] = wish])
  /\ MarkMixed(w, x)
  /\ GoOn(w, write[w])
  /\ UNCHANGED <<cacheVars, asked, mutations>>
  /\ Excuse({k \in Keys : x \in CellsOf[k] /\ BlindSpot(write[w].op, k)})

\* The row that the command is about: rows of grants are the user's.
Present(w) == db[IF Cell(w) = "grants" THEN "profile" ELSE Cell(w)] # Gone

\* Slip: the rows of the mutation to come.
NextNumber(w) == {write[w].number + 1}

Mine(w) == {write[w].number}

\* A row is inserted: a role without permissions, or a user or a category.  (One row of
\* each kind is modelled: a second one is none of its keys'.)
Create(w) ==
  LET new == IF Cell(w) = "permissions" THEN {} ELSE Mine(w) IN
  /\ AtCommand(w, "create") /\ ~Present(w)
  /\ Change(w, new, new)

\* preload has read a row that was there; save reads it again, deleted or not, and writes
\* the columns in which the two differ.  So a row that was deleted between the two is back.
\* (One deleted between the second read and the write is gone as if deleted after both.)
Put(w) ==
  /\ AtCommand(w, "put")
  /\ Change(w, Mine(w), Mine(w))

\* removePermission, removeRole: one row of the join table, if it is there.
Cut(w) ==
  /\ AtCommand(w, "cut") /\ Present(w)
  /\ \E gone \in {{}} \cup {{n} : n \in 0..MaxMutations} :
       Change(w, db[Cell(w)] \ gone, wanted[Cell(w)] \ gone)

\* remove (of a role, in a transaction), softDelete.  Only categories are missed.
Drop(w) ==
  /\ AtCommand(w, "drop") /\ (Present(w) \/ Cell(w) # "category")
  /\ Change(w, Gone, Gone)

\* assignPermissions deletes the rows, each statement committed by itself.
Wipe(w) ==
  /\ AtCommand(w, "wipe")
  /\ Change(w, IF Present(w) THEN {} ELSE Gone, wanted[Cell(w)])

\* ... and inserts its own; the role must still be there.
Insert(w) ==
  /\ AtCommand(w, "insert") /\ Present(w)
  /\ Change(w, db[Cell(w)] \cup Mine(w), Mine(w))

\* The row is there, or it was and is about to be saved.
Savable(w) == Present(w) \/ write[w].row # Gone

\* A transaction deletes the rows that it sees.  The save of assignRoles reads the user
\* again, deleted or not, to see whether it is as it was ...
See(w) ==
  LET x == Cell(w) IN
  /\ AtCommand(w, "see") /\ Savable(w)
  /\ GoOn(w, [write[w] EXCEPT !.seen = db[x],
                               !.row = IF @ = db["profile"] THEN Gone ELSE @])
  /\ MarkMixed(w, x)
  /\ UNCHANGED <<cacheVars, asked, db, mutations, wanted, excused>>

\* ... and commits with its own.  Rows that others inserted meanwhile stay.
Replace(w) ==
  /\ AtCommand(w, "replace") /\ Savable(w)
  /\ Change(w, (db[Cell(w)] \ write[w].seen) \cup Mine(w), Mine(w))

\* The row was deleted meanwhile (NotFoundException, a violated foreign key), another
\* sign-up took its unique address, or users have the role that is to be deleted.
Refused(w) ==
  /\ \/ AtCommand(w, "create") /\ Present(w)
     \/ AtCommand(w, "drop") /\ Cell(w) = "category" /\ ~Present(w)
     \/ AtCommand(w, "drop") /\ Cell(w) = "permissions" /\ Present(w)
     \/ /\ \E name \in {"cut", "see", "insert", "replace"} : AtCommand(w, name)
        /\ ~Savable(w)
  /\ GiveUp(w)
  /\ UNCHANGED <<cacheVars, asked, db, mutations, history>>

\* The commands of invalidation.
DelKey(w) ==
  /\ AtCommand(w, "del")
  /\ Del(KeysOf(w))
  /\ GoOn(w, write[w])
  /\ UNCHANGED <<lock, read, faults, lost, asked, db, mutations, wanted, mixed>>
  /\ Excuse({})

DelLock(w) ==
  /\ AtCommand(w, "unlock")
  /\ Unlock(KeysOf(w))
  /\ GoOn(w, write[w])
  /\ UNCHANGED <<cache, read, faults, asked, db, mutations, history>>

Scan(w) ==
  LET S == KeysOf(w) IN
  /\ \/ /\ AtCommand(w, "scanList")
        /\ GoOn(w, [write[w] EXCEPT !.found = Found(S), !.locks = FoundLocks(S)])
     \/ /\ AtCommand(w, "scanName")
        /\ GoOn(w, [write[w] EXCEPT !.found = Found(S), !.locks = {}])
  /\ UNCHANGED <<cacheVars, asked, db, mutations, history>>

DelFound(w) ==
  /\ AtCommand(w, "delFound")
  /\ Del(write[w].found)
  /\ Unlock(write[w].locks)
  /\ GoOn(w, write[w])
  /\ UNCHANGED <<read, faults, asked, db, mutations, wanted, mixed>>
  /\ Excuse({})

\* Keys that an operation has yet to clear: those ahead, and those it has found.
ToClear(w) ==
  (IF AtCommand(w, "delFound") THEN write[w].found ELSE {})
    \cup UNION {write[w].todo[i].keys : i \in
                  {i \in DOMAIN write[w].todo : write[w].todo[i].cmd \in {"del", "scanList", "scanName"}}}

\* A command throws, or the process dies: what is left undone stays undone.  A
\* transaction leaves the rows as they were.
Break(w) ==
  /\ write[w] # NotWriting /\ faults < MaxFaults
  /\ faults' = faults + 1
  /\ GiveUp(w)
  /\ mixed' = IF AtCommand(w, "insert") THEN mixed \cup {Cell(w)} ELSE mixed
  /\ UNCHANGED <<cache, lock, read, lost, asked, db, mutations, wanted>>
  /\ Excuse(ToClear(w))

-----------------------------------------------------------------------------
(***************************************************************************)
(* Readers.                                                                *)
(***************************************************************************)
Fetch(c) ==
  LET k == read[c].key IN
  /\ AtRead(c, "fetch")
  /\ \/ NotFound(k) /\ FetchThrows(c)
     \/ ~NotFound(k) /\ Fetched(c, FetchedNow(k))

\* What a reader stores may be older than what is in the database.
Storing == {read[c].key : c \in {c \in Readers : AtRead(c, "store")}}

OnCache ==
  /\ UNCHANGED <<adminVars, wanted, mixed>>
  /\ Excuse({k \in Storing : cache'[k] # cache[k]})

ReaderStep(c) == (Proceed(c) \/ Fetch(c)) /\ OnCache
WaitEnds(c) == TimeOut(c) /\ OnCache
ValueLapses(k) == Lapse(k) /\ OnCache

Happening ==
  \/ \E c \in Readers : RedisFails(c) \/ ReaderDies(c)
  \/ \E c \in Readers, k \in asked : Miss(c, k) \/ ReadFails(c, k)
  \/ \E k \in Keys : LockLapses(k)

Init ==
  /\ CacheInit
  /\ asked \in KeySets
  /\ db \in [Cells -> {{0}, Gone}]
  /\ \A x \in Cells : db[x] = Gone => x \in Relevant \ {"grants"}
  /\ write = [w \in Writers |-> NotWriting]
  /\ mutations = 0
  /\ wanted = db
  /\ mixed = {} /\ excused = {}

Command(w) ==
  \/ Create(w) \/ Put(w) \/ Cut(w) \/ Drop(w) \/ Wipe(w) \/ Insert(w) \/ See(w) \/ Replace(w)
  \/ Refused(w) \/ DelKey(w) \/ DelLock(w) \/ Scan(w) \/ DelFound(w)

Next ==
  \/ \E c \in Readers : ReaderStep(c) \/ WaitEnds(c)
  \/ \E k \in Keys : ValueLapses(k)
  \/ Happening /\ OnCache
  \/ \E w \in Writers : Command(w) \/ Break(w)
  \/ \E w \in Writers, o \in Operations[asked] : Begin(w, o)

Spec == Init /\ [][Next]_vars

(***************************************************************************)
(* Readers and operations go on, a wait ends in time, and what is cached   *)
(* lapses: every SET has a time to live.                                   *)
(***************************************************************************)
FairSpec ==
  /\ Spec
  /\ \A c \in Readers : WF_vars(ReaderStep(c)) /\ WF_vars(WaitEnds(c))
  /\ \A w \in Writers : WF_vars(Command(w))
  /\ \A k \in Keys : WF_vars(ValueLapses(k))
-----------------------------------------------------------------------------
(***************************************************************************)
(* Properties.                                                             *)
(***************************************************************************)

\* The Redis keys, the rows and the calls have their types.
TypeOK ==
  /\ DOMAIN cache = Keys /\ lock \in [Keys -> Stamps \cup {None}]
  /\ DOMAIN read = Readers
  /\ \A c \in Readers :
       read[c] # NotReading =>
         /\ read[c].pc \in {"lock", "fetch", "store", "release", "publish", "subscribe", "wait", "reread"}
         /\ read[c].key \in Keys /\ read[c].held \in Stamps \cup {None}
  /\ faults \in 0..MaxFaults /\ lost \subseteq Readers
  /\ asked \subseteq Keys /\ db \in [Cells -> Contents] /\ wanted \in [Cells -> Contents]
  /\ DOMAIN write = Writers
  /\ \A w \in Writers :
       /\ write[w].number \in 0..mutations /\ write[w].seen \subseteq 0..mutations
       /\ write[w].found \subseteq Keys /\ write[w].locks \subseteq Keys
  /\ mutations \in 0..MaxMutations
  /\ mixed \subseteq Cells /\ excused \subseteq Keys

\* Two readers have the lock of a key, and fetch it, only if one of them lost it: it
\* lapsed, an invalidation deleted it, or a reader with the same clock value released
\* it.  In particular nobody's release deletes the lock of a later reader.
HoldersAlone ==
  \A k \in Keys : \A c, d \in HoldersOf(k) : c # d => c \in lost \/ d \in lost

Stale(k) == cache[k] # None /\ ~Fresh(k, cache[k])

\* A cached value that differs from the database is about to be cleared, unless its
\* reader fetched it before the change and stored it after, or the operation broke off
\* before clearing it, or the operation is known not to clear that key (BlindSpot).
StaleExcused ==
  \A k \in Keys : Stale(k) => k \in excused \/ \E w \in Writers : k \in ToClear(w)

\* The permissions of a role and the roles of a user are what the last operation on
\* them wanted, entirely, unless two operations overlapped or one that does not work
\* in a transaction broke off in between.
AsWanted ==
  \A x \in {"permissions", "grants"} \ mixed :
    (\A w \in Writers : ~Between(w, x)) => db[x] = wanted[x]

\* Every reader gets its answer: also one that waits for a reader that has died, or
\* that subscribes after the message it waits for.
ReadersReturn == \A c \in Readers : read[c] # NotReading ~> read[c] = NotReading

\* A stale value does not stay: whatever went wrong, it lapses, and later readers
\* fetch anew.
StaleGoes == \A k \in Keys : Stale(k) ~> ~Stale(k)
=============================================================================
