------------------------ MODULE MerklePatriciaTrie --------------------------
(***************************************************************************)
(* The state-storing trie of tree/merkle_tree.py, one process over one     *)
(* LevelDB directory and one root file, with crashes.                      *)
(*                                                                         *)
(* insert() walks down from the root reference, splits the node it ends    *)
(* at, writes every new node to the database on the way back up, assigns   *)
(* the new root reference in memory and then rewrites the root file.  The  *)
(* recursion of _update is made explicit: "stack" holds the nodes of the   *)
(* calls that wait for a child's new reference, "todo" the nodes the       *)
(* current call still has to store, in the order of its _store_node calls. *)
(* Every db.put is a step of its own, so a crash can fall between any two. *)
(*                                                                         *)
(* A crash is the end of the process (an exception that is not caught, a   *)
(* kill): what LevelDB and the file system have accepted stays.            *)
(***************************************************************************)
EXTENDS MptNodes

CONSTANTS
  Keys,        \* the keys inserted, as nibble paths
  MaxInserts,  \* bound on the calls of insert
  MaxCrashes   \* bound on the crashes

ASSUME TrieAssumption ==
  /\ Keys \subseteq Path
  /\ MaxInserts \in Nat /\ MaxCrashes \in Nat

VARIABLES
  db,        \* the references present in LevelDB (each determines its node)
  rootFile,  \* merkle_root_ref.bin: None when absent, EmptyBytes when truncated
  pc,        \* what the process is doing
  rootRef,   \* self._root_ref
  rootValue, \* self.root.value, the root a verifier is given
  op,        \* the arguments of the running insert
  cur,       \* node_ref argument of the innermost _update call
  path,      \* path argument of the innermost _update call
  stack,     \* the enclosing _update calls: the node and, at a branch, the slot
  todo,      \* nodes the innermost call has yet to store
  ret,       \* reference returned by the last _store_node
  inserts, crashes

disk   == <<db, rootFile>>
call   == <<cur, path, stack, todo, ret>>
bounds == <<inserts, crashes>>
vars   == <<disk, pc, rootRef, rootValue, op, call, bounds>>

NoOp == [key |-> None, value |-> None]

Init ==
  /\ db = {} /\ rootFile = None
  /\ pc = "ready"
  /\ rootRef = None /\ rootValue = None
  /\ op = NoOp
  /\ cur = None /\ path = <<>> /\ stack = <<>> /\ todo = <<>> /\ ret = None
  /\ inserts = 0 /\ crashes = 0

-----------------------------------------------------------------------------
(* insert(key, value) up to the recursive update *)

Insert(k, v) ==
  /\ pc = "ready"
  /\ inserts < MaxInserts
  /\ inserts' = inserts + 1
  /\ op' = [key |-> k, value |-> v]
  /\ pc' = "update"
  /\ cur' = rootRef /\ path' = k
  /\ UNCHANGED <<disk, rootRef, rootValue, stack, todo, ret, crashes>>

\* The innermost _update has built its nodes and starts to store them.
StoreNodes(nodes) ==
  /\ todo' = nodes
  /\ pc' = "store"
  /\ UNCHANGED <<disk, rootRef, rootValue, op, cur, path, stack, ret, bounds>>

\* The innermost _update calls _update on a child.
Descend(frame, child, n) ==
  /\ stack' = Append(stack, frame)
  /\ cur' = child
  /\ path' = Consume(path, n)
  /\ UNCHANGED <<disk, pc, rootRef, rootValue, op, todo, ret, bounds>>

\* _create_branch_leaf: the leaf for a non-empty rest of a path.
BranchLeaf(p, v) ==
  IF p = <<>> THEN <<>> ELSE <<Leaf(Consume(p, 1), v)>>

AddBranchLeaf(b, p, v) ==
  IF p = <<>> THEN b
  ELSE SetBranch(b, p[1], IntoReference(Leaf(Consume(p, 1), v)))

\* _create_branch_extension: the rest of a split extension.
BranchExtension(p, next) ==
  IF Len(p) = 1 THEN <<>> ELSE <<Extension(Consume(p, 1), next)>>

AddBranchExtension(b, p, next) ==
  SetBranch(b, p[1], IF Len(p) = 1 THEN next
                     ELSE IntoReference(Extension(Consume(p, 1), next)))

\* Mutation of BranchBelow: the test for an empty common prefix is missing.
BranchBelowAlways(prefix, branch) ==
  <<branch, Extension(prefix, IntoReference(branch))>>

\* The branch, under an extension when the paths had a prefix in common.
BranchBelow(prefix, branch) ==
  IF prefix = <<>> THEN <<branch>>
  ELSE <<branch, Extension(prefix, IntoReference(branch))>>

\* Mutation of LeafSplit: the branch is stored before the leaves below it.
LeafSplitTopDown(p, v, node) ==
  LET common == CommonLen(p, node.path)
      pathA  == Consume(p, common)
      pathB  == Consume(node.path, common)
      value  == IF pathA = <<>> THEN v
                ELSE IF pathB = <<>> THEN node.data ELSE EmptyBytes
      branches == AddBranchLeaf(AddBranchLeaf(NoBranches, pathA, v), pathB, node.data)
  IN  BranchBelow(SubSeq(p, 1, common), Branch(branches, value))
        \o BranchLeaf(pathA, v) \o BranchLeaf(pathB, node.data)

\* The nodes that replace a leaf whose path is not the rest p of the key.
LeafSplit(p, v, node) ==
  LET common == CommonLen(p, node.path)
      pathA  == Consume(p, common)
      pathB  == Consume(node.path, common)
      value  == IF pathA = <<>> THEN v
                ELSE IF pathB = <<>> THEN node.data ELSE EmptyBytes
      branches == AddBranchLeaf(AddBranchLeaf(NoBranches, pathA, v), pathB, node.data)
  IN  BranchLeaf(pathA, v) \o BranchLeaf(pathB, node.data)
        \o BranchBelow(SubSeq(p, 1, common), Branch(branches, value))

\* The nodes that replace an extension the rest p of the key leaves half-way.
ExtensionSplit(p, v, node) ==
  LET common == CommonLen(p, node.path)
      pathA  == Consume(p, common)
      pathB  == Consume(node.path, common)
      value  == IF pathA = <<>> THEN v ELSE EmptyBytes
      branches == AddBranchExtension(AddBranchLeaf(NoBranches, pathA, v),
                                     pathB, node.next)
  IN  BranchLeaf(pathA, v) \o BranchExtension(pathB, node.next)
        \o BranchBelow(SubSeq(p, 1, common), Branch(branches, value))

\* No node here yet: None, or b'' from a branch slot or a truncated root file.
UpdateEmpty ==
  /\ pc = "update" /\ cur \in NoNode
  /\ StoreNodes(<<Leaf(path, op.value)>>)

\* Mutation of UpdateMissing: a node that is not found is taken for no node.
UpdateMissingAsEmpty ==
  /\ pc = "update" /\ cur \notin NoNode /\ cur \notin db
  /\ StoreNodes(<<Leaf(path, op.value)>>)

\* _get_node looks only in the database; a reference that is not a key of it
\* raises KeyError, which ends insert before anything else is assigned.
UpdateMissing ==
  /\ pc = "update" /\ cur \notin NoNode /\ cur \notin db
  /\ pc' = "ready"
  /\ op' = NoOp
  /\ cur' = None /\ path' = <<>> /\ stack' = <<>> /\ todo' = <<>> /\ ret' = None
  /\ UNCHANGED <<disk, rootRef, rootValue, bounds>>

AtNode(type) == pc = "update" /\ cur \in db /\ cur.of.type = type

UpdateLeafValue ==
  /\ AtNode("leaf") /\ cur.of.path = path
  /\ StoreNodes(<<Leaf(path, op.value)>>)

UpdateLeafSplit ==
  /\ AtNode("leaf") /\ cur.of.path # path
  /\ StoreNodes(LeafSplit(path, op.value, cur.of))

UpdateExtensionFollow ==
  /\ AtNode("extension") /\ StartsWith(path, cur.of.path)
  /\ Descend([node |-> cur.of], cur.of.next, Len(cur.of.path))

UpdateExtensionSplit ==
  /\ AtNode("extension") /\ ~StartsWith(path, cur.of.path)
  /\ StoreNodes(ExtensionSplit(path, op.value, cur.of))

UpdateBranchValue ==
  /\ AtNode("branch") /\ path = <<>>
  /\ StoreNodes(<<Branch(cur.of.branches, op.value)>>)

UpdateBranchFollow ==
  /\ AtNode("branch") /\ path # <<>>
  /\ Descend([node |-> cur.of, slot |-> path[1]], cur.of.branches[path[1]], 1)

-----------------------------------------------------------------------------
(* Storing, and returning through the recursion *)

\* Mutation of StoreNode: in-place nodes are put in the database as well.
StoreNodeAlways ==
  /\ pc = "store"
  /\ LET ref == IntoReference(Head(todo)) IN db' = db \cup {ref} /\ ret' = ref
  /\ todo' = Tail(todo)
  /\ pc' = IF Len(todo) = 1 THEN "return" ELSE "store"
  /\ UNCHANGED <<rootFile, rootRef, rootValue, op, cur, path, stack, bounds>>

\* _store_node: only a 32-byte reference is put in the database.
StoreNode ==
  /\ pc = "store"
  /\ LET ref == IntoReference(Head(todo))
     IN /\ db' = IF ref.len = 32 THEN db \cup {ref} ELSE db
        /\ ret' = ref
  /\ todo' = Tail(todo)
  /\ pc' = IF Len(todo) = 1 THEN "return" ELSE "store"
  /\ UNCHANGED <<rootFile, rootRef, rootValue, op, cur, path, stack, bounds>>

\* The enclosing call puts the child's new reference in its node.
WithNewChild(frame, ref) ==
  IF frame.node.type = "extension"
  THEN Extension(frame.node.path, ref)
  ELSE Branch(SetBranch(frame.node.branches, frame.slot, ref), frame.node.data)

ReturnToCaller ==
  /\ pc = "return" /\ stack # <<>>
  /\ todo' = <<WithNewChild(stack[Len(stack)], ret)>>
  /\ stack' = SubSeq(stack, 1, Len(stack) - 1)
  /\ pc' = "store"
  /\ UNCHANGED <<disk, rootRef, rootValue, op, cur, path, ret, bounds>>

\* _update has returned to insert, which assigns self._root_ref.
SetRoot ==
  /\ pc = "return" /\ stack = <<>>
  /\ rootRef' = ret
  /\ pc' = "open"
  /\ cur' = None /\ path' = <<>> /\ ret' = None
  /\ UNCHANGED <<disk, rootValue, op, stack, todo, bounds>>

\* open(..., 'wb') truncates the file before anything is written to it.
OpenRootFile ==
  /\ pc = "open"
  /\ rootFile' = EmptyBytes
  /\ pc' = "write"
  /\ UNCHANGED <<db, rootRef, rootValue, op, call, bounds>>

WriteRootFile ==
  /\ pc = "write"
  /\ rootFile' = rootRef
  /\ rootValue' = rootRef
  /\ op' = NoOp
  /\ pc' = "ready"
  /\ UNCHANGED <<db, rootRef, call, bounds>>

-----------------------------------------------------------------------------
(* The process ends and is started again *)

Crash ==
  /\ pc # "down" /\ crashes < MaxCrashes
  /\ crashes' = crashes + 1
  /\ pc' = "down"
  /\ rootRef' = None /\ rootValue' = None /\ op' = NoOp
  /\ cur' = None /\ path' = <<>> /\ stack' = <<>> /\ todo' = <<>> /\ ret' = None
  /\ UNCHANGED <<disk, inserts>>

\* Mutation of Restart: the root is not mirrored into root.value.
RestartNoMirror ==
  /\ pc = "down"
  /\ rootRef' = rootFile
  /\ pc' = "ready"
  /\ UNCHANGED <<disk, rootValue, op, call, bounds>>

\* __init__: the root reference is whatever the file holds.
Restart ==
  /\ pc = "down"
  /\ rootRef' = rootFile /\ rootValue' = rootFile
  /\ pc' = "ready"
  /\ UNCHANGED <<disk, op, call, bounds>>

-----------------------------------------------------------------------------

Update ==
  \/ UpdateEmpty \/ UpdateMissing
  \/ UpdateLeafValue \/ UpdateLeafSplit
  \/ UpdateExtensionFollow \/ UpdateExtensionSplit
  \/ UpdateBranchValue \/ UpdateBranchFollow

\* The steps a running insert takes by itself.
Step == Update \/ StoreNode \/ ReturnToCaller \/ SetRoot \/ OpenRootFile \/ WriteRootFile

Next ==
  \/ \E k \in Keys, v \in Values : Insert(k, v)
  \/ Step
  \/ Crash
  \/ Restart

Spec == Init /\ [][Next]_vars

=============================================================================
