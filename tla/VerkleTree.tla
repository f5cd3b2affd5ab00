----------------------------- MODULE VerkleTree -----------------------------
(***************************************************************************)
(* The Verkle tree of tree/verkle_tree.py: one process over one LevelDB    *)
(* directory and one root file, with crashes.                              *)
(*                                                                         *)
(* insert() walks down from the root in memory and collects on a stack the *)
(* nodes it passed, changed and made; then it takes them off the stack,    *)
(* commits to each, writes it to the database and links it into its        *)
(* parent, which is lower on the stack; at last it replaces the root and   *)
(* rewrites the root file.  Every turn of the two loops is a step, so a    *)
(* crash can fall between any two writes.                                  *)
(*                                                                         *)
(* The branch of the walk for a node of type "suffix" is left out: the     *)
(* walk loads the children of internal nodes only, which StoreClosed       *)
(* (VerkleTreeProps) shows never to be suffix nodes nor missing.           *)
(***************************************************************************)
EXTENDS VerkleNodes

CONSTANTS
  Keys,        \* the keys inserted, as integers
  MaxInserts,  \* bound on the calls of insert
  MaxCrashes   \* bound on the crashes

ASSUME VerkleTreeAssumption ==
  /\ Keys \subseteq 0..(2^TotalBits - 1)
  /\ MaxInserts \in Nat /\ MaxCrashes \in Nat

VARIABLES
  db,        \* LevelDB: the encoded node under each reference
  rootFile,  \* verkle_root_ref.bin: None when absent, Truncated when empty
  pc,        \* what the process is doing
  root,      \* self.root: None, or the node and its value attribute
  op,        \* the arguments of the running insert
  depth,     \* chunks of the stem consumed by the walk
  stack,     \* the nodes to commit, each with the index of its parent on the
             \* stack (0 for the root) and its slot there
  inserts, crashes

disk   == <<db, rootFile>>
call   == <<op, depth, stack>>
bounds == <<inserts, crashes>>
vars   == <<disk, pc, root, call, bounds>>

Truncated == <<>>
NoOp      == [key |-> None, value |-> None]

Init ==
  /\ db = << >> /\ rootFile = None
  /\ pc = "ready"
  /\ root = None
  /\ op = NoOp /\ depth = 0 /\ stack = <<>>
  /\ inserts = 0 /\ crashes = 0

-----------------------------------------------------------------------------
(* insert, first phase: the walk *)

Entry(node, parent, slot) == [node |-> node, parent |-> parent, slot |-> slot]

\* A tree without a root gets an empty one, which has no value yet.
Insert(k, v) ==
  LET start == IF root = None THEN [node |-> Internal(NoChildren), value |-> None] ELSE root
  IN  /\ pc = "ready"
      /\ inserts < MaxInserts
      /\ inserts' = inserts + 1
      /\ op' = [key |-> k, value |-> v]
      /\ root' = start
      /\ stack' = <<Entry(start.node, 0, None)>>
      /\ depth' = 0
      /\ pc' = "walk"
      /\ UNCHANGED <<disk, crashes>>

Node     == Last(stack).node
NewStem  == From(StemOf(op.key), depth)
Load(r)  == Decode(db[r])

\* The suffix node for the running insert's value alone.
NewSuffix == Suffix([NoChildren EXCEPT ![SuffixOf(op.key)] = op.value])

\* The walk is over and left these nodes on the stack.
Commence(s) ==
  /\ stack' = s
  /\ pc' = "commit"
  /\ UNCHANGED <<disk, root, op, depth, bounds>>

\* Mutation of WalkEmptySlot: the next chunk gets an internal node as well.
WalkEmptySlotDeep ==
  /\ pc = "walk" /\ Node.type = "internal"
  /\ Node.children[NewStem[1]] = None /\ Len(NewStem) > 1
  /\ LET n == Len(stack)
     IN  Commence(stack \o <<Entry(Internal(NoChildren), n, NewStem[1]),
                             Entry(Extension(From(NewStem, 2), None), n + 1, NewStem[2]),
                             Entry(NewSuffix, n + 2, "child")>>)

\* The slot is empty: an extension with the rest of the stem goes there.
WalkEmptySlot ==
  /\ pc = "walk" /\ Node.type = "internal"
  /\ Node.children[NewStem[1]] = None
  /\ LET n == Len(stack)
     IN  Commence(stack \o <<Entry(Extension(From(NewStem, 1), None), n, NewStem[1]),
                             Entry(NewSuffix, n + 1, "child")>>)

WalkChild ==
  /\ pc = "walk" /\ Node.type = "internal"
  /\ Node.children[NewStem[1]] # None
  /\ stack' = Append(stack, Entry(Load(Node.children[NewStem[1]]), Len(stack), NewStem[1]))
  /\ depth' = depth + 1
  /\ UNCHANGED <<disk, pc, root, op, bounds>>

\* Mutation of WalkSameStem: the suffix node is made anew.
WalkSameStemAnew ==
  /\ pc = "walk" /\ Node.type = "extension"
  /\ Node.stem = NewStem
  /\ Commence(Append(stack, Entry(NewSuffix, Len(stack), "child")))

\* The stem is there already: its suffix node takes the value.
WalkSameStem ==
  /\ pc = "walk" /\ Node.type = "extension"
  /\ Node.stem = NewStem
  /\ Commence(Append(stack, Entry(SetSlot(Load(Node.child), SuffixOf(op.key), op.value),
                                  Len(stack), "child")))

\* The stems part after their first m chunks: the extension on the stack gives
\* way to m internal nodes for these and one where they part, and moves below
\* it, next to the extension for the new stem.
Split(top, m) ==
  LET old   == top.node
      below == Len(stack)  \* the index of the first internal node
      chain == [i \in 1..(m + 1) |->
                 Entry(Internal(NoChildren),
                       IF i = 1 THEN top.parent ELSE below + i - 2,
                       IF i = 1 THEN top.slot ELSE old.stem[i - 1])]
      parts == below + m  \* the index of the node where the stems part
  IN  Front(stack) \o chain
        \o <<Entry(Extension(From(old.stem, m + 1), old.child), parts, old.stem[m + 1]),
             Entry(Extension(From(NewStem, m + 1), None), parts, NewStem[m + 1]),
             Entry(NewSuffix, parts + 2, "child")>>

WalkSplit ==
  /\ pc = "walk" /\ Node.type = "extension"
  /\ Node.stem # NewStem
  /\ LET m == MatchLength(Node.stem, NewStem)
     IN  /\ m < Len(Node.stem) /\ m < Len(NewStem)
         /\ Commence(Split(Last(stack), m))

\* The exception ends the call.  It leaves the root as insert made it.
Raise ==
  /\ op' = NoOp /\ depth' = 0 /\ stack' = <<>>
  /\ pc' = "ready"
  /\ UNCHANGED <<disk, root, bounds>>

\* One stem is a proper prefix of the other, which stems of keys of one length
\* are not: existing_stem[match_length] or new_stem[match_length] raises.
WalkRaises ==
  /\ pc = "walk" /\ Node.type = "extension"
  /\ Node.stem # NewStem
  /\ LET m == MatchLength(Node.stem, NewStem)
     IN  m = Len(Node.stem) \/ m = Len(NewStem)
  /\ Raise

-----------------------------------------------------------------------------
(* insert, second phase: commitments and storage, from the last node up *)

Put(ref, node) == db' = [r \in DOMAIN db \cup {ref} |-> IF r = ref THEN Encode(node) ELSE db[r]]

\* The root on the stack is the object self.root, so linking changes that too.
CommitNode ==
  /\ pc = "commit" /\ Last(stack).parent # 0
  /\ Committable(Node)
  /\ LET top  == Last(stack)
         ref  == Reference(Node)
         rest == [Front(stack) EXCEPT ![top.parent].node = SetSlot(@, top.slot, ref)]
     IN  /\ Put(ref, Node)
         /\ stack' = rest
         /\ root' = [root EXCEPT !.node = rest[1].node]
  /\ UNCHANGED <<rootFile, pc, op, depth, bounds>>

CommitRaises ==
  /\ pc = "commit" /\ ~ Committable(Node)
  /\ Raise

\* Mutation of CommitRoot: the root, being in memory, is not stored.
CommitRootUnstored ==
  /\ pc = "commit" /\ Last(stack).parent = 0
  /\ root' = [node |-> Node, value |-> Reference(Node)]
  /\ stack' = <<>> /\ depth' = 0
  /\ pc' = "open"
  /\ UNCHANGED <<disk, op, bounds>>

CommitRoot ==
  /\ pc = "commit" /\ Last(stack).parent = 0
  /\ Put(Reference(Node), Node)
  /\ root' = [node |-> Node, value |-> Reference(Node)]
  /\ stack' = <<>> /\ depth' = 0
  /\ pc' = "open"
  /\ UNCHANGED <<rootFile, op, bounds>>

\* open(..., 'wb') empties the file; the value is written afterwards.
OpenRootFile ==
  /\ pc = "open"
  /\ rootFile' = Truncated
  /\ pc' = "write"
  /\ UNCHANGED <<db, root, call, bounds>>

WriteRootFile ==
  /\ pc = "write"
  /\ rootFile' = root.value
  /\ op' = NoOp
  /\ pc' = "ready"
  /\ UNCHANGED <<db, root, depth, stack, bounds>>

-----------------------------------------------------------------------------
(* The process ends and is started again *)

Crash ==
  /\ pc # "down" /\ crashes < MaxCrashes
  /\ crashes' = crashes + 1
  /\ pc' = "down"
  /\ root' = None
  /\ op' = NoOp /\ depth' = 0 /\ stack' = <<>>
  /\ UNCHANGED <<disk, inserts>>

\* __init__: no root if the file is absent or empty.
Restart ==
  /\ pc = "down"
  /\ root' = IF rootFile \in {None, Truncated} THEN None
             ELSE [node |-> Load(rootFile), value |-> rootFile]
  /\ pc' = "ready"
  /\ UNCHANGED <<disk, call, bounds>>

-----------------------------------------------------------------------------

\* The steps a running insert takes by itself.
Step ==
  \/ WalkEmptySlot \/ WalkChild \/ WalkSameStem \/ WalkSplit \/ WalkRaises
  \/ CommitNode \/ CommitRaises \/ CommitRoot
  \/ OpenRootFile \/ WriteRootFile

Next ==
  \/ \E k \in Keys, v \in Values : Insert(k, v)
  \/ Step
  \/ Crash
  \/ Restart

Spec == Init /\ [][Next]_vars

\* insert runs on one thread that nothing blocks: once called it goes on.
Fairness == WF_vars(Step)

FairSpec == Spec /\ Fairness

=============================================================================
