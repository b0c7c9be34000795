------------------------------ MODULE FileSystem ------------------------------
(***************************************************************************)
(* collab::fs (common/models/file_system.h, .cpp): directories that own    *)
(* their children by name, and nodes that know their parent.               *)
(*                                                                         *)
(* Nodes are numbers in the order of their creation; the root is 0.  A     *)
(* path is the sequence of its names, with "/" in front when it is         *)
(* absolute.  The caller keeps a handle on every node, so no parent        *)
(* expires.  Text is abstracted to its characters, each the number of the  *)
(* call that wrote it.                                                     *)
(***************************************************************************)
EXTENDS Integers, Sequences, SequencesExt, FiniteSets, Functions, TLC

CONSTANTS
  NodeName,    \* names of nodes
  MaxNodes,    \* bound: nodes besides the root
  MaxChanges   \* bound: calls

Root == 0
NoParent == -1
Empty == [x \in {} |-> Root]

VARIABLES
  nodes,      \* number of nodes besides the root
  isDirectory,\* node -> type_ = Type::Directory
  name,       \* node -> name_
  parent,     \* node -> parent_
  children,   \* node -> children_: a function from names to nodes
  content,    \* node -> content_
  version,    \* node -> version_
  changes,    \* number of calls
  mishandled  \* nodes added while a directory had them, or renamed behind its back: history

fsVars == <<nodes, isDirectory, name, parent, children, content, version, changes, mishandled>>

Node == 0..nodes
Directories == {n \in Node : isDirectory[n]}
Held(n) == \E d \in Directories : n \in Range(children[d])

\* The node and the directories above it.
Ancestors(n) ==
  LET up[k \in Nat] == IF k = 0 THEN {n}
                       ELSE up[k - 1] \cup {parent[m] : m \in up[k - 1] \ {NoParent}}
  IN up[nodes + 1] \ {NoParent}

\* getPath(): a node without a parent is the root or a detached one.
getPath(n) ==
  LET path[k \in Nat, m \in Node] ==
        IF parent[m] # NoParent /\ k > 0 THEN Append(path[k - 1, parent[m]], name[m])
        ELSE IF ~isDirectory[m] THEN <<name[m]>>
        ELSE IF name[m] = "" THEN <<"/">> ELSE <<"/", name[m]>>
  IN path[nodes + 1, n]

\* getNode() and getNodeByPath(); NoParent stands for nullptr.
getNode(d, nm) == IF nm \in DOMAIN children[d] THEN children[d][nm] ELSE NoParent

getNodeByPath(d, path) ==
  LET top[k \in Nat, m \in Node] ==
        IF parent[m] # NoParent /\ k > 0 THEN top[k - 1, parent[m]] ELSE m
      find[k \in 1..(Len(path) + 1), m \in Node \cup {NoParent}] ==
        IF k > Len(path) \/ m = NoParent THEN m
        ELSE IF path[k] = "/" THEN find[k + 1, top[nodes + 1, m]]
        ELSE IF isDirectory[m] THEN find[k + 1, getNode(m, path[k])]
        ELSE NoParent
  IN IF path = << >> THEN NoParent ELSE find[1, d]

FileSystemInit ==
  /\ nodes = 0 /\ isDirectory = (0 :> TRUE)
  /\ name = (0 :> "") /\ parent = (0 :> NoParent)
  /\ children = (0 :> Empty) /\ content = (0 :> << >>) /\ version = (0 :> 0)
  /\ changes = 0 /\ mishandled = {}

-----------------------------------------------------------------------------
Step == changes < MaxChanges /\ changes' = changes + 1

\* createFile() and createDirectory(): addNode() of a new node.
create(d, nm, dir) ==
  LET n == nodes + 1
  IN /\ Step /\ n <= MaxNodes /\ nm \notin DOMAIN children[d]
     /\ nodes' = n
     /\ isDirectory' = isDirectory @@ (n :> dir)
     /\ name' = name @@ (n :> nm) /\ parent' = parent @@ (n :> d)
     /\ children' = [children EXCEPT ![d] = @ @@ (nm :> n)] @@ (n :> Empty)
     /\ content' = content @@ (n :> IF dir THEN << >> ELSE <<changes>>)
     /\ version' = version @@ (n :> 0)
     /\ UNCHANGED mishandled

\* Mutant of addNode: the parent stays.
addNode_KeepsParent(d, n) ==
  /\ Step /\ name[n] \notin DOMAIN children[d]
  /\ UNCHANGED parent
  /\ children' = [children EXCEPT ![d] = @ @@ (name[n] :> n)]
  /\ mishandled' = IF Held(n) \/ n \in Ancestors(d) THEN mishandled \cup {n} ELSE mishandled
  /\ UNCHANGED <<nodes, isDirectory, name, content, version>>

\* addNode() of a node that exists: nothing takes it out of the directory it
\* is in, or refuses a directory that holds this one.
addNode(d, n) ==
  /\ Step /\ name[n] \notin DOMAIN children[d]
  /\ parent' = [parent EXCEPT ![n] = d]
  /\ children' = [children EXCEPT ![d] = @ @@ (name[n] :> n)]
  /\ mishandled' = IF Held(n) \/ n \in Ancestors(d) THEN mishandled \cup {n} ELSE mishandled
  /\ UNCHANGED <<nodes, isDirectory, name, content, version>>

\* removeNode(): the node keeps its parent.
removeNode(d, nm) ==
  /\ Step /\ nm \in DOMAIN children[d]
  /\ children' = [children EXCEPT ![d] = Restrict(@, DOMAIN @ \ {nm})]
  /\ UNCHANGED <<nodes, isDirectory, name, parent, content, version, mishandled>>

\* renameNode(): a node that another directory holds too is renamed there as
\* well, and that directory does not know.
renameNode(d, old, new) ==
  LET n == children[d][old]
  IN /\ Step /\ old \in DOMAIN children[d] /\ new \notin DOMAIN children[d]
     /\ children' = [children EXCEPT ![d] = (new :> n) @@ Restrict(@, DOMAIN @ \ {old})]
     /\ name' = [name EXCEPT ![n] = new]
     /\ UNCHANGED <<nodes, isDirectory, parent, content, version, mishandled>>

\* setName(), which is public.
setName(n, nm) ==
  /\ Step /\ nm # name[n]
  /\ name' = [name EXCEPT ![n] = nm]
  /\ mishandled' = IF Held(n) THEN mishandled \cup {n} ELSE mishandled
  /\ UNCHANGED <<nodes, isDirectory, parent, children, content, version>>

SetText(f, text) ==
  /\ Step /\ ~isDirectory[f]
  /\ content' = [content EXCEPT ![f] = text]
  /\ version' = [version EXCEPT ![f] = @ + 1]
  /\ UNCHANGED <<nodes, isDirectory, name, parent, children, mishandled>>

setContent(f) == SetText(f, <<changes>>)
appendContent(f) == SetText(f, Append(content[f], changes))
insertContent(f, position) ==
  position <= Len(content[f]) /\ SetText(f, InsertAt(content[f], position + 1, changes))
\* deleteContent(): erase() stops at the end of the text.
deleteContent(f, position, length) ==
  /\ position < Len(content[f])
  /\ SetText(f, SubSeq(content[f], 1, position)
                \o SubSeq(content[f], position + length + 1, Len(content[f])))

FileSystemNext ==
  \/ \E d \in Directories, nm \in NodeName :
       \/ \E dir \in BOOLEAN : create(d, nm, dir)
       \/ removeNode(d, nm)
       \/ \E new \in NodeName : renameNode(d, nm, new)
  \/ \E d \in Directories, n \in Node \ {Root} : addNode(d, n)
  \/ \E n \in Node \ {Root}, nm \in NodeName : setName(n, nm)
  \/ \E f \in Node \ Directories :
       \/ setContent(f) \/ appendContent(f)
       \/ \E p \in 0..2 : insertContent(f, p)
       \/ \E p, l \in 0..2 : deleteContent(f, p, l)

-----------------------------------------------------------------------------
(* getPath() and getNodeByPath() are inverse, from any directory of the     *)
(* tree: a node the root reaches is found under its path, after any moves   *)
(* (removeNode() and addNode() in this order), renamings and name clashes,  *)
(* as long as nobody mishandled the node or one above it.                   *)
PathsResolve ==
  \A n \in Node, d \in Directories :
    /\ Root \in Ancestors(n) /\ Root \in Ancestors(d)
    /\ \A m \in (Ancestors(n) \cup Ancestors(d)) \ {Root} : m \notin mishandled /\ Held(m)
    => getNodeByPath(d, getPath(n)) = n

(* A node leaves a directory in no other way than by removeNode(): a call   *)
(* takes at most one name away and gives its node another name, or touches  *)
(* nothing else.                                                            *)
NodesLeaveByRemoval ==
  \A d \in Directories :
    \/ Range(children[d]) \subseteq Range(children'[d])
    \/ \E nm \in DOMAIN children[d] :
         children'[d] = Restrict(children[d], DOMAIN children[d] \ {nm})

(* The tree stays a tree: after every call paths find their nodes, and      *)
(* nodes left it only by removal.                                           *)
TreeIsSound == [][PathsResolve' /\ NodesLeaveByRemoval]_fsVars
=============================================================================
