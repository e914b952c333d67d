--------------------------------- MODULE Trie ---------------------------------
(***************************************************************************)
(* libraries/shared_types/src/trie: the tree the permission canister keeps *)
(* its roles in.  A key is the sequence of the parts the code splits at    *)
(* slashes.  A node is named by the path that leads to it, so a tree is a  *)
(* function from a prefix-closed set of paths to the values of the nodes.  *)
(***************************************************************************)
EXTENDS Sequences, SequencesExt

NoValue == "none"             \* a node that is only on the way to others

EmptyTrie == [path \in {<<>>} |-> NoValue]

\* The nodes on the way to the key are made when they are missing.
Insert(trie, key, value) ==
  [path \in DOMAIN trie \cup Prefixes(key) |->
     IF path = key THEN value ELSE IF path \in DOMAIN trie THEN trie[path] ELSE NoValue]

Get(trie, key) == IF key \in DOMAIN trie THEN trie[key] ELSE NoValue

\* The last parts of the children of key that have a value.
Subkeys(trie, key) ==
  {Last(path) : path \in {p \in DOMAIN trie \ {<<>>} : Front(p) = key /\ trie[p] # NoValue}}

\* Removing a node removes what is below it; an unknown key is an error.
HasNode(trie, key) == key \in DOMAIN trie

\* Mutant of Delete: the value of the node is cleared and what is below it stays.
ClearValue(trie, key) == [path \in DOMAIN trie |-> IF path = key THEN NoValue ELSE trie[path]]

Delete(trie, key) == [path \in {p \in DOMAIN trie : ~ IsPrefix(key, p)} |-> trie[path]]
===============================================================================
