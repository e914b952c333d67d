------------------------------ MODULE Permissions ------------------------------
(***************************************************************************)
(* The permission canister and the client the storage canister calls it    *)
(* with (clients/c2c_permission).  Calls between two canisters are         *)
(* delivered in the order they were made and every call is answered; a     *)
(* call the system rejects makes the client trap.  A caller waits for the  *)
(* answers to all the calls it made before it continues.                   *)
(***************************************************************************)
EXTENDS Trie, Naturals

VARIABLES
  trie,                 \* the roles, under file/user and user/file
  requests,             \* calls that are not handled yet, oldest first
  rejections            \* number of calls the system rejected

permissionVars == <<trie, requests, rejections>>

PermissionsInit == trie = EmptyTrie /\ requests = <<>> /\ rejections = 0

FileKey(f) == <<<<"file", f>>>>
FileUserKey(f, u) == <<<<"file", f>>, <<"user", u>>>>
UserFileKey(u, f) == <<<<"user", u>>, <<"file", f>>>>

SetPermission(c, key, role) == [from |-> c, method |-> "set", key |-> key, role |-> role]
DeletePermission(c, key) == [from |-> c, method |-> "delete", key |-> key]
GetSubkeys(c, key) == [from |-> c, method |-> "subkeys", key |-> key]

Send(calls) == requests' = requests \o calls /\ UNCHANGED <<trie, rejections>>

\* What the caller of r reads: the key was there, and its subkeys.
AnswerTo(r) == [ok |-> r.method = "set" \/ HasNode(trie, r.key),
                keys |-> IF r.method = "subkeys" THEN Subkeys(trie, r.key) ELSE {}]

\* The permission canister handles the oldest request.
Handle(r) ==
  /\ requests # <<>> /\ r = Head(requests)
  /\ requests' = Tail(requests)
  /\ trie' = CASE r.method = "set" -> Insert(trie, r.key, r.role)
               [] r.method = "delete" -> Delete(trie, r.key)
               [] r.method = "subkeys" -> trie
  /\ UNCHANGED rejections

\* The system rejects the oldest request: nothing is handled.
Reject(r) ==
  /\ requests # <<>> /\ r = Head(requests)
  /\ rejections' = rejections + 1
  /\ requests' = Tail(requests)
  /\ UNCHANGED trie
===============================================================================
