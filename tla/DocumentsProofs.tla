---------------------------- MODULE DocumentsProofs ----------------------------
(***************************************************************************)
(* Theorems of Storage and of Documents, the SDK as its client.            *)
(*                                                                         *)
(* While no call works on a file, both halves of every role of it agree.   *)
(* What is in the way of the proof are the requests that are on their way  *)
(* to the permission canister: the invariant says what they will do, one   *)
(* by one.                                                                 *)
(*                                                                         *)
(* Readers of a document get what was uploaded under the URL they read,    *)
(* and the URL is one of the document.  The invariant has three parts:     *)
(* what is stored was given under its name, the records name URLs given    *)
(* for the documents they have them for, and a job under way records or    *)
(* reads nothing else; a read under way has part of one content.           *)
(*                                                                         *)
(* What is proved of the storage canister holds with the SDK as its        *)
(* client: a step of the SDK is a step of the canister or leaves it alone. *)
(***************************************************************************)
EXTENDS Documents, StorageProofs

-----------------------------------------------------------------------------
\* The roles of a file: the invariant.

\* What a request leaves under its key.
RoleOf(r) == IF r.method = "set" THEN r.role ELSE NoValue

\* The two halves of a role are asked for one after the other, and between the
\* answers to them only the first one is there.
Halves(id, u) ==
  LET first == FileUserKey(id, u)
      second == UserFileKey(u, id)
  IN
  /\ \A i \in 1 .. Len(requests) : requests[i].key = first =>
       /\ i + 1 \in 1 .. Len(requests)
       /\ requests[i + 1].key = second /\ RoleOf(requests[i + 1]) = RoleOf(requests[i])
  /\ \A i \in 1 .. Len(requests) : requests[i].key = second =>
       IF i = 1 THEN Get(trie, first) = RoleOf(requests[i]) ELSE requests[i - 1].key = first
  /\ \/ requests # <<>> /\ requests[1].key = second
     \/ Get(trie, first) = Get(trie, second)

\* The requests a removal makes once it knows the subkeys.
Deletes(r, id) ==
  /\ r.method = "delete"
  /\ r.key = FileKey(id) \/ \E part \in Parts : r.key = <<part, <<"file", id>>>>

\* What a call may have asked for.
Named(r) ==
  LET c == r.from
      id == call[c].id
  IN
  /\ call[c].op # "none"
  /\ \/ /\ call[c].op \in {"create", "member"} /\ r.method \in {"set", "delete"}
        /\ \E u \in Users : r.key \in {FileUserKey(id, u), UserFileKey(u, id)}
     \/ /\ call[c].op = "remove" /\ ~ call[c].listed
        /\ r.method = "subkeys" /\ r.key = FileKey(id)
     \/ call[c].op = "remove" /\ call[c].listed /\ Deletes(r, id)

\* Only a removal has requests still to make, once it has listed them.
TodoNamed(c) == call[c].op # "none" =>
  /\ call[c].listed => call[c].op = "remove"
  /\ ~ call[c].listed => call[c].todo = <<>>
  /\ \A i \in 1 .. Len(call[c].todo) : Deletes(call[c].todo[i], call[c].id)

RequestsNamed ==
  /\ \A i \in 1 .. Len(requests) : Named(requests[i])
  /\ \A c \in Callers : TodoNamed(c)

\* The removal c has still to ask, or to be answered, for this.
Remains(c, key) ==
  \/ \E i \in 1 .. Len(call[c].todo) : call[c].todo[i].key = key
  \/ \E i \in From(requests, c) : requests[i].key = key

At(id) == {c \in Callers : call[c].op # "none" /\ call[c].id = id}

Removes(c, id) == call[c].op = "remove" /\ call[c].id = id

\* While it asks for the users of the file, the halves agree.
Listing(c, id) == \A u \in Users :
  /\ Get(trie, FileUserKey(id, u)) = Get(trie, UserFileKey(u, id))
  /\ call[c].wait = 0 /\ Get(trie, FileUserKey(id, u)) # NoValue => <<"user", u>> \in call[c].keys

\* What is still there, it will still delete.
Deleting(c, id) == \A u \in Users :
  /\ Get(trie, UserFileKey(u, id)) # NoValue => Remains(c, UserFileKey(u, id))
  /\ Get(trie, FileUserKey(id, u)) # NoValue => Remains(c, FileKey(id))

\* A removal that nothing overlaps deletes every role of the file.
RemovalKept(c, id) ==
  /\ At(id) = {c}
  /\ call[c].ok /\ ~ call[c].listed => Listing(c, id)
  /\ call[c].ok /\ call[c].listed => Deleting(c, id)

RoleKept(id) ==
  /\ \A c \in Callers : Removes(c, id) => RemovalKept(c, id)
  /\ (\A c \in Callers : ~ Removes(c, id)) => \A u \in Users : Halves(id, u)

RolesKept == \A id \in Ids \ torn : RoleKept(id)

-----------------------------------------------------------------------------
\* Keys and the tree.

\* The keys of roles name their file and their user.
LEMMA KeysDiffer ==
  ASSUME NEW f, NEW g, NEW u, NEW v
  PROVE  /\ FileUserKey(f, u) = FileUserKey(g, v) <=> f = g /\ u = v
         /\ UserFileKey(u, f) = UserFileKey(v, g) <=> f = g /\ u = v
         /\ FileUserKey(f, u) # UserFileKey(v, g)
         /\ FileKey(f) = FileKey(g) <=> f = g
         /\ FileKey(f) # FileUserKey(g, u) /\ FileKey(f) # UserFileKey(u, g)
         /\ \A part : /\ <<part, <<"file", f>>>> # FileUserKey(g, u)
                      /\ <<part, <<"file", f>>>> = UserFileKey(u, g) => f = g
                      /\ <<part, <<"file", f>>>> # FileKey(g)
BY DEF FileUserKey, UserFileKey, FileKey

\* The first parts of short keys.
LEMMA Beginnings ==
  ASSUME NEW a, NEW b
  PROVE  /\ Len(<<a>>) = 1 /\ SubSeq(<<a>>, 1, 1) = <<a>>
         /\ Len(<<a, b>>) = 2 /\ SubSeq(<<a, b>>, 1, 2) = <<a, b>> /\ SubSeq(<<a, b>>, 1, 1) = <<a>>
<1> DEFINE S == {a, b}
<1>1. /\ <<a>> \in Seq(S) /\ Len(<<a>>) = 1 /\ <<a>>[1] = a
      /\ <<a, b>> \in Seq(S) /\ Len(<<a, b>>) = 2 /\ <<a, b>>[1] = a /\ <<a, b>>[2] = b
  OBVIOUS
<1>2. /\ SubSeq(<<a>>, 1, 1) \in Seq(S) /\ Len(SubSeq(<<a>>, 1, 1)) = 1
      /\ SubSeq(<<a>>, 1, 1)[1] = a
  BY <1>1
<1>3. /\ SubSeq(<<a, b>>, 1, 2) \in Seq(S) /\ Len(SubSeq(<<a, b>>, 1, 2)) = 2
      /\ SubSeq(<<a, b>>, 1, 2)[1] = a /\ SubSeq(<<a, b>>, 1, 2)[2] = b
  BY <1>1
<1>4. /\ SubSeq(<<a, b>>, 1, 1) \in Seq(S) /\ Len(SubSeq(<<a, b>>, 1, 1)) = 1
      /\ SubSeq(<<a, b>>, 1, 1)[1] = a
  BY <1>1
<1>5. \A i \in 1 .. 1 : i = 1
  OBVIOUS
<1>6. \A i \in 1 .. 2 : i = 1 \/ i = 2
  OBVIOUS
<1> HIDE DEF S
<1>7. SubSeq(<<a>>, 1, 1) = <<a>>
  BY <1>1, <1>2, <1>5, SeqEqual
<1>8. SubSeq(<<a, b>>, 1, 2) = <<a, b>>
  BY <1>1, <1>3, <1>6, SeqEqual
<1>9. SubSeq(<<a, b>>, 1, 1) = <<a>>
  BY <1>1, <1>4, <1>5, SeqEqual
<1> QED BY <1>1, <1>7, <1>8, <1>9

\* A role is below the key of another role only if that is its own.
LEMMA BelowRole ==
  ASSUME NEW g, NEW u, NEW a, NEW b
  PROVE  /\ IsPrefix(<<a, b>>, FileUserKey(g, u)) <=> <<a, b>> = FileUserKey(g, u)
         /\ IsPrefix(<<a, b>>, UserFileKey(u, g)) <=> <<a, b>> = UserFileKey(u, g)
<1> DEFINE whole == <<a, b>>
<1>1. Len(whole) = 2 /\ SubSeq(whole, 1, 2) = whole
  BY Beginnings
<1>2. Len(FileUserKey(g, u)) = 2 /\ SubSeq(FileUserKey(g, u), 1, 2) = FileUserKey(g, u)
  BY Beginnings DEF FileUserKey
<1>3. Len(UserFileKey(u, g)) = 2 /\ SubSeq(UserFileKey(u, g), 1, 2) = UserFileKey(u, g)
  BY Beginnings DEF UserFileKey
<1> HIDE DEF whole
<1>4. /\ IsPrefix(whole, FileUserKey(g, u)) <=> whole = FileUserKey(g, u)
      /\ IsPrefix(whole, UserFileKey(u, g)) <=> whole = UserFileKey(u, g)
  BY <1>1, <1>2, <1>3 DEF IsPrefix
<1> QED BY <1>4 DEF whole

\* The roles a file has are below the key of the file, those of a user are not.
LEMMA BelowFile ==
  ASSUME NEW f, NEW g, NEW u
  PROVE  /\ IsPrefix(FileKey(f), FileUserKey(g, u)) <=> f = g
         /\ ~ IsPrefix(FileKey(f), UserFileKey(u, g))
<1>1. Len(FileKey(f)) = 1 /\ SubSeq(FileKey(f), 1, 1) = FileKey(f)
  BY Beginnings DEF FileKey
<1>2. Len(FileUserKey(g, u)) = 2 /\ SubSeq(FileUserKey(g, u), 1, 1) = FileKey(g)
  BY Beginnings DEF FileUserKey, FileKey
<1>3. SubSeq(UserFileKey(u, g), 1, 1) = <<<<"user", u>>>>
  BY Beginnings DEF UserFileKey
<1>4. FileKey(f) # <<<<"user", u>>>> /\ (FileKey(f) = FileKey(g) <=> f = g)
  BY DEF FileKey
<1>5. IsPrefix(FileKey(f), FileUserKey(g, u)) <=> f = g
  <2>1. 1 <= 2
    OBVIOUS
  <2> QED BY <1>1, <1>2, <1>4, <2>1 DEF IsPrefix
<1>6. ~ IsPrefix(FileKey(f), UserFileKey(u, g))
  BY <1>1, <1>3, <1>4 DEF IsPrefix
<1> QED BY <1>5, <1>6

\* What is read after a value was inserted.
LEMMA ReadInserted ==
  ASSUME NEW t, NEW key, NEW part, key \in Seq(part), NEW value, NEW path
  PROVE  Get(Insert(t, key, value), path) = IF path = key THEN value ELSE Get(t, path)
<1>1. key \in Prefixes(key)
  <2>1. Len(key) \in 0 .. Len(key) /\ SubSeq(key, 1, Len(key)) = key
    OBVIOUS
  <2> QED BY <2>1 DEF Prefixes
<1> QED BY <1>1 DEF Get, Insert

\* What is read after a node was deleted.
LEMMA ReadDeleted ==
  ASSUME NEW t, NEW key, NEW path
  PROVE  Get(Delete(t, key), path) = IF IsPrefix(key, path) THEN NoValue ELSE Get(t, path)
BY DEF Get, Delete

-----------------------------------------------------------------------------
\* Requests.

\* A request is about a role or about a file.
LEMMA KeyOfRequest ==
  ASSUME NEW r, Named(r)
  PROVE  \/ r.method \in {"set", "delete"} /\ \E a, b : r.key = <<a, b>>
         \/ r.method \in {"delete", "subkeys"} /\ r.key = FileKey(call[r.from].id)
BY DEF Named, Deletes, FileUserKey, UserFileKey

\* A request is not about the roles of a file its call is not about.
LEMMA OtherFile ==
  ASSUME NEW r, Named(r), NEW id, id # call[r.from].id, NEW u
  PROVE  r.key # FileUserKey(id, u) /\ r.key # UserFileKey(u, id) /\ r.key # FileKey(id)
BY KeysDiffer DEF Named, Deletes

\* What a request does to a role.
LEMMA RoleHandled ==
  ASSUME NEW r \in Requests, Handle(r), Named(r), NEW id, NEW u
  PROVE  /\ Get(trie', FileUserKey(id, u)) =
              IF r.key = FileUserKey(id, u) THEN RoleOf(r)
              ELSE IF r.method = "delete" /\ r.key = FileKey(id) THEN NoValue
              ELSE Get(trie, FileUserKey(id, u))
         /\ Get(trie', UserFileKey(u, id)) =
              IF r.key = UserFileKey(u, id) THEN RoleOf(r) ELSE Get(trie, UserFileKey(u, id))
<1>1. r.key \in Seq(Parts)
  BY DEF Requests, Keys
<1>2. CASE r.method = "set"
  <2>1. trie' = Insert(trie, r.key, r.role) /\ RoleOf(r) = r.role
    BY <1>2 DEF Handle, RoleOf
  <2> QED BY <1>1, <1>2, <2>1, ReadInserted
<1>3. CASE r.method = "delete" /\ \E a, b : r.key = <<a, b>>
  <2>1. trie' = Delete(trie, r.key) /\ RoleOf(r) = NoValue
    BY <1>3 DEF Handle, RoleOf
  <2>2. /\ IsPrefix(r.key, FileUserKey(id, u)) <=> r.key = FileUserKey(id, u)
        /\ IsPrefix(r.key, UserFileKey(u, id)) <=> r.key = UserFileKey(u, id)
    BY <1>3, BelowRole
  <2>3. \A a, b : <<a, b>> # FileKey(id)
    BY DEF FileKey
  <2> QED BY <1>3, <2>1, <2>2, <2>3, ReadDeleted
<1>4. CASE r.method = "delete" /\ r.key = FileKey(call[r.from].id)
  <2>1. trie' = Delete(trie, r.key) /\ RoleOf(r) = NoValue
    BY <1>4 DEF Handle, RoleOf
  <2>2. /\ IsPrefix(r.key, FileUserKey(id, u)) <=> r.key = FileKey(id)
        /\ ~ IsPrefix(r.key, UserFileKey(u, id))
        /\ r.key # FileUserKey(id, u) /\ r.key # UserFileKey(u, id)
    <3> DEFINE f == call[r.from].id
    <3>1. /\ IsPrefix(FileKey(f), FileUserKey(id, u)) <=> f = id
          /\ ~ IsPrefix(FileKey(f), UserFileKey(u, id))
      BY BelowFile
    <3>2. /\ FileKey(f) = FileKey(id) <=> f = id
          /\ FileKey(f) # FileUserKey(id, u) /\ FileKey(f) # UserFileKey(u, id)
      BY KeysDiffer
    <3> QED BY <1>4, <3>1, <3>2
  <2> QED BY <1>4, <2>1, <2>2, ReadDeleted
<1>5. CASE r.method = "subkeys" /\ r.key = FileKey(call[r.from].id)
  <2>1. trie' = trie
    BY <1>5 DEF Handle
  <2>2. r.key # FileUserKey(id, u) /\ r.key # UserFileKey(u, id)
    BY <1>5, KeysDiffer
  <2> QED BY <1>5, <2>1, <2>2
<1> QED BY <1>2, <1>3, <1>4, <1>5, KeyOfRequest

\* A user with a role in the file is among the subkeys of the file.
LEMMA AmongSubkeys ==
  ASSUME NEW id, NEW u, Get(trie, FileUserKey(id, u)) # NoValue
  PROVE  <<"user", u>> \in Subkeys(trie, FileKey(id))
<1> DEFINE p == FileUserKey(id, u)
<1>1. p \in DOMAIN trie /\ trie[p] # NoValue
  BY DEF Get
<1>2. Front(p) = FileKey(id) /\ Last(p) = <<"user", u>> /\ p # <<>>
  <2>1. Len(p) = 2 /\ SubSeq(p, 1, 1) = FileKey(id) /\ p[2] = <<"user", u>>
    BY Beginnings DEF FileUserKey, FileKey
  <2>2. Len(p) - 1 = 1
    BY <2>1
  <2>3. p # <<>>
    BY DEF FileUserKey
  <2> QED BY <2>1, <2>2, <2>3 DEF Front, Last
<1> HIDE DEF p
<1>3. p \in {q \in DOMAIN trie \ {<<>>} : Front(q) = FileKey(id) /\ trie[q] # NoValue}
  BY <1>1, <1>2
<1> QED BY <1>2, <1>3 DEF Subkeys

-----------------------------------------------------------------------------
\* The steps, as far as the roles go.

\* The call of d goes on as before.
Alike(d) ==
  /\ call'[d].op = call[d].op
  /\ call[d].op # "none" =>
       /\ call'[d].id = call[d].id /\ call'[d].wait = call[d].wait /\ call'[d].ok = call[d].ok
       /\ call'[d].listed = call[d].listed /\ call'[d].keys = call[d].keys
       /\ call'[d].todo = call[d].todo

OnlyCall(c) == \A d \in Callers \ {c} : Alike(d)

Quiet == UNCHANGED <<requests, trie>> /\ \A d \in Callers : Alike(d)

CallBegins(c, id) ==
  /\ call[c].op = "none" /\ trie' = trie /\ OnlyCall(c) /\ id \in Ids
  /\ call'[c].id = id /\ ~ call'[c].listed /\ call'[c].todo = <<>>
  /\ \A d \in Working(id) : call[d].op = "remove" => id \in torn'

\* The requests for both halves of a role.
Pair(c, id, u, a, b) ==
  /\ a \in Requests /\ b \in Requests /\ a.from = c /\ b.from = c
  /\ a.method = b.method /\ a.method \in {"set", "delete"} /\ RoleOf(a) = RoleOf(b)
  /\ a.key = FileUserKey(id, u) /\ b.key = UserFileKey(u, id)

SetsRole(c, id, u, a, b) ==
  /\ CallBegins(c, id) /\ call'[c].op \in {"create", "member"}
  /\ Pair(c, id, u, a, b) /\ requests' = requests \o <<a, b>>

StartsRemoval(c, id) ==
  /\ CallBegins(c, id) /\ call'[c].op = "remove" /\ call'[c].wait = 1
  /\ Working(id) # {} => id \in torn'
  /\ requests' = requests \o <<GetSubkeys(c, FileKey(id))>>

StartsSharing(c, id) == CallBegins(c, id) /\ call'[c].op = "share" /\ requests' = requests

CallOver(c) ==
  /\ call[c].op # "none" /\ call[c].wait = 0
  /\ UNCHANGED <<requests, trie>> /\ OnlyCall(c)
  /\ \/ call'[c].op = "none"
     \/ /\ call[c].op = "create" /\ call'[c].op = "chunks" /\ call'[c].id = call[c].id
        /\ call'[c].listed = call[c].listed /\ call'[c].todo = call[c].todo
  /\ call[c].op = "remove" =>
       call[c].id \in torn' \/ (call[c].ok /\ call[c].listed /\ call[c].todo = <<>>)

\* A handler that makes its requests one at a time makes the next one.
Continues(c, todo) ==
  /\ call[c].op \in {"member", "remove"} /\ call[c].wait = 0 /\ trie' = trie /\ OnlyCall(c)
  /\ todo \in Seq(Requests) /\ todo # <<>> /\ Head(todo).from = c
  /\ call'[c].op = call[c].op /\ call'[c].id = call[c].id /\ call'[c].ok = call[c].ok
  /\ call'[c].wait = 1 /\ call'[c].todo = Tail(todo) /\ requests' = requests \o <<Head(todo)>>
  /\ \/ todo = call[c].todo /\ call'[c].listed = call[c].listed
     \/ /\ call[c].op = "remove" /\ call[c].ok /\ ~ call[c].listed /\ call'[c].listed
        /\ \E order \in SetToSeqs(call[c].keys) : todo = Deletions(c, call[c].id, order)

\* A call that nothing happens to goes on as before, and so does one that is only disturbed.
LEMMA StaysAlike ==
  ASSUME Typed, NEW d \in Callers,
         call'[d] = call[d] \/ (call[d] # Idle /\ call'[d] = [call[d] EXCEPT !.disturbed = TRUE])
  PROVE  Alike(d)
<1>1. CASE call'[d] = call[d]
  BY <1>1 DEF Alike
<1>2. CASE call[d] # Idle /\ call'[d] = [call[d] EXCEPT !.disturbed = TRUE]
  <2>1. call[d] \in Calls
    BY <1>2, CallOf
  <2> QED BY <1>2, <2>1 DEF Alike, Calls
<1> QED BY <1>1, <1>2

\* So do the others when one call changes.
LEMMA OthersAlike ==
  ASSUME Typed, NEW c \in Callers, NEW mine, call' = [call EXCEPT ![c] = mine]
  PROVE  OnlyCall(c) /\ call'[c] = mine
<1>1. call \in [Callers -> {Idle} \cup Calls]
  BY DEF Typed, CallsTyped
<1>2. \A d \in Callers \ {c} : call'[d] = call[d]
  BY <1>1
<1> QED BY <1>1, <1>2, StaysAlike DEF OnlyCall

\* A member operation asks for both halves of a role.
LEMMA MemberStarts ==
  ASSUME Typed, NEW c \in Callers, NEW user, NEW id \in Ids, NEW u, NEW a, NEW b,
         Pair(c, id, u, a, b), BothKeys(c, user, id, a, b)
  PROVE  SetsRole(c, id, u, a, b)
<1> DEFINE mine == [Started("member", user, id, 2) EXCEPT !.todo = <<>>]
<1>1. /\ call[c] = Idle /\ call' = [call EXCEPT ![c] = mine]
      /\ NoteTorn(mine.op, mine.id) /\ requests' = requests \o <<a, b>> /\ trie' = trie
  BY DEF BothKeys, Begin, Together, Send
<1>2. mine.op = "member" /\ mine.id = id /\ ~ mine.listed /\ mine.todo = <<>>
  BY DEF Started
<1> HIDE DEF mine
<1>3. OnlyCall(c) /\ call'[c] = mine /\ call[c].op = "none"
  BY <1>1, OthersAlike, Called
<1>4. \A d \in Working(id) : call[d].op = "remove" => id \in torn'
  BY <1>1, <1>2 DEF NoteTorn, TornBy
<1> QED BY <1>1, <1>2, <1>3, <1>4 DEF SetsRole, CallBegins

\* create_file asks for both halves of the role of the owner.
LEMMA CreateStarts ==
  ASSUME Typed, FilesKept, NEW c \in Callers, NEW user \in Users, NEW name, NEW content,
         CreateFile(c, user, name, content)
  PROVE  \E id \in Ids : \E a, b : SetsRole(c, id, user, a, b)
<1> DEFINE id == NextFileId
           disturbed == \E e \in Uploading(id) : call[e].user = user
           mine == [Started("create", user, id, 2) EXCEPT !.content = content, !.disturbed = disturbed]
           a == SetPermission(c, FileUserKey(id, user), "Owner")
           b == SetPermission(c, UserFileKey(user, id), "Owner")
<1>1. id \in Ids
  <2>1. id \in Nat /\ id < workload.maxFiles
    BY FS_CardinalityType DEF CreateFile, FilesKept, NextFileId, NextId
  <2> QED BY <2>1, WorkloadTyped DEF Ids
<1>2. /\ call[c] = Idle /\ requests' = requests \o <<a, b>> /\ trie' = trie /\ NoteTorn("create", id)
      /\ call' = [d \in Callers |-> IF d = c THEN mine
                   ELSE IF d \in Uploading(id) THEN [call[d] EXCEPT !.disturbed = TRUE] ELSE call[d]]
  BY DEF CreateFile, Send
<1>3. mine.op = "create" /\ mine.id = id /\ ~ mine.listed /\ mine.todo = <<>>
  BY DEF Started
<1>4. Pair(c, id, user, a, b)
  <2>1. a \in Requests /\ b \in Requests /\ a.from = c /\ b.from = c
    BY <1>1, RequestsTyped DEF Roles
  <2> QED BY <2>1 DEF Pair, SetPermission, RoleOf
<1> HIDE DEF id, disturbed, mine, a, b
<1>5. ASSUME NEW d \in Callers, d # c
      PROVE  Alike(d)
  <2>1. CASE d \in Uploading(id)
    <3>1. call[d] # Idle
      BY <2>1 DEF Uploading, Working
    <3>2. call'[d] = [call[d] EXCEPT !.disturbed = TRUE]
      BY <1>2, <1>5, <2>1
    <3> QED BY <3>1, <3>2, StaysAlike
  <2>2. CASE d \notin Uploading(id)
    BY <1>2, <1>5, <2>2, StaysAlike
  <2> QED BY <2>1, <2>2
<1>6. call'[c] = mine /\ call[c].op = "none"
  BY <1>2, Called
<1>7. \A d \in Working(id) : call[d].op = "remove" => id \in torn'
  BY <1>2 DEF NoteTorn, TornBy
<1>8. SetsRole(c, id, user, a, b)
  BY <1>1, <1>2, <1>3, <1>4, <1>5, <1>6, <1>7 DEF SetsRole, CallBegins, OnlyCall
<1> QED BY <1>1, <1>8

\* remove_file and share_file start.
LEMMA OthersStart ==
  ASSUME Typed, NEW c \in Callers, RemoveFile(c) \/ ShareFile(c)
  PROVE  \E id \in Ids : StartsRemoval(c, id) \/ StartsSharing(c, id)
<1>1. ASSUME NEW user, NEW id \in Ids, Begin(c, Started("remove", user, id, 1)),
             Send(<<GetSubkeys(c, FileKey(id))>>)
      PROVE  StartsRemoval(c, id)
  <2> DEFINE mine == Started("remove", user, id, 1)
  <2>1. /\ call[c] = Idle /\ call' = [call EXCEPT ![c] = mine]
        /\ NoteTorn(mine.op, mine.id) /\ trie' = trie
        /\ requests' = requests \o <<GetSubkeys(c, FileKey(id))>>
    BY <1>1 DEF Begin, Send
  <2>2. mine.op = "remove" /\ mine.id = id /\ ~ mine.listed /\ mine.todo = <<>> /\ mine.wait = 1
    BY DEF Started
  <2> HIDE DEF mine
  <2>3. OnlyCall(c) /\ call'[c] = mine /\ call[c].op = "none"
    BY <2>1, OthersAlike, Called
  <2>4. Working(id) # {} => id \in torn'
    BY <2>1, <2>2 DEF NoteTorn, TornBy
  <2> QED BY <2>1, <2>2, <2>3, <2>4 DEF StartsRemoval, CallBegins
<1>2. ASSUME NEW user, NEW id \in Ids,
             Begin(c, [Started("share", user, id, 0) EXCEPT !.links = shares[id]]),
             UNCHANGED permissionVars
      PROVE  StartsSharing(c, id)
  <2> DEFINE mine == [Started("share", user, id, 0) EXCEPT !.links = shares[id]]
  <2>1. /\ call[c] = Idle /\ call' = [call EXCEPT ![c] = mine]
        /\ NoteTorn(mine.op, mine.id) /\ trie' = trie /\ requests' = requests
    BY <1>2 DEF Begin, permissionVars
  <2>2. mine.op = "share" /\ mine.id = id /\ ~ mine.listed /\ mine.todo = <<>>
    BY DEF Started
  <2> HIDE DEF mine
  <2>3. OnlyCall(c) /\ call'[c] = mine /\ call[c].op = "none"
    BY <2>1, OthersAlike, Called
  <2>4. \A d \in Working(id) : call[d].op = "remove" => id \in torn'
    BY <2>1, <2>2 DEF NoteTorn, TornBy
  <2> QED BY <2>1, <2>2, <2>3, <2>4 DEF StartsSharing, CallBegins
<1> QED BY <1>1, <1>2 DEF RemoveFile, ShareFile

\* The handlers that return.
LEMMA CallsEnd ==
  ASSUME Typed, NEW c \in Callers,
         UploadReturns(c) \/ FileCreated(c) \/ RemovalFails(c) \/ RemovalDone(c) \/ LinkMade(c)
  PROVE  CallOver(c)
<1>1. ASSUME call' = [call EXCEPT ![c] = Idle]
      PROVE  OnlyCall(c) /\ call'[c].op = "none"
  BY <1>1, OthersAlike, Called
<1>2. CASE UploadReturns(c)
  BY <1>1, <1>2 DEF UploadReturns, CallOver, HasAnswers, permissionVars
<1>3. CASE FileCreated(c)
  <2>1. /\ call[c].op = "create" /\ call[c].wait = 0 /\ UNCHANGED <<requests, trie>>
        /\ call' = [call EXCEPT ![c] = PutChunks(c)] \/ call' = [call EXCEPT ![c] = Idle]
    BY <1>3 DEF FileCreated, HasAnswers, permissionVars
  <2>2. CASE call' = [call EXCEPT ![c] = PutChunks(c)]
    <3>1. call[c] \in Calls
      BY <2>1, CallOf
    <3>2. OnlyCall(c) /\ call'[c] = PutChunks(c)
      BY <2>2, OthersAlike
    <3>3. /\ PutChunks(c).op = "chunks" /\ PutChunks(c).id = call[c].id
          /\ PutChunks(c).listed = call[c].listed /\ PutChunks(c).todo = call[c].todo
      BY <3>1 DEF PutChunks, Calls
    <3> QED BY <2>1, <3>2, <3>3 DEF CallOver
  <2>3. CASE call' = [call EXCEPT ![c] = Idle]
    BY <1>1, <2>1, <2>3 DEF CallOver
  <2> QED BY <2>1, <2>2, <2>3
<1>4. CASE RemovalFails(c)
  BY <1>1, <1>4 DEF RemovalFails, CallOver, HasAnswers, permissionVars
<1>5. CASE RemovalDone(c)
  <2>1. /\ call[c].op = "remove" /\ call[c].wait = 0 /\ UNCHANGED <<requests, trie>>
        /\ call[c].ok /\ call[c].listed /\ call[c].todo = <<>>
        /\ call' = [d \in Callers |-> IF d = c THEN Idle
                     ELSE IF d \in Working(call[c].id) THEN [call[d] EXCEPT !.disturbed = TRUE] ELSE call[d]]
    BY <1>5 DEF RemovalDone, HasAnswers, permissionVars
  <2>2. ASSUME NEW d \in Callers, d # c
        PROVE  Alike(d)
    <3>1. CASE d \in Working(call[c].id)
      <4>1. call[d] # Idle
        BY <3>1 DEF Working
      <4>2. call'[d] = [call[d] EXCEPT !.disturbed = TRUE]
        BY <2>1, <2>2, <3>1
      <4> QED BY <4>1, <4>2, StaysAlike
    <3>2. CASE d \notin Working(call[c].id)
      BY <2>1, <2>2, <3>2, StaysAlike
    <3> QED BY <3>1, <3>2
  <2>3. call'[c].op = "none"
    BY <2>1, Called
  <2> QED BY <2>1, <2>2, <2>3 DEF CallOver, OnlyCall
<1>6. CASE LinkMade(c)
  BY <1>1, <1>6 DEF LinkMade, CallOver, HasAnswers, permissionVars
<1> QED BY <1>2, <1>3, <1>4, <1>5, <1>6

\* The handlers that make their requests one at a time.
LEMMA SendNextContinues ==
  ASSUME Typed, NEW c \in Callers, call[c].op \in {"member", "remove"}, call[c].wait = 0,
         call[c].todo # <<>>, SendNext(c, call[c].todo)
  PROVE  Continues(c, call[c].todo)
<1> DEFINE mine == [call[c] EXCEPT !.wait = 1, !.todo = Tail(call[c].todo)]
<1>1. call[c] \in Calls /\ call \in [Callers -> {Idle} \cup Calls]
  BY CallOf DEF Typed, CallsTyped
<1>2. call' = [call EXCEPT ![c] = mine]
  BY <1>1 DEF SendNext
<1>3. /\ mine.op = call[c].op /\ mine.id = call[c].id /\ mine.ok = call[c].ok
      /\ mine.listed = call[c].listed /\ mine.wait = 1 /\ mine.todo = Tail(call[c].todo)
  BY <1>1 DEF Calls
<1> HIDE DEF mine
<1>4. OnlyCall(c) /\ call'[c] = mine
  BY <1>2, OthersAlike
<1>5. call[c].todo \in Seq(Requests)
  BY <1>1 DEF Calls
<1>6. Head(call[c].todo).from = c
  <2>1. Head(call[c].todo) = call[c].todo[1] /\ 1 \in 1 .. Len(call[c].todo)
    BY <1>5
  <2> QED BY <2>1 DEF Typed, Owned
<1>7. requests' = requests \o <<Head(call[c].todo)>> /\ trie' = trie
  BY DEF SendNext, Send
<1> QED BY <1>3, <1>4, <1>5, <1>6, <1>7 DEF Continues

\* A removal continues with the deletions it listed.
LEMMA RemovalGoesOn ==
  ASSUME Typed, NEW c \in Callers, RemovalContinues(c)
  PROVE  \E todo : Continues(c, todo)
<1>1. call[c].op = "remove" /\ call[c].wait = 0 /\ call[c].ok
  BY DEF RemovalContinues, HasAnswers
<1>2. ASSUME call[c].todo # <<>>, SendNext(c, call[c].todo)
      PROVE  \E todo : Continues(c, todo)
  <2>1. Continues(c, call[c].todo)
    BY <1>1, <1>2, SendNextContinues
  <2> QED BY <2>1
<1>3. ASSUME ~ call[c].listed, NEW order \in SetToSeqs(call[c].keys),
             Send(<<Head(Deletions(c, call[c].id, order))>>),
             call' = [call EXCEPT ![c].wait = 1, ![c].todo = Tail(Deletions(c, call[c].id, order)),
                                  ![c].listed = TRUE]
      PROVE  \E todo : Continues(c, todo)
  <2> DEFINE todo == Deletions(c, call[c].id, order)
             mine == [call[c] EXCEPT !.wait = 1, !.todo = Tail(todo), !.listed = TRUE]
  <2>1. /\ todo \in Seq(Requests) /\ Len(todo) \in Nat \ {0}
        /\ \A i \in 1 .. Len(todo) : todo[i].from = c
    <3>1. call[c].op # "none"
      BY <1>1
    <3>2. /\ Len(order) \in Nat /\ todo \in Seq(Requests) /\ Len(todo) = Len(order) + 1
          /\ \A i \in 1 .. Len(order) + 1 : todo[i].from = c
      BY <3>1, DeletionsTyped
    <3> QED BY <3>2
  <2>2. requests' = requests \o <<Head(todo)>> /\ trie' = trie
    BY <1>3 DEF Send
  <2>3. call[c] \in Calls /\ call \in [Callers -> {Idle} \cup Calls]
    BY <1>1, CallOf DEF Typed, CallsTyped
  <2>4. call' = [call EXCEPT ![c] = mine]
    BY <1>3, <2>3
  <2>5. todo = Deletions(c, call[c].id, order)
    OBVIOUS
  <2> HIDE DEF todo
  <2>6. todo # <<>> /\ Head(todo) = todo[1] /\ 1 \in 1 .. Len(todo)
    BY <2>1
  <2>7. Head(todo).from = c
    BY <2>1, <2>6
  <2>8. /\ mine.op = call[c].op /\ mine.id = call[c].id /\ mine.ok = call[c].ok
        /\ mine.listed = TRUE /\ mine.wait = 1 /\ mine.todo = Tail(todo)
    BY <2>3 DEF Calls
  <2> HIDE DEF mine
  <2>9. OnlyCall(c) /\ call'[c] = mine
    BY <2>4, OthersAlike
  <2>10. Continues(c, todo)
    BY <1>1, <1>3, <2>1, <2>2, <2>5, <2>6, <2>7, <2>8, <2>9 DEF Continues
  <2> QED BY <2>10
<1> QED BY <1>2, <1>3 DEF RemovalContinues

\* A member operation returns, or continues.
LEMMA MemberGoesOn ==
  ASSUME Typed, NEW c \in Callers, MemberDone(c)
  PROVE  CallOver(c) \/ \E todo : Continues(c, todo)
<1>1. call[c].op = "member" /\ call[c].wait = 0
  BY DEF MemberDone, HasAnswers
<1>2. ASSUME call[c].todo # <<>>, SendNext(c, call[c].todo)
      PROVE  \E todo : Continues(c, todo)
  <2>1. Continues(c, call[c].todo)
    BY <1>1, <1>2, SendNextContinues
  <2> QED BY <2>1
<1>3. ASSUME call' = [call EXCEPT ![c] = Idle], UNCHANGED permissionVars
      PROVE  CallOver(c)
  <2>1. OnlyCall(c) /\ call'[c].op = "none"
    BY <1>3, OthersAlike, Called
  <2> QED BY <1>1, <1>3, <2>1 DEF CallOver, permissionVars
<1> QED BY <1>2, <1>3 DEF MemberDone

\* The rest does not concern the roles.
LEMMA RestIsQuiet ==
  ASSUME Typed,
         \/ \E c \in Callers : ChunkCall(c)
         \/ UseLink \/ RemoveLink \/ TimePasses \/ RenameFile \/ Upgrade \/ UNCHANGED vars
  PROVE  Quiet
<1>1. ASSUME NEW c \in Callers, ChunkCall(c)
      PROVE  Quiet
  <2>1. PICK n, threw :
          /\ call[c] # Idle /\ UNCHANGED <<requests, trie>>
          /\ call' = [call EXCEPT ![c].left = @ \ {n}, ![c].failed = @ \/ threw]
    BY <1>1 DEF ChunkCall, ChunkDone, permissionVars
  <2> DEFINE mine == [call[c] EXCEPT !.left = @ \ {n}, !.failed = @ \/ threw]
  <2>2. call[c] \in Calls /\ call \in [Callers -> {Idle} \cup Calls]
    BY <2>1, CallOf DEF Typed, CallsTyped
  <2>3. call' = [call EXCEPT ![c] = mine]
    BY <2>1, <2>2
  <2>4. /\ mine.op = call[c].op /\ mine.id = call[c].id /\ mine.ok = call[c].ok
        /\ mine.listed = call[c].listed /\ mine.wait = call[c].wait /\ mine.todo = call[c].todo
        /\ mine.keys = call[c].keys
    BY <2>2 DEF Calls
  <2> HIDE DEF mine
  <2>5. OnlyCall(c) /\ call'[c] = mine
    BY <2>3, OthersAlike
  <2> QED BY <2>1, <2>4, <2>5 DEF Quiet, OnlyCall, Alike
<1>2. ASSUME UNCHANGED <<call, requests, trie>>
      PROVE  Quiet
  BY <1>2 DEF Quiet, Alike
<1> QED BY <1>1, <1>2 DEF UseLink, RemoveLink, TimePasses, RenameFile, Upgrade, vars, permissionVars

\* Every step is one of these.
LEMMA RoleSteps ==
  ASSUME Typed, FilesKept, [AnyStep]_vars
  PROVE  \/ Quiet
         \/ \E c \in Callers :
              \/ \E id \in Ids, u \in Users : \E a, b : SetsRole(c, id, u, a, b)
              \/ \E id \in Ids : StartsRemoval(c, id) \/ StartsSharing(c, id)
              \/ CallOver(c)
              \/ \E todo : Continues(c, todo)
         \/ Answered \/ Rejected
<1>1. ASSUME NEW c \in Callers, NEW user \in Users, NEW name, NEW content,
             CreateFile(c, user, name, content)
      PROVE  \E id \in Ids, u \in Users : \E a, b : SetsRole(c, id, u, a, b)
  BY <1>1, WorkloadTyped, CreateStarts
<1>2. ASSUME NEW c \in Callers, AddMember(c)
      PROVE  \E id \in Ids, u \in Users : \E a, b : SetsRole(c, id, u, a, b)
  <2>1. PICK user \in workload.users, member \in workload.users, id \in Ids, role \in {"Editor", "Viewer"} :
          BothKeys(c, user, id, SetPermission(c, FileUserKey(id, member), role),
                                SetPermission(c, UserFileKey(member, id), role))
    BY <1>2 DEF AddMember
  <2> DEFINE a == SetPermission(c, FileUserKey(id, member), role)
             b == SetPermission(c, UserFileKey(member, id), role)
  <2>2. member \in Users /\ role \in Roles
    BY WorkloadTyped DEF Roles
  <2>3. a \in Requests /\ b \in Requests /\ a.from = c /\ b.from = c
    BY <2>2, RequestsTyped
  <2>4. Pair(c, id, member, a, b)
    BY <2>3 DEF Pair, SetPermission, RoleOf
  <2> HIDE DEF a, b
  <2>5. SetsRole(c, id, member, a, b)
    BY <2>1, <2>4, MemberStarts DEF a, b
  <2> QED BY <2>2, <2>5
<1>3. ASSUME NEW c \in Callers, RemoveMember(c)
      PROVE  \E id \in Ids, u \in Users : \E a, b : SetsRole(c, id, u, a, b)
  <2>1. PICK user \in workload.users, member \in workload.users, id \in Ids :
          BothKeys(c, user, id, DeletePermission(c, FileUserKey(id, member)),
                                DeletePermission(c, UserFileKey(member, id)))
    BY <1>3 DEF RemoveMember
  <2> DEFINE a == DeletePermission(c, FileUserKey(id, member))
             b == DeletePermission(c, UserFileKey(member, id))
  <2>2. member \in Users
    BY WorkloadTyped
  <2>3. a \in Requests /\ b \in Requests /\ a.from = c /\ b.from = c
    BY <2>2, RequestsTyped DEF Roles
  <2>4. Pair(c, id, member, a, b)
    BY <2>3 DEF Pair, DeletePermission, RoleOf
  <2> HIDE DEF a, b
  <2>5. SetsRole(c, id, member, a, b)
    BY <2>1, <2>4, MemberStarts DEF a, b
  <2> QED BY <2>2, <2>5
<1> QED BY <1>1, <1>2, <1>3, OthersStart, CallsEnd, RemovalGoesOn, MemberGoesOn, RestIsQuiet DEF AnyStep

\* An answer is read by the call that asked.
LEMMA AnsweredCall ==
  ASSUME Typed, Answered
  PROVE  LET r == Head(requests)
             c == r.from
         IN  /\ requests # <<>> /\ requests' = Tail(requests) /\ Handle(r) /\ OnlyCall(c)
             /\ r \in Requests /\ c \in Callers /\ call[c].op # "none"
             /\ call'[c].op = call[c].op /\ call'[c].id = call[c].id
             /\ call'[c].listed = call[c].listed /\ call'[c].todo = call[c].todo
             /\ call'[c].ok => call[c].ok
             /\ call'[c].keys = AnswerTo(r).keys
<1> DEFINE r == Head(requests)
           c == r.from
           answer == AnswerTo(r)
           mine == [call[c] EXCEPT !.wait = @ - 1, !.ok = @ /\ answer.ok, !.keys = answer.keys]
<1>1. /\ requests # <<>> /\ requests' = Tail(requests) /\ Handle(r)
      /\ call' = [call EXCEPT ![c].wait = @ - 1, ![c].ok = @ /\ answer.ok, ![c].keys = answer.keys]
  BY DEF Answered, Handle
<1>2. r \in Requests /\ c \in Callers /\ call[c] \in Calls
  BY <1>1, RequestOfCall
<1>3. call' = [call EXCEPT ![c] = mine]
  <2>1. call \in [Callers -> {Idle} \cup Calls]
    BY DEF Typed, CallsTyped
  <2> QED BY <1>1, <1>2, <2>1
<1>4. /\ mine.op = call[c].op /\ mine.id = call[c].id /\ mine.listed = call[c].listed
      /\ mine.todo = call[c].todo /\ (mine.ok => call[c].ok) /\ mine.keys = answer.keys
  BY <1>2 DEF Calls
<1>5. call[c].op # "none"
  BY <1>2, Called
<1> HIDE DEF mine, c, r, answer
<1>6. OnlyCall(c) /\ call'[c] = mine
  BY <1>2, <1>3, OthersAlike
<1> QED BY <1>1, <1>2, <1>4, <1>5, <1>6 DEF c, r, answer

\* A rejection tears the roles of the file the call was about.
LEMMA RejectedCall ==
  ASSUME Typed, Rejected
  PROVE  LET r == Head(requests)
             c == r.from
         IN  /\ requests # <<>> /\ requests' = Tail(requests) /\ trie' = trie /\ OnlyCall(c)
             /\ r \in Requests /\ c \in Callers /\ call[c].op # "none"
             /\ call'[c].op = call[c].op /\ call'[c].id = call[c].id
             /\ call'[c].listed = call[c].listed /\ call'[c].todo = call[c].todo
             /\ call[c].id \in torn'
<1> DEFINE r == Head(requests)
           c == r.from
           mine == [call[c] EXCEPT !.wait = @ - 1, !.ok = FALSE]
<1>1. /\ requests # <<>> /\ requests' = Tail(requests) /\ trie' = trie /\ call[c].id \in torn'
      /\ call' = [call EXCEPT ![c].wait = @ - 1, ![c].ok = FALSE]
  BY DEF Rejected, Reject
<1>2. r \in Requests /\ c \in Callers /\ call[c] \in Calls
  BY <1>1, RequestOfCall
<1>3. call' = [call EXCEPT ![c] = mine]
  <2>1. call \in [Callers -> {Idle} \cup Calls]
    BY DEF Typed, CallsTyped
  <2> QED BY <1>1, <1>2, <2>1
<1>4. /\ mine.op = call[c].op /\ mine.id = call[c].id /\ mine.listed = call[c].listed
      /\ mine.todo = call[c].todo
  BY <1>2 DEF Calls
<1>5. call[c].op # "none"
  BY <1>2, Called
<1> HIDE DEF mine, c, r
<1>6. OnlyCall(c) /\ call'[c] = mine
  BY <1>2, <1>3, OthersAlike
<1> QED BY <1>1, <1>2, <1>4, <1>5, <1>6 DEF c, r

-----------------------------------------------------------------------------
\* What is asked for.

\* A caller that waits for nothing has no requests under way.
LEMMA NoneFrom ==
  ASSUME Typed, NEW c \in Callers, call[c].op = "none" \/ call[c].wait = 0
  PROVE  From(requests, c) = {} /\ \A i \in 1 .. Len(requests) : requests[i].from # c
<1>1. call[c] = Idle \/ call[c].wait = 0
  BY CallOf
<1> QED BY <1>1, NothingAwaited DEF From

\* A request stays what its call may ask for while the call goes on.
LEMMA NamedOn ==
  ASSUME workload' = workload, NEW r, Named(r),
         call'[r.from].op = call[r.from].op, call'[r.from].id = call[r.from].id,
         call'[r.from].listed = call[r.from].listed
  PROVE  Named(r)'
<1>1. Parts' = Parts
  BY SameSets
<1> QED BY <1>1 DEF Named, Deletes

\* So do the requests a handler has still to make.
LEMMA TodoOn ==
  ASSUME workload' = workload, NEW c, TodoNamed(c),
         \/ call'[c].op = "none"
         \/ /\ call[c].op # "none" /\ call'[c].id = call[c].id
            /\ call'[c].listed = call[c].listed /\ call'[c].todo = call[c].todo
            /\ call'[c].listed => call'[c].op = "remove"
  PROVE  TodoNamed(c)'
<1>1. Parts' = Parts
  BY SameSets
<1> QED BY <1>1 DEF TodoNamed, Deletes

\* When one call changes the others go on.
LEMMA OthersNamed ==
  ASSUME Typed, RequestsNamed, workload' = workload, NEW c, OnlyCall(c)
  PROVE  /\ \A i \in 1 .. Len(requests) : \A r : r = requests[i] /\ r.from # c => Named(r)'
         /\ \A d \in Callers \ {c} : TodoNamed(d)'
<1>1. ASSUME NEW i \in 1 .. Len(requests), NEW r, r = requests[i], r.from # c
      PROVE  Named(r)'
  <2>1. requests \in Seq(Requests)
    BY DEF Typed, CallsTyped
  <2>2. r \in Requests /\ Named(r)
    BY <1>1, <2>1 DEF RequestsNamed
  <2>3. r.from \in Callers \ {c} /\ call[r.from].op # "none"
    BY <1>1, <2>2 DEF Requests, Named
  <2> QED BY <2>2, <2>3, NamedOn DEF OnlyCall, Alike
<1>2. ASSUME NEW d \in Callers \ {c}
      PROVE  TodoNamed(d)'
  <2>1. Alike(d) /\ TodoNamed(d)
    BY DEF OnlyCall, RequestsNamed
  <2> QED BY <2>1, TodoOn DEF Alike, TodoNamed
<1> QED BY <1>1, <1>2

\* Where the requests are after one was sent.
LEMMA Appended ==
  ASSUME NEW rs \in Seq(Requests), NEW a \in Requests
  PROVE  /\ Len(rs) \in Nat /\ Len(rs \o <<a>>) = Len(rs) + 1
         /\ \A i \in 1 .. Len(rs) : (rs \o <<a>>)[i] = rs[i]
         /\ (rs \o <<a>>)[Len(rs) + 1] = a
OBVIOUS

\* And after two were.
LEMMA AppendedTwo ==
  ASSUME NEW rs \in Seq(Requests), NEW a \in Requests, NEW b \in Requests
  PROVE  /\ Len(rs) \in Nat /\ Len(rs \o <<a, b>>) = Len(rs) + 2
         /\ \A i \in 1 .. Len(rs) : (rs \o <<a, b>>)[i] = rs[i]
         /\ (rs \o <<a, b>>)[Len(rs) + 1] = a /\ (rs \o <<a, b>>)[Len(rs) + 2] = b
OBVIOUS

\* The requests a removal lists are deletions of what is its own.
LEMMA ListedDelete ==
  ASSUME Typed, NEW c \in Callers, call[c].op # "none", NEW order \in SetToSeqs(call[c].keys)
  PROVE  LET todo == Deletions(c, call[c].id, order)
         IN  \A i \in 1 .. Len(todo) : Deletes(todo[i], call[c].id)
<1> DEFINE todo == Deletions(c, call[c].id, order)
           id == call[c].id
           n == Len(order)
<1>1. /\ n \in Nat /\ order \in [1 .. n -> call[c].keys] /\ Len(todo) = n + 1
      /\ \A i \in 1 .. n : todo[i] = DeletePermission(c, <<order[i], <<"file", id>>>>)
      /\ todo[n + 1] = DeletePermission(c, FileKey(id))
  BY DeletionsTyped
<1>2. call[c].keys \subseteq Parts
  BY CallOf DEF Calls, PartSets
<1> HIDE DEF todo, n, id
<1>3. ASSUME NEW i \in 1 .. n
      PROVE  Deletes(todo[i], id)
  <2>1. order[i] \in Parts
    BY <1>1, <1>2
  <2>2. todo[i].method = "delete" /\ todo[i].key = <<order[i], <<"file", id>>>>
    <3>1. \A key : DeletePermission(c, key).method = "delete" /\ DeletePermission(c, key).key = key
      BY DEF DeletePermission
    <3> QED BY <1>1, <3>1
  <2> QED BY <2>1, <2>2 DEF Deletes
<1>4. Deletes(todo[n + 1], id)
  BY <1>1 DEF Deletes, DeletePermission
<1>5. \A i \in 1 .. n + 1 : i \in 1 .. n \/ i = n + 1
  BY <1>1
<1> QED BY <1>1, <1>3, <1>4, <1>5 DEF todo, id

\* The members of a tail are members.
LEMMA InTail ==
  ASSUME NEW S, NEW s \in Seq(S), s # <<>>
  PROVE  /\ Head(s) = s[1] /\ 1 \in 1 .. Len(s) /\ Len(s) \in Nat \ {0} /\ Len(Tail(s)) = Len(s) - 1
         /\ \A i \in 1 .. Len(Tail(s)) : i + 1 \in 1 .. Len(s) /\ Tail(s)[i] = s[i + 1]
OBVIOUS

\* What is asked for stays what the calls may ask for.
LEMMA StayNamed ==
  ASSUME Typed, FilesKept, RequestsNamed, [AnyStep]_vars
  PROVE  RequestsNamed'
<1>0. /\ workload' = workload /\ requests \in Seq(Requests) /\ Parts' = Parts
      /\ \A c \in Callers : TodoNamed(c)
  BY SameWorkload, SameSets DEF Typed, CallsTyped, RequestsNamed
<1>1. ASSUME NEW c \in Callers, OnlyCall(c), From(requests, c) = {}
      PROVE  /\ \A i \in 1 .. Len(requests) : \A r : r = requests[i] => Named(r)'
             /\ \A d \in Callers \ {c} : TodoNamed(d)'
  <2>1. \A i \in 1 .. Len(requests) : requests[i].from # c
    BY <1>1 DEF From
  <2> QED BY <1>0, <1>1, <2>1, OthersNamed
<1>2. ASSUME Quiet
      PROVE  RequestsNamed'
  <2>1. ASSUME NEW c \in Callers
        PROVE  TodoNamed(c)'
    BY <1>0, <1>2, TodoOn DEF Quiet, Alike, TodoNamed
  <2>2. ASSUME NEW i \in 1 .. Len(requests), NEW r, r = requests[i]
        PROVE  Named(r)'
    <3>1. r \in Requests /\ Named(r)
      BY <1>0, <2>2 DEF RequestsNamed
    <3>2. r.from \in Callers /\ call[r.from].op # "none"
      BY <3>1 DEF Requests, Named
    <3> QED BY <1>0, <1>2, <3>1, <3>2, NamedOn DEF Quiet, Alike
  <2> QED BY <1>2, <2>1, <2>2 DEF Quiet, RequestsNamed
<1>3. ASSUME NEW c \in Callers, NEW id \in Ids, CallBegins(c, id), From(requests, c) = {}
      PROVE  TodoNamed(c)'
  BY <1>3 DEF CallBegins, TodoNamed
<1>4. ASSUME NEW c \in Callers, NEW id \in Ids, NEW u \in Users, NEW a, NEW b, SetsRole(c, id, u, a, b)
      PROVE  RequestsNamed'
  <2>1. From(requests, c) = {} /\ OnlyCall(c) /\ CallBegins(c, id)
    BY <1>4, NoneFrom DEF SetsRole, CallBegins
  <2>2. a \in Requests /\ b \in Requests /\ requests' = requests \o <<a, b>>
    BY <1>4 DEF SetsRole, Pair
  <2>3. Named(a)' /\ Named(b)'
    BY <1>4 DEF SetsRole, Pair, CallBegins, Named
  <2>4. TodoNamed(c)'
    BY <1>3, <2>1
  <2>5. /\ Len(requests) \in Nat /\ Len(requests') = Len(requests) + 2
        /\ \A i \in 1 .. Len(requests) : requests'[i] = requests[i]
        /\ requests'[Len(requests) + 1] = a /\ requests'[Len(requests) + 2] = b
    BY <1>0, <2>2, AppendedTwo
  <2>6. \A i \in 1 .. Len(requests') :
          i \in 1 .. Len(requests) \/ i = Len(requests) + 1 \/ i = Len(requests) + 2
    BY <2>5
  <2>7. ASSUME NEW i \in 1 .. Len(requests'), NEW r, r = requests'[i]
        PROVE  Named(r)'
    BY <1>1, <2>1, <2>3, <2>5, <2>6, <2>7
  <2> QED BY <1>1, <2>1, <2>4, <2>7 DEF RequestsNamed
<1>5. ASSUME NEW c \in Callers, OnlyCall(c), From(requests, c) = {}, TodoNamed(c)',
             NEW a \in Requests, Named(a)', requests' = requests \o <<a>>
      PROVE  RequestsNamed'
  <2>1. /\ Len(requests) \in Nat /\ Len(requests') = Len(requests) + 1
        /\ \A i \in 1 .. Len(requests) : requests'[i] = requests[i]
        /\ requests'[Len(requests) + 1] = a
    BY <1>0, <1>5, Appended
  <2>2. \A i \in 1 .. Len(requests') : i \in 1 .. Len(requests) \/ i = Len(requests) + 1
    BY <2>1
  <2>3. ASSUME NEW i \in 1 .. Len(requests'), NEW r, r = requests'[i]
        PROVE  Named(r)'
    BY <1>1, <1>5, <2>1, <2>2, <2>3
  <2> QED BY <1>1, <1>5, <2>3 DEF RequestsNamed
<1>6. ASSUME NEW c \in Callers, NEW id \in Ids, StartsRemoval(c, id)
      PROVE  RequestsNamed'
  <2> DEFINE a == GetSubkeys(c, FileKey(id))
  <2>1. From(requests, c) = {} /\ OnlyCall(c) /\ CallBegins(c, id) /\ requests' = requests \o <<a>>
    BY <1>6, NoneFrom DEF StartsRemoval, CallBegins
  <2>2. a \in Requests
    <3>1. <<"file", id>> \in Parts
      BY DEF Parts
    <3>2. FileKey(id) \in Keys
      BY <3>1 DEF FileKey, Keys
    <3> QED BY <3>2 DEF GetSubkeys, Requests
  <2>3. Named(a)'
    BY <1>6 DEF StartsRemoval, CallBegins, Named, GetSubkeys
  <2> HIDE DEF a
  <2> QED BY <1>3, <1>5, <2>1, <2>2, <2>3
<1>7. ASSUME NEW c \in Callers, OnlyCall(c), From(requests, c) = {}, TodoNamed(c)', requests' = requests
      PROVE  RequestsNamed'
  <2>1. ASSUME NEW i \in 1 .. Len(requests'), NEW r, r = requests'[i]
        PROVE  Named(r)'
    BY <1>1, <1>7, <2>1
  <2> QED BY <1>1, <1>7, <2>1 DEF RequestsNamed
<1>8. ASSUME NEW c \in Callers, NEW id \in Ids, StartsSharing(c, id)
      PROVE  RequestsNamed'
  <2>1. From(requests, c) = {} /\ OnlyCall(c) /\ CallBegins(c, id) /\ requests' = requests
    BY <1>8, NoneFrom DEF StartsSharing, CallBegins
  <2> QED BY <1>3, <1>7, <2>1
<1>9. ASSUME NEW c \in Callers, CallOver(c)
      PROVE  RequestsNamed'
  <2>1. From(requests, c) = {} /\ OnlyCall(c) /\ requests' = requests
    BY <1>9, NoneFrom DEF CallOver
  <2>2. TodoNamed(c)'
    <3>1. CASE call'[c].op = "none"
      BY <1>0, <3>1, TodoOn
    <3>2. CASE call'[c].op # "none"
      <4>1. /\ call[c].op = "create" /\ call'[c].id = call[c].id
            /\ call'[c].listed = call[c].listed /\ call'[c].todo = call[c].todo
        BY <1>9, <3>2 DEF CallOver
      <4>2. ~ call[c].listed
        BY <1>0, <4>1 DEF TodoNamed
      <4> QED BY <1>0, <4>1, <4>2, TodoOn
    <3> QED BY <3>1, <3>2
  <2> QED BY <1>7, <2>1, <2>2
<1>10. ASSUME NEW c \in Callers, NEW todo, Continues(c, todo)
       PROVE  RequestsNamed'
  <2> DEFINE id == call[c].id
  <2>1. /\ From(requests, c) = {} /\ OnlyCall(c) /\ todo \in Seq(Requests) /\ todo # <<>>
        /\ call[c].op # "none" /\ call'[c].op = call[c].op /\ call'[c].id = id
        /\ call'[c].todo = Tail(todo) /\ requests' = requests \o <<Head(todo)>> /\ Head(todo).from = c
    BY <1>10, NoneFrom DEF Continues
  <2>2. /\ call[c].op = "remove" /\ call'[c].listed
        /\ \A i \in 1 .. Len(todo) : Deletes(todo[i], id)
    <3>1. CASE todo = call[c].todo /\ call'[c].listed = call[c].listed
      BY <1>0, <2>1, <3>1 DEF TodoNamed
    <3>2. CASE call[c].op = "remove" /\ call'[c].listed
               /\ \E order \in SetToSeqs(call[c].keys) : todo = Deletions(c, id, order)
      BY <2>1, <3>2, ListedDelete
    <3> QED BY <1>10, <3>1, <3>2 DEF Continues
  <2>3. /\ Head(todo) = todo[1] /\ 1 \in 1 .. Len(todo) /\ Head(todo) \in Requests
        /\ \A i \in 1 .. Len(Tail(todo)) : i + 1 \in 1 .. Len(todo) /\ Tail(todo)[i] = todo[i + 1]
    BY <2>1, InTail
  <2>4. TodoNamed(c)'
    <3>1. \A i \in 1 .. Len(call'[c].todo) : Deletes(call'[c].todo[i], call'[c].id)
      BY <2>1, <2>2, <2>3
    <3> QED BY <1>0, <2>1, <2>2, <3>1 DEF TodoNamed, Deletes
  <2>5. ASSUME NEW a, a = Head(todo)
        PROVE  Named(a)'
    <3>1. Deletes(a, id) /\ a.from = c
      BY <2>1, <2>2, <2>3, <2>5
    <3> QED BY <1>0, <2>1, <2>2, <3>1 DEF Named, Deletes
  <2> QED BY <1>5, <2>1, <2>3, <2>4, <2>5
<1>11. ASSUME NEW c \in Callers, OnlyCall(c), requests # <<>>, requests' = Tail(requests),
              call[c].op # "none", call'[c].op = call[c].op, call'[c].id = call[c].id,
              call'[c].listed = call[c].listed, call'[c].todo = call[c].todo
       PROVE  RequestsNamed'
  <2>1. TodoNamed(c)'
    BY <1>0, <1>11, TodoOn DEF TodoNamed
  <2>2. ASSUME NEW i \in 1 .. Len(requests'), NEW r, r = requests'[i]
        PROVE  Named(r)'
    <3>1. i + 1 \in 1 .. Len(requests) /\ r = requests[i + 1]
      BY <1>0, <1>11, <2>2, InTail
    <3>2. CASE r.from # c
      BY <1>0, <1>11, <3>1, <3>2, OthersNamed
    <3>3. CASE r.from = c
      <4>1. Named(r)
        BY <3>1 DEF RequestsNamed
      <4> QED BY <1>0, <1>11, <3>3, <4>1, NamedOn
    <3> QED BY <3>2, <3>3
  <2>3. \A d \in Callers \ {c} : TodoNamed(d)'
    BY <1>0, <1>11, OthersNamed
  <2> QED BY <2>1, <2>2, <2>3 DEF RequestsNamed
<1>12. ASSUME Answered PROVE RequestsNamed'
  BY <1>11, <1>12, AnsweredCall
<1>13. ASSUME Rejected PROVE RequestsNamed'
  BY <1>11, <1>13, RejectedCall
<1> QED BY <1>2, <1>4, <1>6, <1>8, <1>9, <1>10, <1>12, <1>13, RoleSteps

-----------------------------------------------------------------------------
\* Both halves of a role.

\* Requests about other roles do not change what is known of one.
LEMMA HalvesSentOne ==
  ASSUME Typed, NEW id, NEW u, Halves(id, u), trie' = trie,
         NEW a \in Requests, requests' = requests \o <<a>>,
         a.key # FileUserKey(id, u), a.key # UserFileKey(u, id)
  PROVE  Halves(id, u)'
<1>1. requests \in Seq(Requests)
  BY DEF Typed, CallsTyped
<1>2. /\ Len(requests) \in Nat /\ Len(requests') = Len(requests) + 1
      /\ \A i \in 1 .. Len(requests) : requests'[i] = requests[i]
      /\ requests'[Len(requests) + 1] = a
  BY <1>1, Appended
<1>3. \A i \in 1 .. Len(requests') : i \in 1 .. Len(requests) \/ i = Len(requests) + 1
  BY <1>2
<1>4. \A i \in 1 .. Len(requests) : i \in 1 .. Len(requests') /\ (i # 1 => i - 1 \in 1 .. Len(requests))
  BY <1>2
<1>5. requests # <<>> => 1 \in 1 .. Len(requests)
  BY <1>1
<1>6. requests' # <<>>
  BY <1>1
<1> DEFINE first == FileUserKey(id, u)
           second == UserFileKey(u, id)
<1> HIDE DEF first, second
<1>7. a.key # first /\ a.key # second
  BY DEF first, second
<1>8. /\ \A i \in 1 .. Len(requests) : requests[i].key = first =>
           /\ i + 1 \in 1 .. Len(requests)
           /\ requests[i + 1].key = second /\ RoleOf(requests[i + 1]) = RoleOf(requests[i])
      /\ \A i \in 1 .. Len(requests) : requests[i].key = second =>
           IF i = 1 THEN Get(trie, first) = RoleOf(requests[i]) ELSE requests[i - 1].key = first
      /\ (requests # <<>> /\ requests[1].key = second) \/ Get(trie, first) = Get(trie, second)
  BY DEF Halves, first, second
<1>9. \A i \in 1 .. Len(requests') : requests'[i].key = first =>
        /\ i + 1 \in 1 .. Len(requests')
        /\ requests'[i + 1].key = second /\ RoleOf(requests'[i + 1]) = RoleOf(requests'[i])
  BY <1>2, <1>3, <1>4, <1>7, <1>8
<1>10. \A i \in 1 .. Len(requests') : requests'[i].key = second =>
         IF i = 1 THEN Get(trie, first) = RoleOf(requests'[i]) ELSE requests'[i - 1].key = first
  BY <1>2, <1>3, <1>4, <1>7, <1>8
<1>11. (requests' # <<>> /\ requests'[1].key = second) \/ Get(trie, first) = Get(trie, second)
  BY <1>2, <1>5, <1>6, <1>8
<1> QED BY <1>9, <1>10, <1>11 DEF Halves, first, second

\* Nor does a pair of requests, which may be about the role.
LEMMA HalvesSentTwo ==
  ASSUME Typed, NEW id, NEW u, Halves(id, u), trie' = trie,
         NEW a \in Requests, NEW b \in Requests, requests' = requests \o <<a, b>>,
         \/ /\ a.key # FileUserKey(id, u) /\ a.key # UserFileKey(u, id)
            /\ b.key # FileUserKey(id, u) /\ b.key # UserFileKey(u, id)
         \/ /\ a.key = FileUserKey(id, u) /\ b.key = UserFileKey(u, id) /\ RoleOf(a) = RoleOf(b)
  PROVE  Halves(id, u)'
<1>1. requests \in Seq(Requests)
  BY DEF Typed, CallsTyped
<1> DEFINE n == Len(requests)
<1>2. /\ n \in Nat /\ Len(requests') = n + 2
      /\ \A i \in 1 .. n : requests'[i] = requests[i]
      /\ requests'[n + 1] = a /\ requests'[n + 2] = b
  BY <1>1, AppendedTwo
<1>3. \A i \in 1 .. n + 2 : i \in 1 .. n \/ i = n + 1 \/ i = n + 2
  BY <1>2
<1>4. \A i \in 1 .. n : i \in 1 .. n + 2 /\ (i # 1 => i - 1 \in 1 .. n)
  BY <1>2
<1>5. requests # <<>> => 1 \in 1 .. n
  BY <1>1
<1>6. requests' # <<>>
  BY <1>1
<1> DEFINE first == FileUserKey(id, u)
           second == UserFileKey(u, id)
<1>7. first # second
  BY KeysDiffer
<1> HIDE DEF first, second, n
<1>8. \/ a.key # first /\ a.key # second /\ b.key # first /\ b.key # second
      \/ a.key = first /\ b.key = second /\ RoleOf(a) = RoleOf(b)
  BY DEF first, second
<1>9. /\ \A i \in 1 .. n : requests[i].key = first =>
           /\ i + 1 \in 1 .. n
           /\ requests[i + 1].key = second /\ RoleOf(requests[i + 1]) = RoleOf(requests[i])
      /\ \A i \in 1 .. n : requests[i].key = second =>
           IF i = 1 THEN Get(trie, first) = RoleOf(requests[i]) ELSE requests[i - 1].key = first
      /\ (requests # <<>> /\ requests[1].key = second) \/ Get(trie, first) = Get(trie, second)
  BY DEF Halves, first, second, n
<1>10. n + 1 \in 1 .. n + 2 /\ n + 2 \in 1 .. n + 2 /\ (n + 1) + 1 = n + 2 /\ (n + 2) - 1 = n + 1 /\ n + 2 # 1
  BY <1>2
<1>11. ASSUME NEW i \in 1 .. n + 2, requests'[i].key = first
       PROVE  /\ i + 1 \in 1 .. n + 2
              /\ requests'[i + 1].key = second /\ RoleOf(requests'[i + 1]) = RoleOf(requests'[i])
  <2>1. CASE i \in 1 .. n
    <3>1. i + 1 \in 1 .. n /\ requests[i + 1].key = second /\ RoleOf(requests[i + 1]) = RoleOf(requests[i])
      BY <1>2, <1>9, <1>11, <2>1
    <3> QED BY <1>2, <1>4, <2>1, <3>1
  <2>2. CASE i = n + 1
    BY <1>2, <1>8, <1>10, <1>11, <2>2
  <2>3. CASE i = n + 2
    BY <1>2, <1>7, <1>8, <1>11, <2>3
  <2> QED BY <1>3, <2>1, <2>2, <2>3
<1>12. ASSUME NEW i \in 1 .. n + 2, requests'[i].key = second
       PROVE  IF i = 1 THEN Get(trie, first) = RoleOf(requests'[i]) ELSE requests'[i - 1].key = first
  <2>1. CASE i \in 1 .. n
    BY <1>2, <1>4, <1>9, <1>12, <2>1
  <2>2. CASE i = n + 1
    BY <1>2, <1>7, <1>8, <1>12, <2>2
  <2>3. CASE i = n + 2
    BY <1>2, <1>8, <1>10, <1>12, <2>3
  <2> QED BY <1>3, <2>1, <2>2, <2>3
<1>13. (requests' # <<>> /\ requests'[1].key = second) \/ Get(trie, first) = Get(trie, second)
  BY <1>2, <1>5, <1>6, <1>9
<1>14. Len(requests') = n + 2
  BY <1>2
<1> QED BY <1>11, <1>12, <1>13, <1>14 DEF Halves, first, second

\* When the oldest request is handled, or does not matter, the other half comes next.
LEMMA HalvesMoveUp ==
  ASSUME Typed, NEW id, NEW u, Halves(id, u), requests # <<>>, requests' = Tail(requests),
         NEW r, r = Head(requests),
         Get(trie', FileUserKey(id, u)) =
           IF r.key = FileUserKey(id, u) THEN RoleOf(r) ELSE Get(trie, FileUserKey(id, u)),
         Get(trie', UserFileKey(u, id)) =
           IF r.key = UserFileKey(u, id) THEN RoleOf(r) ELSE Get(trie, UserFileKey(u, id))
  PROVE  Halves(id, u)'
<1> DEFINE first == FileUserKey(id, u)
           second == UserFileKey(u, id)
           n == Len(requests')
<1>1. requests \in Seq(Requests)
  BY DEF Typed, CallsTyped
<1>2. /\ n \in Nat /\ Len(requests) = n + 1 /\ requests[1] = r
      /\ \A i \in 1 .. n : requests'[i] = requests[i + 1]
      /\ requests' # <<>> <=> n # 0
  <2>1. /\ requests' \in Seq(Requests) /\ n = Len(requests) - 1 /\ Len(requests) \in Nat \ {0}
        /\ \A i \in 1 .. n : requests'[i] = requests[i + 1]
        /\ requests[1] = Head(requests)
    BY <1>1, MovedUp
  <2>2. requests' # <<>> <=> n # 0
    <3>1. \A s \in Seq(Requests) : s # <<>> <=> Len(s) # 0
      OBVIOUS
    <3> QED BY <2>1, <3>1
  <2> QED BY <2>1, <2>2
<1>3. first # second
  BY KeysDiffer
<1>4. /\ Get(trie', first) = IF r.key = first THEN RoleOf(r) ELSE Get(trie, first)
      /\ Get(trie', second) = IF r.key = second THEN RoleOf(r) ELSE Get(trie, second)
  OBVIOUS
<1> HIDE DEF first, second, n
<1>5. /\ \A i \in 1 .. n + 1 : requests[i].key = first =>
           /\ i + 1 \in 1 .. n + 1
           /\ requests[i + 1].key = second /\ RoleOf(requests[i + 1]) = RoleOf(requests[i])
      /\ \A i \in 1 .. n + 1 : requests[i].key = second =>
           IF i = 1 THEN Get(trie, first) = RoleOf(requests[i]) ELSE requests[i - 1].key = first
      /\ r.key = second \/ Get(trie, first) = Get(trie, second)
  BY <1>2 DEF Halves, first, second
<1>6. /\ 1 \in 1 .. n + 1 /\ 1 + 1 = 2
      /\ \A i \in 1 .. n : i + 1 \in 1 .. n + 1 /\ i + 1 # 1 /\ (i + 1) - 1 = i
      /\ \A i \in 1 .. n : i # 1 => i - 1 \in 1 .. n /\ (i - 1) + 1 = i
      /\ \A i : i \in Nat /\ i + 1 \in 1 .. n + 1 => i = 0 \/ i \in 1 .. n
  BY <1>2
<1>7. ASSUME NEW i \in 1 .. n, requests'[i].key = first
      PROVE  /\ i + 1 \in 1 .. n
             /\ requests'[i + 1].key = second /\ RoleOf(requests'[i + 1]) = RoleOf(requests'[i])
  <2>1. /\ (i + 1) + 1 \in 1 .. n + 1 /\ requests[(i + 1) + 1].key = second
        /\ RoleOf(requests[(i + 1) + 1]) = RoleOf(requests[i + 1])
    BY <1>2, <1>5, <1>6, <1>7
  <2>2. i + 1 \in 1 .. n
    BY <1>2, <2>1
  <2> QED BY <1>2, <2>1, <2>2
<1>8. ASSUME NEW i \in 1 .. n, requests'[i].key = second
      PROVE  IF i = 1 THEN Get(trie', first) = RoleOf(requests'[i]) ELSE requests'[i - 1].key = first
  <2>1. requests[i].key = first
    BY <1>2, <1>5, <1>6, <1>8
  <2>2. CASE i = 1
    <3>1. r.key = first /\ RoleOf(requests[2]) = RoleOf(r)
      BY <1>2, <1>5, <1>6, <2>1, <2>2
    <3>2. requests'[1] = requests[2]
      BY <1>2, <1>6, <2>2
    <3> QED BY <1>4, <2>2, <3>1, <3>2
  <2>3. CASE i # 1
    <3>1. requests'[i - 1] = requests[i]
      BY <1>2, <1>6, <2>3
    <3> QED BY <2>1, <2>3, <3>1
  <2> QED BY <2>2, <2>3
<1>9. (requests' # <<>> /\ requests'[1].key = second) \/ Get(trie', first) = Get(trie', second)
  <2>1. CASE r.key = first
    <3>1. 2 \in 1 .. n + 1 /\ requests[2].key = second
      BY <1>2, <1>5, <1>6, <2>1
    <3>2. n # 0 /\ 1 \in 1 .. n
      BY <1>2, <3>1
    <3>3. requests'[1] = requests[2]
      BY <1>2, <1>6, <3>2
    <3> QED BY <1>2, <3>1, <3>2, <3>3
  <2>2. CASE r.key = second
    <3>1. Get(trie, first) = RoleOf(r)
      BY <1>2, <1>5, <1>6, <2>2
    <3> QED BY <1>3, <1>4, <2>2, <3>1
  <2>3. CASE r.key # first /\ r.key # second
    BY <1>4, <1>5, <2>3
  <2> QED BY <2>1, <2>2, <2>3
<1>10. Len(requests') = n
  BY DEF n
<1> QED BY <1>7, <1>8, <1>9, <1>10 DEF Halves, first, second

-----------------------------------------------------------------------------
\* Removals.

\* Calls under way are those that are not idle.
LEMMA WorkingIs ==
  ASSUME Typed, NEW id
  PROVE  Working(id) = At(id)
BY CallOf DEF Working, At

\* No request is about the roles of a file no call works on, or only one that waits for nothing.
LEMMA NothingAsked ==
  ASSUME Typed, RequestsNamed, NEW id, NEW c \in Callers, At(id) \subseteq {c}, From(requests, c) = {},
         NEW u, NEW i \in 1 .. Len(requests)
  PROVE  requests[i].key # FileUserKey(id, u) /\ requests[i].key # UserFileKey(u, id)
<1> DEFINE r == requests[i]
<1>1. r \in Requests /\ Named(r) /\ r.from # c
  BY DEF Typed, CallsTyped, RequestsNamed, From
<1>2. r.from \in Callers /\ call[r.from].op # "none"
  BY <1>1 DEF Requests, Named
<1>3. id # call[r.from].id
  BY <1>1, <1>2 DEF At
<1> HIDE DEF r
<1>4. r.key # FileUserKey(id, u) /\ r.key # UserFileKey(u, id)
  BY <1>1, <1>3, OtherFile
<1> QED BY <1>4 DEF r

\* Then both halves of a role agree, or are as they were.
LEMMA HalvesOfNothing ==
  ASSUME Typed, RequestsNamed, NEW id, NEW c \in Callers, At(id) \subseteq {c},
         From(requests, c) = {}, NEW u
  PROVE  Halves(id, u) <=> Get(trie, FileUserKey(id, u)) = Get(trie, UserFileKey(u, id))
<1>1. \A i \in 1 .. Len(requests) :
        requests[i].key # FileUserKey(id, u) /\ requests[i].key # UserFileKey(u, id)
  BY NothingAsked
<1>2. requests # <<>> => 1 \in 1 .. Len(requests)
  BY DEF Typed, CallsTyped
<1> QED BY <1>1, <1>2 DEF Halves

\* A step that leaves a removal, the roles of its file and its requests alone keeps it.
LEMMA RemovalAlike ==
  ASSUME NEW id, NEW d \in Callers, RemovalKept(d, id), Removes(d, id), Alike(d), At(id)' = At(id),
         \A u \in Users : /\ Get(trie', FileUserKey(id, u)) = Get(trie, FileUserKey(id, u))
                          /\ Get(trie', UserFileKey(u, id)) = Get(trie, UserFileKey(u, id)),
         \A key : Remains(d, key) => Remains(d, key)'
  PROVE  RemovalKept(d, id)'
<1>1. /\ call[d].op # "none" /\ call'[d].wait = call[d].wait /\ call'[d].ok = call[d].ok
      /\ call'[d].listed = call[d].listed /\ call'[d].keys = call[d].keys
  BY DEF Removes, Alike
<1>2. Listing(d, id) => Listing(d, id)'
  BY <1>1 DEF Listing
<1>3. Deleting(d, id) => Deleting(d, id)'
  BY DEF Deleting
<1> QED BY <1>1, <1>2, <1>3 DEF RemovalKept

\* The calls on a file stay the same while another call changes.
LEMMA SameCalls ==
  ASSUME NEW id, NEW c \in Callers, OnlyCall(c), c \notin At(id),
         call'[c].op = "none" \/ call'[c].id # id
  PROVE  At(id)' = At(id)
<1>1. \A d \in Callers \ {c} : d \in At(id)' <=> d \in At(id)
  BY DEF OnlyCall, Alike, At
<1>2. c \notin At(id)'
  BY DEF At
<1>3. At(id) \subseteq Callers /\ At(id)' \subseteq Callers
  BY DEF At
<1> QED BY <1>1, <1>2, <1>3

\* More requests come after those there were.
Longer ==
  /\ Len(requests) \in Nat /\ Len(requests') \in Nat /\ Len(requests) <= Len(requests')
  /\ \A i \in 1 .. Len(requests) : requests'[i] = requests[i]

\* What a removal has still to ask for stays so when others ask.
LEMMA RemainsLonger ==
  ASSUME NEW d, Alike(d), call[d].op # "none", Longer, NEW key, Remains(d, key)
  PROVE  Remains(d, key)'
<1>1. call'[d].todo = call[d].todo
  BY DEF Alike
<1>2. \A i \in 1 .. Len(requests) : i \in 1 .. Len(requests')
  BY DEF Longer
<1>3. \A i \in From(requests, d) : i \in From(requests', d) /\ requests'[i] = requests[i]
  BY <1>2 DEF From, Longer
<1> QED BY <1>1, <1>3 DEF Remains

\* And when the oldest request is answered, unless it was that.
LEMMA RemainsShorter ==
  ASSUME requests \in Seq(Requests), requests # <<>>, requests' = Tail(requests),
         NEW d, call'[d].todo = call[d].todo, NEW key, Remains(d, key),
         Head(requests).from # d \/ Head(requests).key # key
  PROVE  Remains(d, key)'
<1>1. /\ Len(requests) \in Nat \ {0} /\ Len(requests') = Len(requests) - 1
      /\ requests[1] = Head(requests)
      /\ \A i \in 1 .. Len(requests') : requests'[i] = requests[i + 1]
  BY MovedUp
<1>2. ASSUME NEW i \in From(requests, d), requests[i].key = key
      PROVE  i - 1 \in From(requests', d) /\ requests'[i - 1] = requests[i]
  <2>1. i \in 1 .. Len(requests) /\ requests[i].from = d
    BY DEF From
  <2>2. i # 1
    BY <1>1, <1>2, <2>1
  <2>3. i - 1 \in 1 .. Len(requests') /\ (i - 1) + 1 = i
    BY <1>1, <2>1, <2>2
  <2> QED BY <1>1, <2>1, <2>3 DEF From
<1> QED BY <1>2 DEF Remains

\* The request a handler sends is one it had still to make.
LEMMA RemainsSent ==
  ASSUME requests \in Seq(Requests), NEW c, NEW todo \in Seq(Requests), todo # <<>>,
         Head(todo).from = c, requests' = requests \o <<Head(todo)>>, call'[c].todo = Tail(todo)
  PROVE  /\ \A i \in 1 .. Len(todo) : Remains(c, todo[i].key)'
         /\ \A i \in From(requests, c) : Remains(c, requests[i].key)'
<1>1. /\ Head(todo) = todo[1] /\ Len(todo) \in Nat \ {0} /\ Len(Tail(todo)) = Len(todo) - 1
      /\ \A i \in 1 .. Len(Tail(todo)) : i + 1 \in 1 .. Len(todo) /\ Tail(todo)[i] = todo[i + 1]
      /\ Head(todo) \in Requests
  BY InTail
<1>2. /\ Len(requests) \in Nat /\ Len(requests') = Len(requests) + 1
      /\ \A i \in 1 .. Len(requests) : requests'[i] = requests[i]
      /\ requests'[Len(requests) + 1] = Head(todo)
  BY <1>1, Appended
<1>3. Len(requests) + 1 \in From(requests', c)
  BY <1>2 DEF From
<1>4. ASSUME NEW i \in 1 .. Len(todo)
      PROVE  Remains(c, todo[i].key)'
  <2>1. CASE i = 1
    BY <1>1, <1>2, <1>3, <2>1 DEF Remains
  <2>2. CASE i # 1
    <3>1. i - 1 \in 1 .. Len(Tail(todo)) /\ (i - 1) + 1 = i
      BY <1>1, <2>2
    <3>2. Tail(todo)[i - 1] = todo[i]
      BY <1>1, <3>1
    <3> QED BY <3>1, <3>2 DEF Remains
  <2> QED BY <2>1, <2>2
<1>5. ASSUME NEW i \in From(requests, c)
      PROVE  Remains(c, requests[i].key)'
  <2>1. i \in 1 .. Len(requests) /\ i \in 1 .. Len(requests')
    BY <1>2 DEF From
  <2>2. i \in From(requests', c) /\ requests'[i] = requests[i]
    BY <1>2, <2>1 DEF From
  <2> QED BY <2>2 DEF Remains
<1> QED BY <1>4, <1>5

\* The numbers up to n, and those below n.
LEMMA Counts ==
  ASSUME NEW n \in Nat
  PROVE  /\ IsFiniteSet(1 .. n) /\ Cardinality(1 .. n) = n
         /\ IsFiniteSet(0 .. n - 1) /\ Cardinality(0 .. n - 1) = n
<1>1. 0 \in Int /\ 1 \in Int /\ n \in Int /\ n - 1 \in Int
  OBVIOUS
<1> QED BY <1>1, FS_Interval

\* The first of what a removal lists are the users of the file, the last is the file.
LEMMA ListedAll ==
  ASSUME Typed, NEW c \in Callers, call[c].op # "none", NEW order \in SetToSeqs(call[c].keys)
  PROVE  LET id == call[c].id
             todo == Deletions(c, id, order)
         IN  /\ \E i \in 1 .. Len(todo) : todo[i].key = FileKey(id)
             /\ \A u : <<"user", u>> \in call[c].keys =>
                  \E i \in 1 .. Len(todo) : todo[i].key = UserFileKey(u, id)
<1> DEFINE id == call[c].id
           todo == Deletions(c, id, order)
           K == call[c].keys
           n == Len(order)
<1>1. /\ n \in Nat /\ order \in [1 .. n -> K] /\ n = Cardinality(K) /\ Len(todo) = n + 1
      /\ \A i \in 1 .. n : todo[i] = DeletePermission(c, <<order[i], <<"file", id>>>>)
      /\ todo[n + 1] = DeletePermission(c, FileKey(id))
  BY DeletionsTyped
<1>2. IsFiniteSet(K)
  BY CallOf DEF Calls, PartSets
<1>3. \A i, j \in 1 .. Cardinality(K) : i # j => order[i] # order[j]
  BY DEF SetToSeqs
<1> HIDE DEF todo, K, n, id
<1>4. \A key : DeletePermission(c, key).key = key
  BY DEF DeletePermission
<1>5. order \in Surjection(1 .. n, K)
  <2>1. order \in Injection(1 .. n, K)
    BY <1>1, <1>3 DEF Injection, IsInjective
  <2>2. Cardinality(1 .. n) = n
    BY <1>1, Counts
  <2> QED BY <1>1, <1>2, <2>1, <2>2, FS_Injection
<1>6. ASSUME NEW u, <<"user", u>> \in K
      PROVE  \E i \in 1 .. n + 1 : todo[i].key = UserFileKey(u, id)
  <2>1. PICK i \in 1 .. n : order[i] = <<"user", u>>
    BY <1>5, <1>6 DEF Surjection
  <2>2. todo[i].key = <<order[i], <<"file", id>>>>
    BY <1>1, <1>4
  <2>3. i \in 1 .. n + 1
    BY <1>1
  <2> QED BY <2>1, <2>2, <2>3 DEF UserFileKey
<1>7. n + 1 \in 1 .. n + 1 /\ todo[n + 1].key = FileKey(id)
  BY <1>1, <1>4
<1> QED BY <1>1, <1>6, <1>7 DEF todo, K, id

-----------------------------------------------------------------------------
\* The steps.

\* A step that does not concern roles keeps them.
LEMMA QuietKeeps ==
  ASSUME NEW id, RoleKept(id), Quiet
  PROVE  RoleKept(id)'
<1>1. UNCHANGED <<requests, trie>> /\ \A d \in Callers : Alike(d)
  BY DEF Quiet
<1>2. At(id)' = At(id)
  BY <1>1 DEF At, Alike
<1>3. ASSUME NEW d \in Callers, Removes(d, id)'
      PROVE  RemovalKept(d, id)'
  <2>1. Removes(d, id) /\ Alike(d) /\ RemovalKept(d, id) /\ call'[d].todo = call[d].todo
    BY <1>1, <1>3 DEF Removes, Alike, RoleKept
  <2>2. \A key : Remains(d, key) => Remains(d, key)'
    BY <1>1, <2>1 DEF Remains, From
  <2> QED BY <1>1, <1>2, <2>1, <2>2, RemovalAlike
<1>4. ASSUME NEW u, Halves(id, u)
      PROVE  Halves(id, u)'
  BY <1>1, <1>4 DEF Halves
<1>5. ASSUME NEW d \in Callers, Removes(d, id)
      PROVE  Removes(d, id)'
  BY <1>1, <1>5 DEF Removes, Alike
<1> QED BY <1>3, <1>4, <1>5 DEF RoleKept

\* A removal goes on beside a call on another file that only sends.
LEMMA RemovalBeside ==
  ASSUME NEW id, RoleKept(id), NEW c \in Callers, OnlyCall(c), c \notin At(id),
         call'[c].op = "none" \/ call'[c].id # id, trie' = trie, Longer,
         NEW d \in Callers \ {c}, Removes(d, id)'
  PROVE  RemovalKept(d, id)'
<1>1. Alike(d) /\ Removes(d, id) /\ call[d].op # "none" /\ RemovalKept(d, id)
  BY DEF OnlyCall, Alike, Removes, RoleKept
<1>2. At(id)' = At(id)
  BY SameCalls
<1>3. \A key : Remains(d, key) => Remains(d, key)'
  BY <1>1, RemainsLonger
<1> QED BY <1>1, <1>2, <1>3, RemovalAlike

\* A call that starts on a file finds no removal of it under way, or tears it.
LEMMA BeginsApart ==
  ASSUME Typed, NEW c \in Callers, NEW own \in Ids, CallBegins(c, own), NEW id, id \notin torn',
         NEW d \in Callers, Removes(d, id), RemovalKept(d, id)
  PROVE  id # own /\ d # c /\ c \notin At(id)
<1>1. d # c /\ d \in At(id)
  BY DEF CallBegins, Removes, At
<1>2. id # own
  BY <1>1, WorkingIs DEF CallBegins, Removes
<1> QED BY <1>1, <1>2 DEF RemovalKept

\* A call that asks for both halves of a role keeps the roles.
LEMMA SettingKeeps ==
  ASSUME Typed, NEW id \in Ids, id \notin torn', RoleKept(id),
         NEW c \in Callers, NEW own \in Ids, NEW member \in Users, NEW a, NEW b,
         SetsRole(c, own, member, a, b)
  PROVE  RoleKept(id)'
<1>1. /\ CallBegins(c, own) /\ call'[c].op \in {"create", "member"} /\ call'[c].id = own
      /\ OnlyCall(c) /\ trie' = trie /\ call[c].op = "none"
      /\ a \in Requests /\ b \in Requests /\ requests' = requests \o <<a, b>>
      /\ a.key = FileUserKey(own, member) /\ b.key = UserFileKey(member, own)
      /\ RoleOf(a) = RoleOf(b)
  BY DEF SetsRole, CallBegins, Pair
<1>2. Longer
  <2>1. requests \in Seq(Requests)
    BY DEF Typed, CallsTyped
  <2> QED BY <1>1, <2>1, AppendedTwo DEF Longer
<1>3. ASSUME NEW d \in Callers, Removes(d, id)'
      PROVE  RemovalKept(d, id)'
  <2>1. d # c
    BY <1>1, <1>3 DEF Removes
  <2>2. Removes(d, id) /\ RemovalKept(d, id)
    BY <1>1, <1>3, <2>1 DEF Removes, OnlyCall, Alike, RoleKept
  <2>3. id # own /\ c \notin At(id)
    BY <1>1, <2>2, BeginsApart
  <2> QED BY <1>1, <1>2, <1>3, <2>1, <2>3, RemovalBeside
<1>4. ASSUME \A d \in Callers : ~ Removes(d, id)', NEW u \in Users
      PROVE  Halves(id, u)'
  <2>1. ASSUME NEW d \in Callers
        PROVE  ~ Removes(d, id)
    BY <1>1, <1>4 DEF Removes, OnlyCall, Alike
  <2>2. Halves(id, u)
    BY <2>1 DEF RoleKept
  <2>3. \/ /\ a.key # FileUserKey(id, u) /\ a.key # UserFileKey(u, id)
           /\ b.key # FileUserKey(id, u) /\ b.key # UserFileKey(u, id)
        \/ /\ a.key = FileUserKey(id, u) /\ b.key = UserFileKey(u, id)
    BY <1>1, KeysDiffer
  <2> QED BY <1>1, <2>2, <2>3, HalvesSentTwo
<1> QED BY <1>3, <1>4 DEF RoleKept

\* A removal that starts on a file is alone with it, or tears it.
LEMMA RemovalStartKeeps ==
  ASSUME Typed, RequestsNamed, NEW id \in Ids, id \notin torn', RoleKept(id),
         NEW c \in Callers, NEW own \in Ids, StartsRemoval(c, own)
  PROVE  RoleKept(id)'
<1> DEFINE a == GetSubkeys(c, FileKey(own))
<1>1. /\ CallBegins(c, own) /\ call'[c].op = "remove" /\ call'[c].id = own /\ call'[c].wait = 1
      /\ ~ call'[c].listed
      /\ OnlyCall(c) /\ trie' = trie /\ call[c].op = "none" /\ requests' = requests \o <<a>>
      /\ Working(own) # {} => own \in torn'
  BY DEF StartsRemoval, CallBegins
<1>2. a \in Requests /\ a.key = FileKey(own)
  <2>1. <<"file", own>> \in Parts
    BY DEF Parts
  <2>2. FileKey(own) \in Keys
    BY <2>1 DEF FileKey, Keys
  <2> QED BY <2>2 DEF GetSubkeys, Requests
<1> HIDE DEF a
<1>3. Longer
  <2>1. requests \in Seq(Requests)
    BY DEF Typed, CallsTyped
  <2> QED BY <1>1, <1>2, <2>1, Appended DEF Longer
<1>4. CASE id = own
  <2>1. At(id) = {}
    BY <1>1, <1>4, WorkingIs
  <2>2. At(id)' = {c}
    BY <1>1, <1>4, <2>1 DEF At, OnlyCall, Alike
  <2>3. ASSUME NEW u \in Users
        PROVE  Get(trie, FileUserKey(id, u)) = Get(trie, UserFileKey(u, id))
    <3>1. \A d \in Callers : ~ Removes(d, id)
      BY <2>1 DEF Removes, At
    <3>2. Halves(id, u)
      BY <3>1 DEF RoleKept
    <3>3. From(requests, c) = {}
      BY <1>1, NoneFrom
    <3> QED BY <2>1, <3>2, <3>3, HalvesOfNothing
  <2>4. Listing(c, id)'
    BY <1>1, <2>3 DEF Listing
  <2>5. RemovalKept(c, id)'
    BY <1>1, <2>2, <2>4 DEF RemovalKept
  <2>6. \A d \in Callers : Removes(d, id)' => d = c
    BY <2>2 DEF Removes, At
  <2>7. Removes(c, id)'
    BY <1>1, <1>4 DEF Removes
  <2> QED BY <2>5, <2>6, <2>7 DEF RoleKept
<1>5. CASE id # own
  <2>1. ASSUME NEW d \in Callers, Removes(d, id)'
        PROVE  RemovalKept(d, id)'
    <3>1. d # c
      BY <1>1, <1>5, <2>1 DEF Removes
    <3>2. c \notin At(id)
      BY <1>1 DEF At
    <3> QED BY <1>1, <1>3, <1>5, <2>1, <3>1, <3>2, RemovalBeside
  <2>2. ASSUME \A d \in Callers : ~ Removes(d, id)', NEW u \in Users
        PROVE  Halves(id, u)'
    <3>1. ASSUME NEW d \in Callers
          PROVE  ~ Removes(d, id)
      BY <1>1, <2>2 DEF Removes, OnlyCall, Alike
    <3>2. Halves(id, u)
      BY <3>1 DEF RoleKept
    <3>3. a.key # FileUserKey(id, u) /\ a.key # UserFileKey(u, id)
      BY <1>2, KeysDiffer
    <3> QED BY <1>1, <1>2, <3>2, <3>3, HalvesSentOne
  <2> QED BY <2>1, <2>2 DEF RoleKept
<1> QED BY <1>4, <1>5

\* A call for a link has nothing to do with roles.
LEMMA SharingKeeps ==
  ASSUME Typed, NEW id \in Ids, id \notin torn', RoleKept(id),
         NEW c \in Callers, NEW own \in Ids, StartsSharing(c, own)
  PROVE  RoleKept(id)'
<1>1. /\ CallBegins(c, own) /\ call'[c].op = "share" /\ call'[c].id = own
      /\ OnlyCall(c) /\ UNCHANGED <<requests, trie>> /\ call[c].op = "none"
  BY DEF StartsSharing, CallBegins
<1>2. Longer
  BY <1>1 DEF Longer, Typed, CallsTyped
<1>3. ASSUME NEW d \in Callers, Removes(d, id)'
      PROVE  RemovalKept(d, id)'
  <2>1. d # c
    BY <1>1, <1>3 DEF Removes
  <2>2. Removes(d, id) /\ RemovalKept(d, id)
    BY <1>1, <1>3, <2>1 DEF Removes, OnlyCall, Alike, RoleKept
  <2>3. id # own /\ c \notin At(id)
    BY <1>1, <2>2, BeginsApart
  <2> QED BY <1>1, <1>2, <1>3, <2>1, <2>3, RemovalBeside
<1>4. ASSUME \A d \in Callers : ~ Removes(d, id)', NEW u \in Users
      PROVE  Halves(id, u)'
  <2>1. ASSUME NEW d \in Callers
        PROVE  ~ Removes(d, id)
    BY <1>1, <1>4 DEF Removes, OnlyCall, Alike
  <2>2. Halves(id, u)
    BY <2>1 DEF RoleKept
  <2> QED BY <1>1, <2>2 DEF Halves
<1> QED BY <1>3, <1>4 DEF RoleKept

\* A call that ends leaves the roles as they are; a removal leaves none.
LEMMA EndingKeeps ==
  ASSUME Typed, RequestsNamed, NEW id \in Ids, id \notin torn', RoleKept(id),
         NEW c \in Callers, CallOver(c)
  PROVE  RoleKept(id)'
<1>1. /\ call[c].op # "none" /\ call[c].wait = 0 /\ OnlyCall(c) /\ UNCHANGED <<requests, trie>>
      /\ call'[c].op \in {"none", "chunks"} /\ (call'[c].op = "none" \/ call'[c].id = call[c].id)
      /\ call[c].op = "remove" => /\ call'[c].op = "none"
                                  /\ \/ call[c].id \in torn'
                                     \/ call[c].ok /\ call[c].listed /\ call[c].todo = <<>>
  BY DEF CallOver
<1>2. Longer
  BY <1>1 DEF Longer, Typed, CallsTyped
<1>3. From(requests, c) = {}
  BY <1>1, NoneFrom
<1>4. ASSUME NEW d \in Callers, Removes(d, id)'
      PROVE  RemovalKept(d, id)'
  <2>1. d # c
    BY <1>1, <1>4 DEF Removes
  <2>2. Removes(d, id) /\ RemovalKept(d, id)
    BY <1>1, <1>4, <2>1 DEF Removes, OnlyCall, Alike, RoleKept
  <2>3. c \notin At(id)
    BY <2>1, <2>2 DEF RemovalKept
  <2>4. call[c].id # id
    BY <1>1, <2>3 DEF At
  <2> QED BY <1>1, <1>2, <1>4, <2>1, <2>3, <2>4, RemovalBeside
<1>5. ASSUME \A d \in Callers : ~ Removes(d, id)', NEW u \in Users
      PROVE  Halves(id, u)'
  <2>1. CASE \A d \in Callers : ~ Removes(d, id)
    <3>1. Halves(id, u)
      BY <2>1 DEF RoleKept
    <3> QED BY <1>1, <3>1 DEF Halves
  <2>2. CASE \E d \in Callers : Removes(d, id)
    <3>1. Removes(c, id)
      BY <1>1, <1>5, <2>2 DEF Removes, OnlyCall, Alike
    <3>2. RemovalKept(c, id) /\ call[c].ok /\ call[c].listed /\ call[c].todo = <<>>
      BY <1>1, <3>1 DEF Removes, RoleKept
    <3>3. \A key : ~ Remains(c, key)
      BY <1>3, <3>2 DEF Remains
    <3>4. Get(trie, FileUserKey(id, u)) = Get(trie, UserFileKey(u, id)) /\ At(id) = {c}
      BY <3>2, <3>3 DEF RemovalKept, Deleting
    <3>5. Halves(id, u)
      BY <1>3, <3>4, HalvesOfNothing
    <3> QED BY <1>1, <3>5 DEF Halves
  <2> QED BY <2>1, <2>2
<1> QED BY <1>4, <1>5 DEF RoleKept

\* A removal that goes on asks for what it had still to do.
LEMMA ContinuingKeeps ==
  ASSUME Typed, RequestsNamed, NEW id \in Ids, id \notin torn', RoleKept(id),
         NEW c \in Callers, NEW todo, Continues(c, todo)
  PROVE  RoleKept(id)'
<1> DEFINE own == call[c].id
           a == Head(todo)
<1>1. /\ call[c].op # "none" /\ call[c].wait = 0 /\ trie' = trie /\ OnlyCall(c)
      /\ todo \in Seq(Requests) /\ todo # <<>> /\ Head(todo).from = c
      /\ call'[c].op = call[c].op /\ call'[c].id = own /\ call'[c].ok = call[c].ok
      /\ call'[c].todo = Tail(todo) /\ requests' = requests \o <<Head(todo)>>
  BY DEF Continues
<1>2. TodoNamed(c) /\ requests \in Seq(Requests)
  BY DEF RequestsNamed, Typed, CallsTyped
<1>3. /\ call[c].op = "remove" /\ call'[c].listed
      /\ \A i \in 1 .. Len(todo) : Deletes(todo[i], own)
  <2>1. CASE todo = call[c].todo /\ call'[c].listed = call[c].listed
    BY <1>1, <1>2, <2>1 DEF TodoNamed
  <2>2. CASE call[c].op = "remove" /\ call'[c].listed
             /\ \E order \in SetToSeqs(call[c].keys) : todo = Deletions(c, own, order)
    BY <1>1, <2>2, ListedDelete
  <2> QED BY <2>1, <2>2 DEF Continues
<1>4. a \in Requests /\ Deletes(a, own)
  BY <1>1, <1>3, InTail
<1>5. Longer
  BY <1>1, <1>2, <1>4, Appended DEF Longer
<1> HIDE DEF own, a
<1>6. CASE own = id
  <2>1. Removes(c, id) /\ RemovalKept(c, id) /\ Removes(c, id)'
    BY <1>1, <1>3, <1>6 DEF Removes, RoleKept, own
  <2>2. At(id)' = {c}
    <3>1. \A d \in Callers : d \in At(id)' <=> d \in At(id)
      BY <1>1 DEF At, OnlyCall, Alike, own
    <3>2. At(id) = {c} /\ At(id)' \subseteq Callers
      BY <2>1 DEF RemovalKept, At
    <3> QED BY <3>1, <3>2
  <2>3. /\ \A i \in 1 .. Len(todo) : Remains(c, todo[i].key)'
        /\ \A i \in From(requests, c) : Remains(c, requests[i].key)'
    BY <1>1, <1>2, RemainsSent
  <2>4. ASSUME call[c].ok
        PROVE  Deleting(c, id)'
    <3>1. CASE todo = call[c].todo /\ call'[c].listed = call[c].listed
      <4>1. ASSUME NEW key, Remains(c, key)
            PROVE  Remains(c, key)'
        <5>1. CASE \E i \in 1 .. Len(todo) : todo[i].key = key
          BY <2>3, <5>1
        <5>2. CASE \E i \in From(requests, c) : requests[i].key = key
          <6>1. \A i \in From(requests, c) : requests'[i] = requests[i]
            BY <1>5 DEF Longer, From
          <6> QED BY <2>3, <5>2, <6>1
        <5> QED BY <3>1, <4>1, <5>1, <5>2 DEF Remains
      <4>2. Deleting(c, id)
        BY <1>3, <2>1, <2>4, <3>1 DEF RemovalKept
      <4> QED BY <1>1, <4>1, <4>2 DEF Deleting
    <3>2. CASE ~ call[c].listed /\ \E order \in SetToSeqs(call[c].keys) : todo = Deletions(c, own, order)
      <4>1. /\ \E i \in 1 .. Len(todo) : todo[i].key = FileKey(id)
            /\ \A u : <<"user", u>> \in call[c].keys =>
                 \E i \in 1 .. Len(todo) : todo[i].key = UserFileKey(u, id)
        <5>1. PICK order \in SetToSeqs(call[c].keys) : todo = Deletions(c, own, order)
          BY <3>2
        <5>2. call[c].id = id
          BY <1>6 DEF own
        <5>3. todo = Deletions(c, id, order)
          BY <1>6, <5>1
        <5>4. LET itsId == call[c].id
                  listed == Deletions(c, itsId, order)
              IN  /\ \E i \in 1 .. Len(listed) : listed[i].key = FileKey(itsId)
                  /\ \A u : <<"user", u>> \in call[c].keys =>
                       \E i \in 1 .. Len(listed) : listed[i].key = UserFileKey(u, itsId)
          BY <1>1, ListedAll
        <5> QED BY <5>2, <5>3, <5>4
      <4>2. Remains(c, FileKey(id))'
        BY <2>3, <4>1
      <4>3. ASSUME NEW u, <<"user", u>> \in call[c].keys
            PROVE  Remains(c, UserFileKey(u, id))'
        BY <2>3, <4>1, <4>3
      <4>4. Listing(c, id)
        BY <2>1, <2>4, <3>2 DEF RemovalKept
      <4> QED BY <1>1, <4>2, <4>3, <4>4 DEF Deleting, Listing
    <3> QED BY <3>1, <3>2 DEF Continues, own
  <2>5. RemovalKept(c, id)'
    BY <1>1, <1>3, <2>2, <2>4 DEF RemovalKept
  <2>6. \A d \in Callers : Removes(d, id)' => d = c
    BY <2>2 DEF Removes, At
  <2> QED BY <2>1, <2>5, <2>6 DEF RoleKept
<1>7. CASE own # id
  <2>1. c \notin At(id) /\ call'[c].id # id
    BY <1>1, <1>7 DEF At, own
  <2>2. ASSUME NEW d \in Callers, Removes(d, id)'
        PROVE  RemovalKept(d, id)'
    <3>1. d # c
      BY <2>1, <2>2 DEF Removes
    <3> QED BY <1>1, <1>5, <2>1, <2>2, <3>1, RemovalBeside
  <2>3. ASSUME \A d \in Callers : ~ Removes(d, id)', NEW u \in Users
        PROVE  Halves(id, u)'
    <3>1. ASSUME NEW d \in Callers
          PROVE  ~ Removes(d, id)
      BY <1>1, <1>7, <2>3 DEF Removes, OnlyCall, Alike, own
    <3>2. Halves(id, u)
      BY <3>1 DEF RoleKept
    <3>3. a.key # FileUserKey(id, u) /\ a.key # UserFileKey(u, id)
      BY <1>4, <1>7, KeysDiffer DEF Deletes
    <3> QED BY <1>1, <1>4, <3>2, <3>3, HalvesSentOne DEF a
  <2> QED BY <2>2, <2>3 DEF RoleKept
<1> QED BY <1>6, <1>7

\* The answer to a call tells a removal what the file has, or takes away what it had.
LEMMA AnsweringKeeps ==
  ASSUME Typed, RequestsNamed, NEW id \in Ids, id \notin torn', RoleKept(id), Answered
  PROVE  RoleKept(id)'
<1>0. PICK r, c : r = Head(requests) /\ c = r.from
  OBVIOUS
<1>1. /\ requests # <<>> /\ requests' = Tail(requests) /\ Handle(r) /\ OnlyCall(c)
      /\ r \in Requests /\ c \in Callers /\ call[c].op # "none"
      /\ call'[c].op = call[c].op /\ call'[c].id = call[c].id
      /\ call'[c].listed = call[c].listed /\ call'[c].todo = call[c].todo
      /\ call'[c].ok => call[c].ok
      /\ call'[c].keys = AnswerTo(r).keys
  BY <1>0, AnsweredCall
<1>2. requests \in Seq(Requests)
  BY DEF Typed, CallsTyped
<1>3. Named(r)
  BY <1>0, <1>1, <1>2, InTail DEF RequestsNamed
<1>4. 1 \in From(requests, c) /\ r = requests[1]
  BY <1>0, <1>1, <1>2, InTail DEF From
<1>5. \A u :
        /\ Get(trie', FileUserKey(id, u)) =
             IF r.key = FileUserKey(id, u) THEN RoleOf(r)
             ELSE IF r.method = "delete" /\ r.key = FileKey(id) THEN NoValue
             ELSE Get(trie, FileUserKey(id, u))
        /\ Get(trie', UserFileKey(u, id)) =
             IF r.key = UserFileKey(u, id) THEN RoleOf(r) ELSE Get(trie, UserFileKey(u, id))
  BY <1>1, <1>3, RoleHandled
<1>6. At(id)' = At(id)
  <2>1. \A d \in Callers : d \in At(id)' <=> d \in At(id)
    BY <1>1 DEF At, OnlyCall, Alike
  <2>2. At(id) \subseteq Callers /\ At(id)' \subseteq Callers
    BY DEF At
  <2> QED BY <2>1, <2>2
<1>7. \A d \in Callers : Removes(d, id)' <=> Removes(d, id)
  BY <1>1 DEF Removes, OnlyCall, Alike
<1>8. ASSUME NEW d \in Callers, NEW key, Remains(d, key), c # d \/ r.key # key,
             call'[d].todo = call[d].todo
      PROVE  Remains(d, key)'
  BY <1>0, <1>1, <1>2, <1>8, RemainsShorter
<1>9. ASSUME NEW d \in Callers, Removes(d, id), d # c
      PROVE  RemovalKept(d, id)'
  <2>1. Alike(d) /\ RemovalKept(d, id) /\ call'[d].todo = call[d].todo
    BY <1>1, <1>9 DEF OnlyCall, Alike, Removes, RoleKept
  <2>2. id # call[c].id
    BY <1>1, <1>9, <2>1 DEF RemovalKept, At
  <2>3. \A u : r.key # FileUserKey(id, u) /\ r.key # UserFileKey(u, id) /\ r.key # FileKey(id)
    BY <1>0, <1>3, <2>2, OtherFile
  <2>4. \A u : /\ Get(trie', FileUserKey(id, u)) = Get(trie, FileUserKey(id, u))
               /\ Get(trie', UserFileKey(u, id)) = Get(trie, UserFileKey(u, id))
    BY <1>5, <2>3
  <2>5. \A key : Remains(d, key) => Remains(d, key)'
    BY <1>8, <1>9, <2>1
  <2> QED BY <1>6, <1>9, <2>1, <2>4, <2>5, RemovalAlike
<1>10. ASSUME Removes(c, id)
       PROVE  RemovalKept(c, id)'
  <2>1. RemovalKept(c, id) /\ call[c].op = "remove" /\ call[c].id = id /\ call'[c].todo = call[c].todo
    BY <1>1, <1>10 DEF RoleKept, Removes
  <2>2. ASSUME call[c].ok, ~ call[c].listed
        PROVE  Listing(c, id)'
    <3>1. Listing(c, id)
      BY <2>1, <2>2 DEF RemovalKept
    <3>2. r.method = "subkeys" /\ r.key = FileKey(id)
      BY <1>0, <1>3, <2>1, <2>2 DEF Named
    <3>3. trie' = trie /\ call'[c].keys = Subkeys(trie, FileKey(id))
      BY <1>1, <3>2 DEF Handle, AnswerTo
    <3>4. ASSUME NEW u \in Users
          PROVE  /\ Get(trie', FileUserKey(id, u)) = Get(trie', UserFileKey(u, id))
                 /\ Get(trie', FileUserKey(id, u)) # NoValue => <<"user", u>> \in call'[c].keys
      <4>1. Get(trie, FileUserKey(id, u)) = Get(trie, UserFileKey(u, id))
        BY <3>1 DEF Listing
      <4> QED BY <3>3, <4>1, AmongSubkeys
    <3> QED BY <3>4 DEF Listing
  <2>3. ASSUME call[c].ok, call[c].listed
        PROVE  Deleting(c, id)'
    <3>1. Deleting(c, id) /\ r.method = "delete"
      BY <1>0, <1>3, <2>1, <2>3 DEF RemovalKept, Named, Deletes
    <3>2. RoleOf(r) = NoValue
      BY <3>1 DEF RoleOf
    <3>3. ASSUME NEW key, Remains(c, key), r.key # key
          PROVE  Remains(c, key)'
      BY <1>1, <1>8, <2>1, <3>3
    <3>4. ASSUME NEW u \in Users
          PROVE  /\ Get(trie', UserFileKey(u, id)) # NoValue => Remains(c, UserFileKey(u, id))'
                 /\ Get(trie', FileUserKey(id, u)) # NoValue => Remains(c, FileKey(id))'
      <4>1. /\ Get(trie, UserFileKey(u, id)) # NoValue => Remains(c, UserFileKey(u, id))
            /\ Get(trie, FileUserKey(id, u)) # NoValue => Remains(c, FileKey(id))
        BY <3>1 DEF Deleting
      <4>2. /\ Get(trie', UserFileKey(u, id)) # NoValue =>
                 r.key # UserFileKey(u, id) /\ Get(trie, UserFileKey(u, id)) # NoValue
            /\ Get(trie', FileUserKey(id, u)) # NoValue =>
                 r.key # FileKey(id) /\ Get(trie, FileUserKey(id, u)) # NoValue
        BY <1>5, <3>1, <3>2
      <4> QED BY <3>3, <4>1, <4>2
    <3> QED BY <3>4 DEF Deleting
  <2>4. At(id)' = {c}
    BY <1>6, <2>1 DEF RemovalKept
  <2> QED BY <1>1, <2>2, <2>3, <2>4 DEF RemovalKept
<1>11. ASSUME \A d \in Callers : ~ Removes(d, id), NEW u \in Users
       PROVE  Halves(id, u)'
  <2>1. Halves(id, u)
    BY <1>11 DEF RoleKept
  <2>2. ~ (r.method = "delete" /\ r.key = FileKey(id))
    <3>1. call[c].id = id => call[c].op # "remove"
      BY <1>1, <1>11 DEF Removes
    <3>2. CASE call[c].id = id
      <4>1. \A v : FileKey(id) # FileUserKey(id, v) /\ FileKey(id) # UserFileKey(v, id)
        BY KeysDiffer
      <4> QED BY <1>0, <1>3, <3>1, <3>2, <4>1 DEF Named
    <3>3. CASE call[c].id # id
      BY <1>0, <1>3, <3>3, OtherFile
    <3> QED BY <3>2, <3>3
  <2>3. /\ Get(trie', FileUserKey(id, u)) =
             IF r.key = FileUserKey(id, u) THEN RoleOf(r) ELSE Get(trie, FileUserKey(id, u))
        /\ Get(trie', UserFileKey(u, id)) =
             IF r.key = UserFileKey(u, id) THEN RoleOf(r) ELSE Get(trie, UserFileKey(u, id))
    BY <1>5, <2>2
  <2> QED BY <1>0, <1>1, <2>1, <2>3, HalvesMoveUp
<1> QED BY <1>1, <1>7, <1>9, <1>10, <1>11 DEF RoleKept

\* A rejected call loses what it asked for, and its file is torn.
LEMMA RejectingKeeps ==
  ASSUME Typed, RequestsNamed, NEW id \in Ids, id \notin torn', RoleKept(id), Rejected
  PROVE  RoleKept(id)'
<1>0. PICK r, c : r = Head(requests) /\ c = r.from
  OBVIOUS
<1>1. /\ requests # <<>> /\ requests' = Tail(requests) /\ trie' = trie /\ OnlyCall(c)
      /\ r \in Requests /\ c \in Callers /\ call[c].op # "none"
      /\ call'[c].op = call[c].op /\ call'[c].id = call[c].id
      /\ call[c].id \in torn'
  BY <1>0, RejectedCall
<1>2. requests \in Seq(Requests) /\ call[c].id # id
  BY <1>1 DEF Typed, CallsTyped
<1>3. Named(r)
  BY <1>0, <1>1, <1>2, InTail DEF RequestsNamed
<1>4. \A u : r.key # FileUserKey(id, u) /\ r.key # UserFileKey(u, id) /\ r.key # FileKey(id)
  BY <1>0, <1>2, <1>3, OtherFile
<1>5. At(id)' = At(id)
  BY <1>1, <1>2, SameCalls DEF At
<1>6. ASSUME NEW d \in Callers, Removes(d, id)'
      PROVE  RemovalKept(d, id)'
  <2>1. d # c
    BY <1>1, <1>2, <1>6 DEF Removes
  <2>2. Alike(d) /\ Removes(d, id) /\ RemovalKept(d, id) /\ call'[d].todo = call[d].todo
    BY <1>1, <1>6, <2>1 DEF OnlyCall, Alike, Removes, RoleKept
  <2>3. ASSUME NEW key, Remains(d, key)
        PROVE  Remains(d, key)'
    BY <1>0, <1>1, <1>2, <2>1, <2>2, <2>3, RemainsShorter
  <2> QED BY <1>1, <1>5, <2>2, <2>3, RemovalAlike
<1>7. ASSUME \A d \in Callers : ~ Removes(d, id)', NEW u \in Users
      PROVE  Halves(id, u)'
  <2>1. ASSUME NEW d \in Callers
        PROVE  ~ Removes(d, id)
    BY <1>1, <1>7 DEF Removes, OnlyCall, Alike
  <2>2. Halves(id, u)
    BY <2>1 DEF RoleKept
  <2> QED BY <1>0, <1>1, <1>4, <2>2, HalvesMoveUp
<1> QED BY <1>6, <1>7 DEF RoleKept

-----------------------------------------------------------------------------
\* The theorem.

\* Nothing is asked for and no role is there when a behaviour starts.
LEMMA InitiallyMirrored ==
  ASSUME Init
  PROVE  RequestsNamed /\ RolesKept
<1>1. /\ requests = <<>> /\ trie = EmptyTrie /\ \A c \in Callers : call[c].op = "none"
  BY Called DEF Init, PermissionsInit, Idle
<1>2. \A key : Get(trie, key) = NoValue
  BY <1>1 DEF Get, EmptyTrie
<1>3. 1 .. Len(requests) = {}
  BY <1>1
<1>4. \A id, u : Halves(id, u)
  BY <1>2, <1>3 DEF Halves
<1> QED BY <1>1, <1>3, <1>4 DEF RequestsNamed, TodoNamed, RolesKept, RoleKept, Removes

\* Every step keeps the roles.
LEMMA StayMirrored ==
  ASSUME Typed, FilesKept, RequestsNamed, RolesKept, [AnyStep]_vars
  PROVE  RolesKept'
<1>1. workload' = workload /\ Ids' = Ids /\ torn \subseteq torn'
  BY SameWorkload, SameSets, TornSteps
<1>2. ASSUME NEW id \in Ids, id \notin torn'
      PROVE  RoleKept(id)'
  <2>1. RoleKept(id)
    BY <1>1, <1>2 DEF RolesKept
  <2> QED BY <1>2, <2>1, RoleSteps, QuietKeeps, SettingKeeps, RemovalStartKeeps, SharingKeeps,
             EndingKeeps, ContinuingKeeps, AnsweringKeeps, RejectingKeeps
<1> QED BY <1>1, <1>2 DEF RolesKept

\* Without a call on the file nothing is asked for, so both halves agree.
LEMMA MirroredAtRest ==
  ASSUME Typed, RequestsNamed, RolesKept
  PROVE  MembersMirrored
<1>1. ASSUME NEW id \in Ids \ torn, Working(id) = {}, NEW u \in Users
      PROVE  Get(trie, FileUserKey(id, u)) = Get(trie, UserFileKey(u, id))
  <2>1. At(id) = {}
    BY <1>1, WorkingIs
  <2>2. Halves(id, u)
    BY <1>1, <2>1 DEF RolesKept, RoleKept, Removes, At
  <2>3. ASSUME requests # <<>>
        PROVE  requests[1].key # UserFileKey(u, id)
    <3>1. PICK r : r = requests[1]
      OBVIOUS
    <3>2. r \in Requests /\ Named(r)
      BY <2>3, <3>1, InTail DEF RequestsNamed, Typed, CallsTyped
    <3>3. r.from \in Callers /\ call[r.from].op # "none"
      BY <3>2 DEF Requests, Named
    <3>4. id # call[r.from].id
      BY <2>1, <3>3 DEF At
    <3> QED BY <3>1, <3>2, <3>4, OtherFile
  <2> QED BY <2>2, <2>3 DEF Halves
<1> QED BY <1>1 DEF MembersMirrored

\* While no call works on a file that no failed or overlapping call has torn, its two halves of
\* every role agree: the calls for both halves are made together (join! of add_member and
\* remove_member) and handled in that order, and a removal that nothing overlaps deletes the
\* users' halves before it deletes the file's (remove_file).
THEOREM RolesStayMirrored == Spec => []MembersMirrored
<1>1. Init => RequestsNamed /\ RolesKept
  BY InitiallyMirrored
<1>2. IInv /\ RequestsNamed /\ RolesKept /\ [Next]_vars => RequestsNamed' /\ RolesKept'
  BY StayNamed, StayMirrored, NextIsAny DEF IInv
<1>3. IInv /\ RequestsNamed /\ RolesKept => MembersMirrored
  BY MirroredAtRest DEF IInv
<1> QED BY <1>1, <1>2, <1>3, Invariance, PTL DEF Spec

-----------------------------------------------------------------------------
\* Ranks.

\* The positions whose key is less than that of s.
Smaller(key, s) == {t \in DOMAIN key : key[t] < key[s]}

\* Of finitely many elements with different keys, one has k smaller ones, for every k there can be.
LEMMA Ranked ==
  ASSUME NEW S, IsFiniteSet(S), NEW key \in [S -> Nat], \A s, t \in S : key[s] = key[t] => s = t
  PROVE  \A k \in 0 .. Cardinality(S) - 1 : \E s \in S : Cardinality(Smaller(key, s)) = k
<1> DEFINE Below(s) == {t \in S : key[t] < key[s]}
           n == Cardinality(S)
           rank == [s \in S |-> Cardinality(Below(s))]
<1>1. n \in Nat /\ \A s \in S : key[s] \in Nat
  BY FS_CardinalityType
<1>2. ASSUME NEW s \in S
      PROVE  IsFiniteSet(Below(s)) /\ Cardinality(Below(s)) \in 0 .. n - 1
  <2>1. Below(s) \in SUBSET (S \ {s})
    BY <1>1
  <2>2. IsFiniteSet(S \ {s}) /\ Cardinality(S \ {s}) = n - 1
    BY FS_RemoveElement
  <2>3. IsFiniteSet(Below(s)) /\ Cardinality(Below(s)) <= n - 1
    BY <2>1, <2>2, FS_Subset
  <2> QED BY <1>1, <2>3, FS_CardinalityType
<1>3. ASSUME NEW s \in S, NEW t \in S, key[s] < key[t]
      PROVE  Cardinality(Below(s)) # Cardinality(Below(t))
  <2>1. Below(s) \in SUBSET Below(t) /\ s \in Below(t) /\ s \notin Below(s)
    BY <1>1, <1>3
  <2> QED BY <1>2, <2>1, FS_Subset
<1>4. ASSUME NEW s \in S, NEW t \in S, rank[s] = rank[t]
      PROVE  s = t
  <2>1. ~ (key[s] < key[t]) /\ ~ (key[t] < key[s])
    BY <1>3, <1>4
  <2> QED BY <1>1, <2>1
<1>5. rank \in [S -> 0 .. n - 1]
  BY <1>2
<1>6. rank \in Injection(S, 0 .. n - 1)
  BY <1>4, <1>5 DEF Injection, IsInjective
<1>7. IsFiniteSet(0 .. n - 1) /\ Cardinality(0 .. n - 1) = n
  BY <1>1, Counts
<1> HIDE DEF rank
<1>8. rank \in Surjection(S, 0 .. n - 1)
  BY <1>6, <1>7, FS_Injection
<1>9. \A k \in 0 .. n - 1 : \E s \in S : rank[s] = k
  BY <1>8 DEF Surjection
<1>10. \A s \in S : rank[s] = Cardinality(Smaller(key, s))
  BY DEF rank, Smaller
<1> QED BY <1>9, <1>10

\* The first of some numbers.
LEMMA FirstOf ==
  ASSUME NEW S \in SUBSET Nat, IsFiniteSet(S), S # {}
  PROVE  \E s \in S : \A t \in S : s <= t
<1> DEFINE key == [s \in S |-> s]
<1>1. Cardinality(S) \in Nat \ {0}
  BY FS_CardinalityType, FS_EmptySet
<1>2. key \in [S -> Nat] /\ \A s, t \in S : key[s] = key[t] => s = t
  OBVIOUS
<1>3. PICK s \in S : Cardinality(Smaller(key, s)) = 0
  <2> HIDE DEF key
  <2>1. 0 \in 0 .. Cardinality(S) - 1
    BY <1>1
  <2>2. \A k \in 0 .. Cardinality(S) - 1 : \E s \in S : Cardinality(Smaller(key, s)) = k
    BY <1>2, Ranked
  <2> QED BY <2>1, <2>2
<1>4. Smaller(key, s) = {t \in S : t < s}
  BY DEF Smaller
<1>5. {t \in S : t < s} \in SUBSET S
  OBVIOUS
<1>6. {t \in S : t < s} = {}
  BY <1>3, <1>4, <1>5, FS_Subset, FS_EmptySet
<1> QED BY <1>6

-----------------------------------------------------------------------------
\* What a read has.

Chunks == [index : Nat, block : STRING]

\* The chunks of got are those of content with their indexes, each once.
PartOf(got, content) ==
  /\ \A i \in DOMAIN got : got[i].index \in 0 .. Len(content) - 1 /\ got[i].block = content[got[i].index + 1]
  /\ \A i, j \in DOMAIN got : got[i].index = got[j].index => i = j

\* Merged puts the chunks in the order of the content.
LEMMA MergedInOrder ==
  ASSUME NEW content \in Seq(STRING), NEW got \in Seq(Chunks), PartOf(got, content)
  PROVE  /\ InOrder(Merged(got), content)
         /\ (\A n \in 0 .. Len(content) - 1 : \E i \in DOMAIN got : got[i].index = n) =>
              Merged(got) = content
<1> DEFINE D == DOMAIN got
           n == Len(got)
           size == Len(content)
           Before(i) == {j \in D : got[j].index < got[i].index}
           at == [k \in D |-> CHOOSE i \in D : Cardinality(Before(i)) = k - 1]
           place == [k \in D |-> got[at[k]].index + 1]
<1>1. /\ n \in Nat /\ D = 1 .. n /\ IsFiniteSet(D) /\ Cardinality(D) = n
      /\ size \in Nat /\ DOMAIN content = 1 .. size
      /\ \A i \in D : got[i].index \in Nat
  <2>1. n \in Nat /\ D = 1 .. n /\ size \in Nat /\ DOMAIN content = 1 .. size
    OBVIOUS
  <2>2. IsFiniteSet(1 .. n) /\ Cardinality(1 .. n) = n
    BY <2>1, Counts
  <2>3. \A i \in 1 .. n : got[i] \in Chunks
    BY <2>1
  <2> QED BY <2>1, <2>2, <2>3 DEF Chunks
<1>2. \A i \in D : IsFiniteSet(Before(i)) /\ Cardinality(Before(i)) \in Nat
  <2> TAKE i \in D
  <2>1. Before(i) \in SUBSET D
    OBVIOUS
  <2> QED BY <1>1, <2>1, FS_Subset, FS_CardinalityType
<1>3. \A k \in D : at[k] \in D /\ Cardinality(Before(at[k])) = k - 1
  <2> TAKE k \in D
  <2> DEFINE key == [i \in D |-> got[i].index]
  <2>1. key \in [D -> Nat] /\ \A i, j \in D : key[i] = key[j] => i = j
    BY <1>1 DEF PartOf
  <2>2. k - 1 \in 0 .. Cardinality(D) - 1
    BY <1>1
  <2>3. \E i \in D : Cardinality(Smaller(key, i)) = k - 1
    <3> HIDE DEF key, D
    <3>1. \A m \in 0 .. Cardinality(D) - 1 : \E i \in D : Cardinality(Smaller(key, i)) = m
      <4>1. IsFiniteSet(D)
        BY <1>1
      <4> QED BY <2>1, <4>1, Ranked
    <3> QED BY <2>2, <3>1
  <2>4. \A i \in D : Smaller(key, i) = Before(i)
    BY DEF Smaller
  <2>5. \E i \in D : Cardinality(Before(i)) = k - 1
    <3> HIDE DEF Before, key
    <3> QED BY <2>3, <2>4
  <2> HIDE DEF Before
  <2> QED BY <2>5
<1>4. Merged(got) = [k \in D |-> got[at[k]].block]
  BY DEF Merged
<1> HIDE DEF at
<1>5. \A k \in D : place[k] \in 1 .. size /\ got[at[k]].block = content[place[k]]
  <2> TAKE k \in D
  <2>1. at[k] \in D
    BY <1>3
  <2>2. got[at[k]].index \in 0 .. size - 1 /\ got[at[k]].block = content[got[at[k]].index + 1]
    BY <2>1 DEF PartOf
  <2> QED BY <1>1, <2>2
<1>6. ASSUME NEW j \in D, NEW k \in D, j < k
      PROVE  place[j] < place[k]
  <2>0. /\ at[j] \in D /\ at[k] \in D
        /\ got[at[j]].index \in Nat /\ got[at[k]].index \in Nat
        /\ place[j] = got[at[j]].index + 1 /\ place[k] = got[at[k]].index + 1
    BY <1>1, <1>3
  <2>1. SUFFICES ASSUME ~ (got[at[j]].index < got[at[k]].index)
                 PROVE  FALSE
    <3> HIDE DEF place, D
    <3> QED BY <2>0
  <2>2. Before(at[k]) \in SUBSET Before(at[j])
    BY <1>1, <2>0, <2>1
  <2>3. Cardinality(Before(at[k])) <= Cardinality(Before(at[j]))
    BY <1>2, <1>3, <2>2, FS_Subset
  <2>4. k - 1 <= j - 1
    BY <1>3, <2>3
  <2> QED BY <1>1, <1>6, <2>4
<1>7. InOrder(Merged(got), content)
  <2>1. place \in [D -> 1 .. size]
    BY <1>5
  <2>2. DOMAIN Merged(got) = D /\ \A k \in D : Merged(got)[k] = content[place[k]]
    BY <1>4, <1>5
  <2> HIDE DEF place, D
  <2> QED BY <1>1, <1>6, <2>1, <2>2 DEF InOrder
<1>8. ASSUME \A m \in 0 .. size - 1 : \E i \in D : got[i].index = m
      PROVE  Merged(got) = content
  <2>1. ASSUME NEW i \in D
        PROVE  Cardinality(Before(i)) = got[i].index
    <3> DEFINE top == got[i].index
               f == [j \in Before(i) |-> got[j].index]
    <3>1. top \in 0 .. size - 1
      BY <1>1 DEF PartOf
    <3>2. f \in [Before(i) -> 0 .. top - 1]
      BY <1>1
    <3>3. \A j, k \in Before(i) : f[j] = f[k] => j = k
      BY DEF PartOf
    <3>4. \A m \in 0 .. top - 1 : \E j \in Before(i) : f[j] = m
      <4> TAKE m \in 0 .. top - 1
      <4>1. m \in 0 .. size - 1 /\ m < top
        BY <1>1, <3>1
      <4>2. PICK j \in D : got[j].index = m
        BY <1>8, <4>1
      <4> QED BY <4>1, <4>2
    <3>5. ExistsBijection(Before(i), 0 .. top - 1)
      <4> HIDE DEF f, Before, top
      <4>1. f \in Injection(Before(i), 0 .. top - 1)
        BY <3>2, <3>3 DEF Injection, IsInjective
      <4>2. f \in Surjection(Before(i), 0 .. top - 1)
        BY <3>2, <3>4 DEF Surjection
      <4> QED BY <4>1, <4>2 DEF ExistsBijection, Bijection
    <3>6. Cardinality(Before(i)) = Cardinality(0 .. top - 1)
      BY <1>2, <3>5, FS_Bijection
    <3>7. Cardinality(0 .. top - 1) = top
      <4>1. top \in Nat
        BY <1>1
      <4> QED BY <4>1, Counts
    <3> QED BY <3>6, <3>7
  <2>2. ASSUME NEW k \in D
        PROVE  place[k] = k
    <3>1. got[at[k]].index = k - 1
      BY <1>3, <2>1
    <3> QED BY <1>1, <3>1
  <2>3. n = size
    <3> DEFINE f == [j \in D |-> got[j].index]
    <3>1. f \in [D -> 0 .. size - 1]
      BY DEF PartOf
    <3>2. \A j, k \in D : f[j] = f[k] => j = k
      BY DEF PartOf
    <3>3. ExistsBijection(D, 0 .. size - 1)
      <4>1. \A m \in 0 .. size - 1 : \E j \in D : f[j] = m
        BY <1>8
      <4> HIDE DEF f, D
      <4>2. f \in Injection(D, 0 .. size - 1)
        BY <3>1, <3>2 DEF Injection, IsInjective
      <4>3. f \in Surjection(D, 0 .. size - 1)
        BY <3>1, <4>1 DEF Surjection
      <4> QED BY <4>2, <4>3 DEF ExistsBijection, Bijection
    <3>4. Cardinality(0 .. size - 1) = n
      BY <1>1, <3>3, FS_Bijection
    <3> QED BY <1>1, <3>4, Counts
  <2>4. content = [k \in 1 .. size |-> content[k]]
    OBVIOUS
  <2>5. \A k \in 1 .. size : got[at[k]].block = content[k]
    BY <1>1, <1>5, <2>2, <2>3
  <2>6. Merged(got) = [k \in 1 .. size |-> got[at[k]].block]
    BY <1>1, <1>4, <2>3
  <2>7. [k \in 1 .. size |-> got[at[k]].block] = [k \in 1 .. size |-> content[k]]
    BY <2>5
  <2> QED BY <2>4, <2>6, <2>7
<1> QED BY <1>7, <1>8

\* The invariant.

Kinds == {"transactions", "company", "scope", "materials"}
Things == ShipmentTypes \cup Certificates
CertificateDocuments == [externalUrl : Urls, filename : Filenames]

Steps ==
  [op : {"upload"}, given : [document : Things, url : Urls, content : Contents]]
    \cup [op : {"add"}, type : ShipmentTypes, url : Urls]
    \cup [op : {"redirect"}, id : Nat, url : Urls]
    \cup [op : {"certify"}, certificate : Certificates, document : CertificateDocuments]
    \cup [op : {"search"}, id : Nat]
    \cup [op : {"read"}, url : Urls]

ReadsUnderWay == [id : Nat, left : SUBSET Nat, got : Seq(Chunks), refused : BOOLEAN,
                  dropped : BOOLEAN, astray : BOOLEAN]
Portions == [url : Urls, content : {Merged(got) : got \in Seq(Chunks)}, dropped : BOOLEAN,
          astray : BOOLEAN]
Jobs == [document : Things \cup {"none"}, todo : Seq(Steps), read : {NoRead} \cup ReadsUnderWay,
         parts : Seq(Portions), mistaken : BOOLEAN]

JobsTyped == job \in [Callers -> Jobs]

\* What is stored or on its way was given under the name it has.
Announced ==
  /\ \A id \in DOMAIN files : files[id].declared \in GivenAs(files[id].name)
  /\ \A id \in DOMAIN pending : pending[id].declared \in GivenAs(pending[id].name)

\* The URL is one the document was uploaded under, or pointed to.
Own(document, url) == \E g \in given : g.url = url /\ g.document = document

\* The record has the URL for a document of the type.
HasUrl(r, type, url) == \E i \in 1 .. Len(r.documents) :
  /\ r.documents[i].type = type
  /\ \E k \in 1 .. Len(r.documents[i].docs) : r.documents[i].docs[k].externalUrl = url

\* The records have URLs of the documents they have them for.
Recorded ==
  /\ record \in Shipment!Record
  /\ \A type, url : HasUrl(record, type, url) => Own(type, url) /\ Own(type, MetadataUrl(url))
  /\ \A certificate \in DOMAIN certificates :
       /\ certificate \in Certificates /\ certificates[certificate] \in CertificateDocuments
       /\ Own(certificate, certificates[certificate].externalUrl)

\* The read has chunks of the content, and waits for others; none is missing unless the read
\* knows it.
HasOf(read, content) ==
  /\ PartOf(read.got, content)
  /\ read.left \subseteq 0 .. Len(content) - 1
  /\ \A i \in DOMAIN read.got : read.got[i].index \notin read.left
  /\ ~ read.dropped /\ ~ read.refused => \A n \in 0 .. Len(content) - 1 :
       n \in read.left \/ \E i \in DOMAIN read.got : read.got[i].index = n

\* The file with the id, if there is one, has the content.
StillThere(id, content) == id \in DOMAIN files =>
  /\ DOMAIN files[id].chunks = 0 .. Len(content) - 1
  /\ \A n \in 0 .. Len(content) - 1 : files[id].chunks[n] = content[n + 1]

Faithful(read, url) == ~ read.astray =>
  \E content \in GivenAs(url) \cap Contents : HasOf(read, content) /\ StillThere(read.id, content)

\* When the step at a place is due, the URL is one of the document: it is now, or an upload before
\* makes it so.
Prepared(todo, i, document, url) ==
  \/ Own(document, url)
  \/ \E k \in 1 .. i - 1 : /\ todo[k].op = "upload"
                           /\ todo[k].given.document = document /\ todo[k].given.url = url

\* What will be recorded of a document, or read for it, is its own; a search comes first.
StepsKept(document, mistaken, todo) == \A i \in 1 .. Len(todo) :
  /\ todo[i].op = "add" => /\ Prepared(todo, i, todo[i].type, todo[i].url)
                           /\ Prepared(todo, i, todo[i].type, MetadataUrl(todo[i].url))
  /\ todo[i].op = "certify" => Prepared(todo, i, todo[i].certificate, todo[i].document.externalUrl)
  /\ todo[i].op = "read" => mistaken \/ Own(document, todo[i].url)
  /\ todo[i].op = "search" => i = 1

\* A part that was read is one of the contents given, or what is left of one.
Seen(part) == ~ part.astray => \E content \in GivenAs(part.url) :
  IF part.dropped THEN InOrder(part.content, content) ELSE part.content = content

\* What was read is what was uploaded, of the document unless the search was mistaken.
PartsKept(document, mistaken, parts) == \A i \in DOMAIN parts :
  Seen(parts[i]) /\ (mistaken \/ Own(document, parts[i].url))

JobKept(j) ==
  /\ StepsKept(j.document, j.mistaken, j.todo)
  /\ PartsKept(j.document, j.mistaken, j.parts)
  /\ (\E i \in 1 .. Len(j.todo) : j.todo[i].op = "search") => j.parts = <<>>
  /\ j.read # NoRead =>
       j.todo # <<>> /\ Head(j.todo).op = "read" /\ Faithful(j.read, Head(j.todo).url)

Ongoing == {job[c] : c \in Callers}
JobsKept == \A j \in Ongoing : JobKept(j)

DocumentsInv == JobsTyped /\ Announced /\ Recorded /\ JobsKept

\* The invariant says what readers see.
LEMMA JobsShow ==
  ASSUME JobsKept
  PROVE  ReadersSeeUploads
<1>1. ASSUME NEW c \in Callers
      PROVE  PartsKept(job[c].document, job[c].mistaken, job[c].parts)
  <2>1. job[c] \in Ongoing
    BY DEF Ongoing
  <2> QED BY <2>1 DEF JobsKept, JobKept
<1> QED BY <1>1 DEF PartsKept, Seen, Own, ReadersSeeUploads

-----------------------------------------------------------------------------
\* Types.

\* The URLs of documents and of their metadata are URLs.
LEMMA UrlTyped ==
  /\ \A kind \in Kinds, name \in Names : Url(kind, name) \in Urls
  /\ \A url \in Urls : MetadataUrl(url) \in Urls /\ url.kind \in Kinds
<1>1. ASSUME NEW kind \in Kinds, NEW name \in Names
      PROVE  Url(kind, name) \in Urls
  BY DEF Url, Urls, Kinds
<1>2. ASSUME NEW url \in Urls
      PROVE  MetadataUrl(url) \in Urls /\ url.kind \in Kinds
  BY DEF MetadataUrl, Urls, Kinds
<1> QED BY <1>1, <1>2

\* The steps of the operations are steps.
LEMMA StepsTyped ==
  ASSUME NEW url \in Urls
  PROVE  /\ \A document \in Things, content \in Contents : Upload(document, url, content) \in Steps
         /\ \A type \in ShipmentTypes : Add(type, url) \in Steps
         /\ \A id \in Nat : Redirect(id, url) \in Steps /\ Search(id) \in Steps
         /\ \A certificate \in Certificates, filename \in Filenames :
              Certify(certificate, url, filename) \in Steps
         /\ Read(url) \in Steps
BY DEF Upload, Given, Add, Redirect, Search, Certify, CertificateDocuments, Read, Steps

\* What the steps have.
LEMMA StepOf ==
  ASSUME NEW step \in Steps
  PROVE  /\ step.op = "upload" => step.given \in [document : Things, url : Urls, content : Contents]
         /\ step.op = "add" => step.type \in ShipmentTypes /\ step.url \in Urls
         /\ step.op = "redirect" => step.url \in Urls
         /\ step.op = "certify" => step.certificate \in Certificates /\ step.document \in CertificateDocuments
         /\ step.op = "read" => step.url \in Urls
<1>1. CASE step \in [op : {"upload"}, given : [document : Things, url : Urls, content : Contents]]
  BY <1>1
<1>2. CASE step \in [op : {"add"}, type : ShipmentTypes, url : Urls]
  BY <1>2
<1>3. CASE step \in [op : {"redirect"}, id : Nat, url : Urls]
  BY <1>3
<1>4. CASE step \in [op : {"certify"}, certificate : Certificates, document : CertificateDocuments]
  BY <1>4
<1>5. CASE step \in [op : {"search"}, id : Nat]
  BY <1>5
<1>6. CASE step \in [op : {"read"}, url : Urls]
  BY <1>6
<1> QED BY <1>1, <1>2, <1>3, <1>4, <1>5, <1>6 DEF Steps

\* What the types say of a client's job.
LEMMA JobOf ==
  ASSUME JobsTyped, NEW c \in Callers
  PROVE  /\ job[c] \in Jobs /\ job[c] \in Ongoing
         /\ job[c] = [document |-> job[c].document, todo |-> job[c].todo, read |-> job[c].read,
                      parts |-> job[c].parts, mistaken |-> job[c].mistaken]
         /\ job[c].todo \in Seq(Steps) /\ job[c].parts \in Seq(Portions)
         /\ Reading(c) => job[c].read \in ReadsUnderWay
<1>1. job[c] \in Jobs /\ job[c] \in Ongoing
  BY DEF JobsTyped, Ongoing
<1> QED BY <1>1 DEF Jobs, Reading

\* The first of the steps left, and the others.
LEMMA FirstStep ==
  ASSUME NEW todo \in Seq(Steps), todo # <<>>
  PROVE  /\ Head(todo) \in Steps /\ Head(todo) = todo[1] /\ 1 \in 1 .. Len(todo)
         /\ Tail(todo) \in Seq(Steps)
         /\ \A i \in 1 .. Len(Tail(todo)) : i + 1 \in 1 .. Len(todo) /\ Tail(todo)[i] = todo[i + 1]
OBVIOUS

-----------------------------------------------------------------------------
\* The record of the shipment.

\* The first and the last of some places.
LEMMA Extremes ==
  ASSUME NEW n \in Nat, NEW S \in SUBSET (1 .. n), S # {}
  PROVE  Shipment!Min(S) \in S /\ Max(S) \in S
<1>1. IsFiniteSet(1 .. n)
  BY FS_Interval
<1>2. IsFiniteSet(S) /\ S \in SUBSET Nat
  <2>1. IsFiniteSet(S)
    BY <1>1, FS_Subset
  <2>2. 1 .. n \subseteq Nat
    OBVIOUS
  <2> QED BY <2>1, <2>2
<1>3. Shipment!Min(S) \in S
  <2>1. \E s \in S : \A t \in S : s <= t
    BY <1>2, FirstOf
  <2> QED BY <2>1 DEF Shipment!Min
<1> DEFINE T == {n - s : s \in S}
<1>4. T \in SUBSET (0 .. n) /\ T # {}
  <2>1. \A s \in 1 .. n : n - s \in 0 .. n
    OBVIOUS
  <2> QED BY <2>1
<1>5. IsFiniteSet(0 .. n)
  BY FS_Interval
<1>6. IsFiniteSet(T) /\ T \in SUBSET Nat
  <2>1. IsFiniteSet(T)
    BY <1>4, <1>5, FS_Subset
  <2>2. 0 .. n \subseteq Nat
    OBVIOUS
  <2> QED BY <1>4, <2>1, <2>2
<1>7. \E s \in T : \A t \in T : s <= t
  <2> HIDE DEF T
  <2> QED BY <1>4, <1>6, FirstOf
<1>8. \E s \in S : \A t \in S : s >= t
  <2>1. PICK s \in S : \A t \in T : n - s <= t
    BY <1>7
  <2>2. \A t \in S : n - s <= n - t
    BY <2>1
  <2>3. \A t \in S : s \in Int /\ t \in Int
    BY <1>2
  <2>4. \A t \in S : s >= t
    BY <2>2, <2>3
  <2> QED BY <2>4
<1>9. Max(S) \in S
  BY <1>8 DEF Max
<1> QED BY <1>3, <1>9

\* Where the documents of a type are, and the document with an id.
LEMMA Places ==
  ASSUME NEW r \in Shipment!Record
  PROVE  /\ \A type : LET place == Shipment!PlaceOfType(r, type) IN
              place = 0 \/ (place \in 1 .. Len(r.documents) /\ r.documents[place].type = type)
         /\ \A id : LET place == Shipment!PlaceOfId(r, id) IN
              place = 0 \/ place \in 1 .. Len(r.documents)
<1>1. r.documents \in Seq(Shipment!Tuple) /\ Len(r.documents) \in Nat
  BY DEF Shipment!Record
<1>2. ASSUME NEW type
      PROVE  LET place == Shipment!PlaceOfType(r, type) IN
             place = 0 \/ (place \in 1 .. Len(r.documents) /\ r.documents[place].type = type)
  <2> DEFINE I == {i \in 1 .. Len(r.documents) : r.documents[i].type = type}
  <2>1. Shipment!PlaceOfType(r, type) = IF I # {} THEN Shipment!Min(I) ELSE 0
    BY Zenon DEF Shipment!PlaceOfType, Shipment!SelectInSeq
  <2>2. I # {} => Shipment!Min(I) \in I
    <3>1. I \in SUBSET (1 .. Len(r.documents))
      OBVIOUS
    <3> HIDE DEF I
    <3> QED BY <1>1, <3>1, Extremes
  <2> QED BY <2>1, <2>2
<1>3. ASSUME NEW id
      PROVE  LET place == Shipment!PlaceOfId(r, id) IN place = 0 \/ place \in 1 .. Len(r.documents)
  <2> DEFINE I == {i \in 1 .. Len(r.documents) :
                     \E k \in DOMAIN r.documents[i].docs : r.documents[i].docs[k].id = id}
  <2>1. Shipment!PlaceOfId(r, id) = IF I # {} THEN Shipment!Min(I) ELSE 0
    BY Zenon DEF Shipment!PlaceOfId, Shipment!SelectInSeq
  <2>2. I # {} => Shipment!Min(I) \in I
    <3>1. I \in SUBSET (1 .. Len(r.documents))
      OBVIOUS
    <3> HIDE DEF I
    <3> QED BY <1>1, <3>1, Extremes
  <2> QED BY <2>1, <2>2
<1> QED BY <1>2, <1>3

\* Where a document with an id is in its tuple.
LEMMA PlaceIsIn ==
  ASSUME NEW docs \in Seq(Shipment!Document), NEW id, \E k \in DOMAIN docs : docs[k].id = id
  PROVE  Shipment!PlaceInTuple(docs, id) \in 1 .. Len(docs)
<1> DEFINE K == {k \in 1 .. Len(docs) : docs[k].id = id}
<1>1. Shipment!PlaceInTuple(docs, id) = IF K # {} THEN Shipment!Min(K) ELSE 0
  BY Zenon DEF Shipment!PlaceInTuple, Shipment!SelectInSeq
<1>2. Len(docs) \in Nat /\ K \in SUBSET (1 .. Len(docs)) /\ K # {}
  OBVIOUS
<1>3. Shipment!Min(K) \in K
  <2> HIDE DEF K
  <2> QED BY <1>2, Extremes
<1> QED BY <1>1, <1>2, <1>3

\* A record of which one tuple is another, or that has one more: its URLs are those it had, and
\* those of the tuple.
LEMMA TupleIs ==
  ASSUME NEW r \in Shipment!Record, NEW tuple \in Shipment!Tuple, NEW place \in 0 .. Len(r.documents),
         NEW s, s = [r EXCEPT !.documents = IF place = 0 THEN Append(r.documents, tuple)
                                            ELSE [r.documents EXCEPT ![place] = tuple]]
  PROVE  /\ s \in Shipment!Record
         /\ \A type, url : HasUrl(s, type, url) =>
              \/ HasUrl(r, type, url)
              \/ type = tuple.type /\ \E k \in 1 .. Len(tuple.docs) : tuple.docs[k].externalUrl = url
<1>1. PICK d : d = r.documents
  OBVIOUS
<1>2. PICK e : e = IF place = 0 THEN Append(d, tuple) ELSE [d EXCEPT ![place] = tuple]
  OBVIOUS
<1>3. d \in Seq(Shipment!Tuple) /\ Len(d) \in Nat
  BY <1>1 DEF Shipment!Record
<1>4. e \in Seq(Shipment!Tuple)
  <2>1. CASE place = 0
    BY <1>2, <1>3, <2>1
  <2>2. CASE place # 0
    <3>1. e = [d EXCEPT ![place] = tuple]
      BY <1>2, <2>2
    <3>2. d \in [1 .. Len(d) -> Shipment!Tuple]
      BY <1>3
    <3>3. e \in [1 .. Len(d) -> Shipment!Tuple]
      BY <3>1, <3>2
    <3> QED BY <1>3, <3>3
  <2> QED BY <2>1, <2>2
<1>5. s = [r EXCEPT !.documents = e]
  BY <1>1, <1>2
<1>6. s \in Shipment!Record /\ s.documents = e
  <2> HIDE DEF Shipment!Tuple
  <2> QED BY <1>4, <1>5 DEF Shipment!Record
<1>7. \A i \in 1 .. Len(e) : e[i] = tuple \/ (i \in 1 .. Len(d) /\ e[i] = d[i])
  BY <1>2, <1>3
<1> QED BY <1>1, <1>6, <1>7 DEF HasUrl

\* The URLs of a record to which a document was added.
LEMMA AddedIs ==
  ASSUME NEW r \in Shipment!Record, NEW s, NEW type \in ShipmentTypes, NEW user \in Users,
         NEW url \in Urls, Shipment!AddDocument(r, s, type, user, url)
  PROVE  /\ s \in Shipment!Record
         /\ \A t, u : HasUrl(s, t, u) => HasUrl(r, t, u) \/ (t = type /\ u = url)
<1> DEFINE place == Shipment!PlaceOfType(r, type)
<1>1. PICK new : new = Shipment!NewDocument(r, user, url)
  OBVIOUS
<1>2. PICK docs : docs = Shipment!GetDocumentsByType(r, type)
  OBVIOUS
<1>3. PICK all : all = IF type = Generic THEN Append(docs, new) ELSE <<new>>
  OBVIOUS
<1>4. s = Shipment!WithTuple(r, type, all)
  BY <1>1, <1>2, <1>3, Zenon DEF Shipment!AddDocument
<1>5. PICK tuple : tuple = [type |-> type, docs |-> all]
  OBVIOUS
<1>6. s = [r EXCEPT !.documents = IF place = 0 THEN Append(r.documents, tuple)
                                  ELSE [r.documents EXCEPT ![place] = tuple]]
  BY <1>4, <1>5, Zenon DEF Shipment!WithTuple
<1>7. docs = IF place = 0 THEN <<>> ELSE r.documents[place].docs
  BY <1>2, Zenon DEF Shipment!GetDocumentsByType
<1>8. place = 0 \/ (place \in 1 .. Len(r.documents) /\ r.documents[place].type = type)
  BY Places, Zenon
<1> HIDE DEF place
<1>9. r.documents \in Seq(Shipment!Tuple) /\ Len(r.documents) \in Nat
  BY DEF Shipment!Record
<1>10. new \in Shipment!Document /\ new.externalUrl = url
  BY <1>1, <1>9 DEF Shipment!NewDocument, Shipment!Document, Shipment!Verdicts
<1>11. place # 0 => r.documents[place] \in Shipment!Tuple
  BY <1>8, <1>9
<1>12. docs \in Seq(Shipment!Document)
  BY <1>7, <1>11 DEF Shipment!Tuple
<1>13. all \in Seq(Shipment!Document)
       /\ \A k \in 1 .. Len(all) : all[k] = new \/ (k \in 1 .. Len(docs) /\ all[k] = docs[k])
  BY <1>3, <1>10, <1>12
<1>14. tuple \in Shipment!Tuple /\ tuple.type = type /\ tuple.docs = all
  BY <1>5, <1>13 DEF Shipment!Tuple
<1>15. place \in 0 .. Len(r.documents)
  BY <1>8, <1>9
<1>16. /\ s \in Shipment!Record
       /\ \A t, u : HasUrl(s, t, u) =>
            \/ HasUrl(r, t, u)
            \/ t = tuple.type /\ \E k \in 1 .. Len(tuple.docs) : tuple.docs[k].externalUrl = u
  BY <1>6, <1>14, <1>15, TupleIs
<1>17. ASSUME NEW u, NEW k \in 1 .. Len(all), all[k].externalUrl = u
       PROVE  HasUrl(r, type, u) \/ u = url
  <2>1. CASE all[k] = new
    BY <1>10, <1>17, <2>1
  <2>2. CASE k \in 1 .. Len(docs) /\ all[k] = docs[k]
    <3>1. place # 0
      BY <1>7, <2>2
    <3> QED BY <1>7, <1>8, <1>17, <2>2, <3>1 DEF HasUrl
  <2> QED BY <1>13, <2>1, <2>2
<1> QED BY <1>14, <1>16, <1>17

\* The URLs of a record of which a document was pointed elsewhere.
LEMMA UpdatedIs ==
  ASSUME NEW r \in Shipment!Record, NEW s, NEW id, NEW user \in Users, NEW url \in Urls,
         Shipment!UpdateDocument(r, s, id, user, url),
         NEW type, type = r.documents[Shipment!PlaceOfId(r, id)].type
  PROVE  /\ s \in Shipment!Record
         /\ \A t, u : HasUrl(s, t, u) => HasUrl(r, t, u) \/ (t = type /\ u = url)
<1> DEFINE place == Shipment!PlaceOfId(r, id)
<1>1. PICK old : old = r.documents[place]
  OBVIOUS
<1>2. PICK at : at = Shipment!PlaceInTuple(old.docs, id)
  OBVIOUS
<1>3. PICK doc : doc = [old.docs[at] EXCEPT !.externalUrl = url, !.uploadedBy = user]
  OBVIOUS
<1>4. PICK docs : docs = [old.docs EXCEPT ![at] = doc]
  OBVIOUS
<1>5. PICK tuple : tuple = [old EXCEPT !.docs = docs]
  OBVIOUS
<1>6. /\ place # 0
      /\ s = [r EXCEPT !.documents[place].docs[at] = [@ EXCEPT !.externalUrl = url, !.uploadedBy = user]]
  BY <1>1, <1>2, Zenon DEF Shipment!UpdateDocument
<1>7. place = 0 \/ place \in 1 .. Len(r.documents)
  BY Places, Zenon
<1>8. old.type = type
  BY <1>1
<1> HIDE DEF place
<1>9. s = [r EXCEPT !.documents = [r.documents EXCEPT ![place] = tuple]]
  BY <1>1, <1>3, <1>4, <1>5, <1>6, Zenon
<1>10. r.documents \in Seq(Shipment!Tuple) /\ Len(r.documents) \in Nat
  BY DEF Shipment!Record
<1>11. old \in Shipment!Tuple
  BY <1>1, <1>6, <1>7, <1>10
<1>12. old.docs \in Seq(Shipment!Document)
  BY <1>11 DEF Shipment!Tuple
<1>13. /\ docs \in Seq(Shipment!Document) /\ Len(docs) = Len(old.docs)
       /\ \A k \in 1 .. Len(docs) : docs[k].externalUrl = url \/ docs[k] = old.docs[k]
  <2>1. CASE at \in 1 .. Len(old.docs)
    <3>1. old.docs[at] \in Shipment!Document
      BY <1>12, <2>1
    <3>2. doc \in Shipment!Document /\ doc.externalUrl = url
      BY <1>3, <3>1 DEF Shipment!Document
    <3> QED BY <1>4, <1>12, <2>1, <3>2
  <2>2. CASE at \notin 1 .. Len(old.docs)
    <3>1. docs = old.docs
      BY <1>4, <1>12, <2>2
    <3> QED BY <1>12, <3>1
  <2> QED BY <2>1, <2>2
<1>14. tuple \in Shipment!Tuple /\ tuple.type = type /\ tuple.docs = docs
  BY <1>5, <1>8, <1>11, <1>13 DEF Shipment!Tuple
<1>15. place \in 0 .. Len(r.documents) /\ place # 0
  BY <1>6, <1>7, <1>10
<1>16. /\ s \in Shipment!Record
       /\ \A t, u : HasUrl(s, t, u) =>
            \/ HasUrl(r, t, u)
            \/ t = tuple.type /\ \E k \in 1 .. Len(tuple.docs) : tuple.docs[k].externalUrl = u
  <2>1. s = [r EXCEPT !.documents = IF place = 0 THEN Append(r.documents, tuple)
                                    ELSE [r.documents EXCEPT ![place] = tuple]]
    BY <1>9, <1>15
  <2> QED BY <1>14, <1>15, <2>1, TupleIs
<1>17. ASSUME NEW u, NEW k \in 1 .. Len(docs), docs[k].externalUrl = u
       PROVE  HasUrl(r, type, u) \/ u = url
  <2>1. place \in 1 .. Len(r.documents) /\ Len(docs) = Len(old.docs)
    BY <1>6, <1>7, <1>13
  <2>2. CASE docs[k] = old.docs[k]
    BY <1>1, <1>8, <1>17, <2>1, <2>2 DEF HasUrl
  <2> QED BY <1>13, <1>17, <2>2
<1> QED BY <1>14, <1>16, <1>17

\* What a search finds is a document with the id, under a URL of its type.
LEMMA FoundIs ==
  ASSUME Recorded, NEW id, Holding(id) # {}, NEW url, url = DocumentInfo(id).externalUrl
  PROVE  url \in Urls /\ \E i \in Holding(id) : HasUrl(record, record.documents[i].type, url)
<1>1. PICK d : d = record.documents
  OBVIOUS
<1>2. d \in Seq(Shipment!Tuple) /\ Len(d) \in Nat /\ DOMAIN d = 1 .. Len(d)
  BY <1>1 DEF Recorded, Shipment!Record
<1>3. PICK i : i = Max(Holding(id))
  OBVIOUS
<1>4. i \in Holding(id)
  <2>1. Holding(id) \in SUBSET (1 .. Len(d))
    BY <1>1, <1>2 DEF Holding
  <2> QED BY <1>2, <1>3, <2>1, Extremes
<1>5. PICK docs : docs = d[i].docs
  OBVIOUS
<1>6. i \in 1 .. Len(d) /\ \E k \in DOMAIN docs : docs[k].id = id
  BY <1>1, <1>2, <1>4, <1>5 DEF Holding
<1>7. docs \in Seq(Shipment!Document)
  <2>1. d[i] \in Shipment!Tuple
    BY <1>2, <1>6
  <2> QED BY <1>5, <2>1 DEF Shipment!Tuple
<1>8. PICK k : k = Shipment!PlaceInTuple(docs, id)
  OBVIOUS
<1>9. k \in 1 .. Len(docs)
  BY <1>6, <1>7, <1>8, PlaceIsIn
<1>10. DocumentInfo(id) = docs[k]
  BY <1>1, <1>3, <1>5, <1>8, Zenon DEF DocumentInfo
<1>11. url \in Urls
  <2>1. docs[k] \in Shipment!Document
    BY <1>7, <1>9
  <2> QED BY <1>10, <2>1 DEF Shipment!Document
<1>12. HasUrl(record, record.documents[i].type, url)
  BY <1>1, <1>5, <1>6, <1>9, <1>10 DEF HasUrl
<1> QED BY <1>4, <1>11, <1>12

-----------------------------------------------------------------------------
\* Operations that begin.

\* The client c begins an operation of which all that will be recorded, or read, is prepared.
Beginning(c) == \E document \in Things : \E todo \in Seq(Steps) :
  Begins(c, document, todo) /\ StepsKept(document, FALSE, todo)

\* A document of a shipment is uploaded with its metadata, and then added.
LEMMA AddBegins ==
  ASSUME Typed, NEW c \in Callers, NEW type \in ShipmentTypes, NEW name \in Names,
         NEW content \in workload.contents, AddDocument(c, type, name, content)
  PROVE  Beginning(c)
<1>1. PICK url : url = Url("transactions", name)
  OBVIOUS
<1>2. PICK file : file = Upload(type, url, content)
  OBVIOUS
<1>3. PICK metadata : metadata = Upload(type, MetadataUrl(url), <<type>>)
  OBVIOUS
<1>4. PICK add : add = Add(type, url)
  OBVIOUS
<1>5. Begins(c, type, <<file, metadata, add>>)
  BY <1>1, <1>2, <1>3, <1>4 DEF AddDocument
<1>6. url \in Urls /\ MetadataUrl(url) \in Urls
  BY <1>1, UrlTyped DEF Kinds
<1>7. content \in Contents /\ <<type>> \in Contents /\ type \in Things
  BY WorkloadTyped, DocumentsAssumption DEF Things
<1>8. file \in Steps /\ metadata \in Steps /\ add \in Steps
  BY <1>2, <1>3, <1>4, <1>6, <1>7, StepsTyped
<1>9. /\ file.op = "upload" /\ file.given.document = type /\ file.given.url = url
      /\ metadata.op = "upload" /\ metadata.given.document = type
      /\ metadata.given.url = MetadataUrl(url)
      /\ add.op = "add" /\ add.type = type /\ add.url = url
  BY <1>2, <1>3, <1>4 DEF Upload, Given, Add
<1>10. PICK todo : todo = <<file, metadata, add>>
  OBVIOUS
<1>11. /\ todo \in Seq(Steps) /\ Len(todo) = 3 /\ todo[1] = file /\ todo[2] = metadata
       /\ todo[3] = add /\ \A i \in 1 .. 3 : i = 1 \/ i = 2 \/ i = 3
  BY <1>8, <1>10
<1>12. Prepared(todo, 3, type, url) /\ Prepared(todo, 3, type, MetadataUrl(url))
  BY <1>9, <1>11 DEF Prepared
<1>13. StepsKept(type, FALSE, todo)
  BY <1>9, <1>11, <1>12 DEF StepsKept
<1> QED BY <1>5, <1>7, <1>10, <1>11, <1>13 DEF Beginning

\* An operation of one step.
LEMMA OneStep ==
  ASSUME NEW c \in Callers, NEW document \in Things, NEW step \in Steps,
         Begins(c, document, <<step>>), step.op # "add",
         step.op = "certify" => Own(step.certificate, step.document.externalUrl),
         step.op = "read" => Own(document, step.url)
  PROVE  Beginning(c)
<1>1. PICK todo : todo = <<step>>
  OBVIOUS
<1>2. todo \in Seq(Steps) /\ Len(todo) = 1 /\ todo[1] = step
  BY <1>1
<1>3. StepsKept(document, FALSE, todo)
  BY <1>2 DEF StepsKept, Prepared
<1> QED BY <1>1, <1>2, <1>3 DEF Beginning

\* The entries of the record have types and ids.
LEMMA EntryTyped ==
  ASSUME Recorded, NEW entry \in Entries
  PROVE  entry.type \in ShipmentTypes /\ entry.type \in Things /\ entry.id \in Nat
<1>1. PICK t \in ToSet(record.documents) :
        entry \in {[type |-> t.type, id |-> d.id] : d \in ToSet(t.docs)}
  BY DEF Entries
<1>2. PICK d \in ToSet(t.docs) : entry = [type |-> t.type, id |-> d.id]
  BY <1>1
<1>3. t \in Shipment!Tuple
  <2>1. record.documents \in Seq(Shipment!Tuple)
    BY DEF Recorded, Shipment!Record
  <2> QED BY <2>1 DEF ToSet
<1>4. d \in Shipment!Document
  <2>1. t.docs \in Seq(Shipment!Document)
    BY <1>3 DEF Shipment!Tuple
  <2> QED BY <2>1 DEF ToSet
<1> QED BY <1>2, <1>3, <1>4 DEF Shipment!Tuple, Shipment!Document, Things

\* A document of a shipment is pointed elsewhere, or searched.
LEMMA EntryBegins ==
  ASSUME Recorded, NEW c \in Callers, NEW entry \in Entries,
         GetDocument(c, entry) \/ \E name \in Names : UpdateUrl(c, entry, name)
  PROVE  Beginning(c)
<1>1. entry.type \in Things /\ entry.id \in Nat
  BY EntryTyped
<1>2. ASSUME NEW name \in Names, UpdateUrl(c, entry, name)
      PROVE  Beginning(c)
  <2>1. PICK step : step = Redirect(entry.id, Url("transactions", name))
    OBVIOUS
  <2>2. step \in Steps /\ step.op = "redirect"
    <3>1. Url("transactions", name) \in Urls
      BY UrlTyped DEF Kinds
    <3>2. step \in Steps
      BY <1>1, <2>1, <3>1, StepsTyped
    <3> QED BY <2>1, <3>2 DEF Redirect
  <2>3. Begins(c, entry.type, <<step>>)
    BY <1>2, <2>1 DEF UpdateUrl
  <2> QED BY <1>1, <2>2, <2>3, OneStep
<1>3. CASE GetDocument(c, entry)
  <2>1. PICK step : step = Search(entry.id)
    OBVIOUS
  <2>2. step \in Steps /\ step.op = "search"
    <3>1. step \in [op : {"search"}, id : Nat]
      BY <1>1, <2>1 DEF Search
    <3>2. step \in Steps
      BY <3>1 DEF Steps
    <3> QED BY <2>1, <3>2 DEF Search
  <2>3. Begins(c, entry.type, <<step>>)
    BY <1>3, <2>1 DEF GetDocument
  <2> QED BY <1>1, <2>2, <2>3, OneStep
<1> QED BY <1>2, <1>3

\* The file of a certificate is uploaded before the certificate has its URL.
LEMMA UploadBegins ==
  ASSUME NEW c \in Callers, NEW certificate \in Certificates, NEW url \in Urls,
         NEW filename \in Filenames, NEW content \in Contents,
         Begins(c, certificate, AddDocumentToExtStorage(certificate, url, filename, content))
  PROVE  Beginning(c)
<1>1. PICK file : file = Upload(certificate, url, content)
  OBVIOUS
<1>2. PICK certify : certify = Certify(certificate, url, filename)
  OBVIOUS
<1>3. certificate \in Things
  BY DEF Things
<1>4. file \in Steps /\ certify \in Steps
  BY <1>1, <1>2, <1>3, StepsTyped
<1>5. /\ file.op = "upload" /\ file.given.document = certificate /\ file.given.url = url
      /\ certify.op = "certify" /\ certify.certificate = certificate
      /\ certify.document.externalUrl = url
  BY <1>1, <1>2 DEF Upload, Given, Certify
<1>6. PICK todo : todo = <<file, certify>>
  OBVIOUS
<1>7. /\ todo \in Seq(Steps) /\ Len(todo) = 2 /\ todo[1] = file /\ todo[2] = certify
      /\ \A i \in 1 .. 2 : i = 1 \/ i = 2
  BY <1>4, <1>6
<1>8. Prepared(todo, 2, certificate, url)
  BY <1>5, <1>7 DEF Prepared
<1>9. StepsKept(certificate, FALSE, todo)
  BY <1>5, <1>7, <1>8 DEF StepsKept
<1>10. Begins(c, certificate, todo)
  BY <1>1, <1>2, <1>6 DEF AddDocumentToExtStorage
<1> QED BY <1>3, <1>7, <1>9, <1>10 DEF Beginning

\* The operations on certificates.
LEMMA CertificatesBegin ==
  ASSUME Typed, Recorded, NEW c \in Callers, NEW certificate \in Certificates, NEW name \in Names,
         NEW filename \in Filenames, NEW content \in workload.contents,
         \/ RegisterCompanyCertificate(c, certificate, name, filename, content)
         \/ RegisterScopeCertificate(c, certificate, name, filename, content)
         \/ RegisterMaterialCertificate(c, certificate, name, filename, content)
         \/ UpdateDocument(c, certificate, name, filename, content)
  PROVE  Beginning(c)
<1>1. content \in Contents
  BY WorkloadTyped
<1>2. ASSUME NEW kind \in Kinds, Register(c, kind, certificate, name, filename, content)
      PROVE  Beginning(c)
  <2>1. Url(kind, name) \in Urls
    BY UrlTyped
  <2> QED BY <1>1, <1>2, <2>1, UploadBegins DEF Register
<1>3. CASE UpdateDocument(c, certificate, name, filename, content)
  <2>1. PICK old : old = certificates[certificate]
    OBVIOUS
  <2>2. /\ old \in CertificateDocuments /\ Own(certificate, old.externalUrl)
        /\ Begins(c, certificate,
             IF filename # "" /\ filename # old.filename
             THEN AddDocumentToExtStorage(certificate, Url(old.externalUrl.kind, name), filename, content)
             ELSE <<Certify(certificate, old.externalUrl, old.filename)>>)
    BY <1>3, <2>1 DEF UpdateDocument, Recorded
  <2>3. old.externalUrl \in Urls /\ old.filename \in Filenames
    BY <2>2 DEF CertificateDocuments
  <2>4. CASE filename # "" /\ filename # old.filename
    <3>1. Url(old.externalUrl.kind, name) \in Urls
      BY <2>3, UrlTyped
    <3> QED BY <1>1, <2>2, <2>4, <3>1, UploadBegins
  <2>5. CASE ~ (filename # "" /\ filename # old.filename)
    <3>1. PICK step : step = Certify(certificate, old.externalUrl, old.filename)
      OBVIOUS
    <3>2. step \in Steps
      BY <2>3, <3>1, StepsTyped
    <3>3. /\ step.op = "certify" /\ step.certificate = certificate
          /\ step.document.externalUrl = old.externalUrl
      BY <3>1 DEF Certify
    <3>4. Begins(c, certificate, <<step>>)
      BY <2>2, <2>5, <3>1
    <3>5. certificate \in Things
      BY DEF Things
    <3> QED BY <2>2, <3>2, <3>3, <3>4, <3>5, OneStep
  <2> QED BY <2>4, <2>5
<1> QED BY <1>2, <1>3 DEF RegisterCompanyCertificate, RegisterScopeCertificate,
           RegisterMaterialCertificate, Kinds

\* The document of a certificate is read under the URL the certificate has.
LEMMA CertificateReadBegins ==
  ASSUME Recorded, NEW c \in Callers, NEW certificate \in Certificates,
         GetCertificateDocument(c, certificate)
  PROVE  Beginning(c)
<1>1. PICK url : url = certificates[certificate].externalUrl
  OBVIOUS
<1>2. PICK step : step = Read(url)
  OBVIOUS
<1>3. /\ url \in Urls /\ Own(certificate, url) /\ Begins(c, certificate, <<step>>)
  BY <1>1, <1>2 DEF GetCertificateDocument, Recorded, CertificateDocuments
<1>4. step \in Steps /\ step.op = "read" /\ step.url = url
  <2>1. step \in Steps
    BY <1>2, <1>3, StepsTyped
  <2> QED BY <1>2, <2>1 DEF Read
<1>5. certificate \in Things
  BY DEF Things
<1> QED BY <1>3, <1>4, <1>5, OneStep

\* The calls of the entity canister, and what a reader does.
Recording(c) == Added(c) \/ Redirected(c) \/ Certified(c)
ReadingOn(c) == RetrieveDocument(c) \/ ListFiles(c) \/ GetFileChunk(c) \/ ReadReturns(c)
                  \/ DocumentReturned(c)

\* The kinds of steps.
LEMMA DocumentSteps ==
  ASSUME Typed, Recorded, [DocumentsNext]_allVars
  PROVE  \/ UNCHANGED allVars
         \/ Elsewhere
         \/ \E c \in Callers : Beginning(c) \/ StartUpload(c) \/ UploadEnds(c) \/ Recording(c)
                               \/ ReadingOn(c)
BY AddBegins, EntryBegins, CertificatesBegin, CertificateReadBegins
   DEF DocumentsNext, Recording, ReadingOn

-----------------------------------------------------------------------------
\* The canister and what was given.

\* An upload of the SDK creates the file that was given.
LEMMA UploadStarts ==
  ASSUME JobsTyped, Typed, NEW c \in Callers, StartUpload(c)
  PROVE  \E user \in Users : \E g \in [document : Things, url : Urls, content : Contents] :
           /\ CreateFile(c, user, g.url, g.content) /\ given' = given \cup {g}
           /\ job[c].todo # <<>> /\ job[c].todo[1].op = "upload" /\ job[c].todo[1].given = g
<1>1. PICK user \in workload.users :
        /\ Due(c, "upload") /\ CreateFile(c, user, Step(c).given.url, Step(c).given.content)
        /\ given' = given \cup {Step(c).given}
  BY DEF StartUpload
<1>2. job[c].todo \in Seq(Steps) /\ job[c].todo # <<>> /\ Step(c).op = "upload"
  BY <1>1, JobOf DEF Due
<1>3. Step(c) \in Steps /\ Step(c) = job[c].todo[1]
  BY <1>2, FirstStep DEF Step
<1>4. Step(c).given \in [document : Things, url : Urls, content : Contents]
  BY <1>2, <1>3, StepOf
<1>5. user \in Users
  BY WorkloadTyped
<1> QED BY <1>1, <1>2, <1>3, <1>4, <1>5

\* What a step leaves alone.
LEMMA LeftAlone ==
  ASSUME NEW c \in Callers
  PROVE  /\ Beginning(c) => UNCHANGED <<vars, record, certificates, given>>
         /\ Recording(c) => UNCHANGED vars
         /\ ReadingOn(c) => UNCHANGED <<vars, record, certificates, given>>
         /\ UploadEnds(c) => UNCHANGED <<files, pending, record, certificates, given>>
         /\ StartUpload(c) => UNCHANGED <<files, record, certificates>>
         /\ Elsewhere => UNCHANGED <<record, certificates>>
<1>1. Beginning(c) => UNCHANGED <<vars, record, certificates, given>>
  BY DEF Beginning, Begins
<1>2. Recording(c) => UNCHANGED vars
  BY DEF Recording, Added, Redirected, Certified
<1>3. ReadingOn(c) => UNCHANGED <<vars, record, certificates, given>>
  BY DEF ReadingOn, RetrieveDocument, ListFiles, GetFileChunk, ReadReturns, DocumentReturned
<1>4. UploadEnds(c) => UNCHANGED <<files, pending, record, certificates, given>>
  BY DEF UploadEnds, UploadReturns, FileCreated, canister
<1>5. StartUpload(c) => UNCHANGED <<files, record, certificates>>
  BY DEF StartUpload, CreateFile
<1>6. Elsewhere => UNCHANGED <<record, certificates>>
  BY DEF Elsewhere
<1> QED BY <1>1, <1>2, <1>3, <1>4, <1>5, <1>6

\* A step of the SDK is a step of the storage canister or leaves it alone.
LEMMA CanisterSteps ==
  ASSUME JobsTyped, Recorded, Typed, [DocumentsNext]_allVars
  PROVE  [AnyStep]_vars
<1>1. ASSUME NEW c \in Callers, Beginning(c) \/ Recording(c) \/ ReadingOn(c)
      PROVE  UNCHANGED vars
  BY <1>1, LeftAlone
<1>2. ASSUME NEW c \in Callers, StartUpload(c)
      PROVE  AnyStep
  <2>1. PICK user \in Users, g \in [document : Things, url : Urls, content : Contents] :
          CreateFile(c, user, g.url, g.content)
    BY <1>2, UploadStarts
  <2>2. g.content \in Contents
    OBVIOUS
  <2> QED BY <2>1, <2>2 DEF AnyStep
<1>3. ASSUME NEW c \in Callers, UploadEnds(c)
      PROVE  AnyStep
  BY <1>3 DEF UploadEnds, AnyStep
<1>4. CASE Elsewhere
  BY <1>4, NextIsAny DEF Elsewhere
<1> QED BY <1>1, <1>2, <1>3, <1>4, DocumentSteps DEF allVars

\* What was given stays given.
LEMMA GivenStays ==
  ASSUME Typed, Recorded, [DocumentsNext]_allVars
  PROVE  given \subseteq given'
<1>1. ASSUME NEW c \in Callers, Beginning(c) \/ UploadEnds(c) \/ ReadingOn(c)
      PROVE  given' = given
  BY <1>1, LeftAlone
<1>2. ASSUME NEW c \in Callers, StartUpload(c) \/ Recording(c)
      PROVE  given \subseteq given'
  BY <1>2 DEF StartUpload, Recording, Added, Redirected, Certified
<1>3. CASE Elsewhere
  BY <1>3 DEF Elsewhere
<1>4. CASE UNCHANGED allVars
  BY <1>4 DEF allVars, documentVars
<1> QED BY <1>1, <1>2, <1>3, <1>4, DocumentSteps

\* A file has the content it had, or that of the pending one of its id.
LEMMA FileMoves ==
  ASSUME Typed, FilesKept, [AnyStep]_vars, NEW id \in DOMAIN files'
  PROVE  \/ id \in DOMAIN files /\ files'[id].declared = files[id].declared
         \/ /\ id \in DOMAIN pending
            /\ files'[id].declared = pending[id].declared /\ files'[id].name = pending[id].name
<1> DEFINE Goal == \/ id \in DOMAIN files /\ files'[id].declared = files[id].declared
                   \/ /\ id \in DOMAIN pending
                      /\ files'[id].declared = pending[id].declared /\ files'[id].name = pending[id].name
<1>1. ASSUME files' = files
      PROVE  Goal
  BY <1>1
<1>2. ASSUME NEW c, NEW user, NEW name, NEW content, CreateFile(c, user, name, content)
      PROVE  Goal
  BY <1>1, <1>2 DEF CreateFile
<1>3. ASSUME NEW c \in Callers, RemovalDone(c)
      PROVE  Goal
  BY <1>3 DEF RemovalDone, Without
<1>4. CASE RenameFile
  <2>1. PICK at \in DOMAIN files, name \in workload.names : files' = [files EXCEPT ![at].name = name]
    BY <1>4 DEF RenameFile
  <2>2. id \in DOMAIN files /\ Entry(files[id])
    BY <2>1 DEF FilesKept
  <2>3. files'[id] = files[id] \/ files'[id] = [files[id] EXCEPT !.name = name]
    BY <2>1, <2>2
  <2>4. [files[id] EXCEPT !.name = name].declared = files[id].declared
    BY <2>2 DEF Entry
  <2> QED BY <2>2, <2>3, <2>4
<1>5. ASSUME NEW c \in Callers, ChunkCall(c)
      PROVE  Goal
  <2> DEFINE at == call[c].id
  <2>1. PICK n \in call[c].left : \/ PutChunk(call[c].user, at, n, call[c].content[n + 1])
                                  \/ UNCHANGED <<files, pending>>
    BY <1>5, ChunkCallIs
  <2> DEFINE p == WithChunk(pending[at], n, call[c].content[n + 1])
  <2>2. CASE files' = files
    BY <1>1, <2>2
  <2>3. CASE at \in DOMAIN pending /\ files' = Put(files, at, p)
    <3>1. p.declared = pending[at].declared /\ p.name = pending[at].name
      BY <2>3, ChunkEntry DEF FilesKept
    <3> HIDE DEF p
    <3>2. id = at \/ id \in DOMAIN files
      BY <2>3 DEF Put
    <3>3. id = at => files'[id] = p
      BY <2>3 DEF Put
    <3>4. id # at => files'[id] = files[id]
      BY <2>3 DEF Put
    <3> QED BY <2>3, <3>1, <3>2, <3>3, <3>4
  <2> QED BY <2>1, <2>2, <2>3 DEF PutChunk
<1> QED BY <1>1, <1>2, <1>3, <1>4, <1>5, FileSteps

\* What a step of others announces or renames is given under its name.
LEMMA GivenElsewhere ==
  ASSUME Typed, FilesKept, Announced, Elsewhere
  PROVE  Announced'
<1> DEFINE renamed == {id \in DOMAIN files \cap DOMAIN files' : files'[id].name # files[id].name}
           announced == {id \in DOMAIN pending' : id \notin DOMAIN pending
                      \/ [pending'[id] EXCEPT !.chunks = <<>>] # [pending[id] EXCEPT !.chunks = <<>>]}
           moved == {files'[id] : id \in renamed} \cup {pending'[id] : id \in announced}
<1>1. [AnyStep]_vars
  BY NextIsAny DEF Elsewhere
<1>2. FilesKept'
  BY <1>1, FilesStay
<1>3. given' = given \cup {Given("other", file.name, file.declared) : file \in moved}
  BY DEF Elsewhere
<1> HIDE DEF moved
<1>4. \A url : GivenAs(url) \subseteq GivenAs(url)'
  BY <1>3 DEF GivenAs
<1>5. ASSUME NEW file \in moved
      PROVE  file.declared \in GivenAs(file.name)'
  <2>1. PICK g : g = Given("other", file.name, file.declared)
    OBVIOUS
  <2>2. g \in given' /\ g.url = file.name /\ g.content = file.declared
    BY <1>3, <1>5, <2>1 DEF Given
  <2> QED BY <2>2 DEF GivenAs
<1> HIDE DEF renamed, announced
<1>6. ASSUME NEW id \in DOMAIN files', NEW file, file = files'[id]
      PROVE  file.declared \in GivenAs(file.name)'
  <2>1. CASE id \in DOMAIN files /\ file.declared = files[id].declared
    <3>1. CASE file.name = files[id].name
      <4>1. files[id].declared \in GivenAs(files[id].name)
        BY <2>1 DEF Announced
      <4> QED BY <1>4, <2>1, <3>1, <4>1
    <3>2. CASE file.name # files[id].name
      <4>1. file \in moved
        BY <1>6, <2>1, <3>2 DEF moved, renamed
      <4> QED BY <1>5, <4>1
    <3> QED BY <3>1, <3>2
  <2>2. CASE /\ id \in DOMAIN pending
             /\ file.declared = pending[id].declared /\ file.name = pending[id].name
    <3>1. pending[id].declared \in GivenAs(pending[id].name)
      BY <2>2 DEF Announced
    <3> QED BY <1>4, <2>2, <3>1
  <2> QED BY <1>1, <1>6, <2>1, <2>2, FileMoves
<1>7. ASSUME NEW id \in DOMAIN pending', NEW file, file = pending'[id]
      PROVE  file.declared \in GivenAs(file.name)'
  <2>1. CASE id \in announced
    <3>1. file \in moved
      BY <1>7, <2>1 DEF moved
    <3> QED BY <1>5, <3>1
  <2>2. CASE id \notin announced
    <3>1. /\ id \in DOMAIN pending
          /\ [file EXCEPT !.chunks = <<>>] = [pending[id] EXCEPT !.chunks = <<>>]
      BY <1>7, <2>2 DEF announced
    <3>2. Entry(file)
      BY <1>2, <1>7 DEF FilesKept, Entry
    <3>3. Entry(pending[id])
      BY <3>1 DEF FilesKept
    <3>4. /\ [file EXCEPT !.chunks = <<>>].name = file.name
          /\ [file EXCEPT !.chunks = <<>>].declared = file.declared
      BY <3>2 DEF Entry
    <3>5. /\ [pending[id] EXCEPT !.chunks = <<>>].name = pending[id].name
          /\ [pending[id] EXCEPT !.chunks = <<>>].declared = pending[id].declared
      BY <3>3 DEF Entry
    <3>6. pending[id].declared \in GivenAs(pending[id].name)
      BY <3>1 DEF Announced
    <3> QED BY <1>4, <3>1, <3>4, <3>5, <3>6
  <2> QED BY <2>1, <2>2
<1> QED BY <1>6, <1>7 DEF Announced, GivenAs

\* Every step keeps what is stored, or on its way, given.
LEMMA StayAnnounced ==
  ASSUME Typed, FilesKept, JobsTyped, Recorded, Announced, [DocumentsNext]_allVars
  PROVE  Announced'
<1>1. \A url : GivenAs(url) \subseteq GivenAs(url)'
  BY GivenStays DEF GivenAs
<1>2. ASSUME UNCHANGED <<files, pending>>
      PROVE  Announced'
  <2>1. ASSUME NEW id \in DOMAIN files, NEW file, file = files[id]
        PROVE  file.declared \in GivenAs(file.name)'
    <3>1. file.declared \in GivenAs(file.name)
      BY <2>1 DEF Announced
    <3> QED BY <1>1, <3>1
  <2>2. ASSUME NEW id \in DOMAIN pending, NEW file, file = pending[id]
        PROVE  file.declared \in GivenAs(file.name)'
    <3>1. file.declared \in GivenAs(file.name)
      BY <2>2 DEF Announced
    <3> QED BY <1>1, <3>1
  <2> QED BY <1>2, <2>1, <2>2 DEF Announced, GivenAs
<1>3. ASSUME NEW c \in Callers, StartUpload(c)
      PROVE  Announced'
  <2>1. PICK user \in Users, g \in [document : Things, url : Urls, content : Contents] :
          CreateFile(c, user, g.url, g.content) /\ given' = given \cup {g}
    BY <1>3, UploadStarts
  <2> DEFINE new == NewPending(user, g.url, g.content)
  <2>2. files' = files /\ pending' = Put(pending, NextFileId, new)
    BY <2>1 DEF CreateFile
  <2>3. new.declared \in GivenAs(new.name)'
    <3>1. new.declared = g.content /\ new.name = g.url
      BY DEF NewPending
    <3> QED BY <2>1, <3>1 DEF GivenAs
  <2> HIDE DEF new
  <2>4. ASSUME NEW id \in DOMAIN pending', NEW file, file = pending'[id]
        PROVE  file.declared \in GivenAs(file.name)'
    <3>1. \/ file = new
          \/ id \in DOMAIN pending /\ file = pending[id]
      BY <2>2, <2>4 DEF Put
    <3>2. CASE id \in DOMAIN pending /\ file = pending[id]
      <4>1. file.declared \in GivenAs(file.name)
        BY <3>2 DEF Announced
      <4> QED BY <1>1, <4>1
    <3> QED BY <2>3, <3>1, <3>2
  <2>5. ASSUME NEW id \in DOMAIN files', NEW file, file = files'[id]
        PROVE  file.declared \in GivenAs(file.name)'
    <3>1. file.declared \in GivenAs(file.name)
      BY <2>2, <2>5 DEF Announced
    <3> QED BY <1>1, <3>1
  <2> QED BY <2>4, <2>5 DEF Announced, GivenAs
<1>4. ASSUME NEW c \in Callers, Beginning(c) \/ UploadEnds(c) \/ Recording(c) \/ ReadingOn(c)
      PROVE  UNCHANGED <<files, pending>>
  BY <1>4, LeftAlone DEF vars, canister
<1> QED BY <1>2, <1>3, <1>4, DocumentSteps, GivenElsewhere DEF allVars, vars, canister

\* What the records have URLs for stays given.
LEMMA RecordsStay ==
  ASSUME Recorded, given \subseteq given', UNCHANGED <<record, certificates>>
  PROVE  Recorded'
<1>1. \A t, u : Own(t, u) => Own(t, u)'
  BY DEF Own
<1>2. \A t, u : HasUrl(record, t, u)' => HasUrl(record, t, u)
  BY DEF HasUrl
<1>3. \A t, u : HasUrl(record, t, u)' => Own(t, u)' /\ Own(t, MetadataUrl(u))'
  BY <1>1, <1>2 DEF Recorded
<1> QED BY <1>1, <1>3 DEF Recorded

\* A document of a shipment is added under a URL given for it, with its metadata.
LEMMA AddedKept ==
  ASSUME Typed, JobsTyped, JobsKept, Recorded, NEW c \in Callers, Added(c)
  PROVE  Recorded'
<1>1. given' = given /\ certificates' = certificates
  BY DEF Added
<1>2. PICK type : type = Step(c).type
  OBVIOUS
<1>3. PICK url : url = Step(c).url
  OBVIOUS
<1>4. /\ Due(c, "add")
      /\ \/ \E user \in workload.users : Shipment!AddDocument(record, record', type, user, url)
         \/ record' = record
  BY <1>2, <1>3 DEF Added
<1>5. job[c].todo \in Seq(Steps) /\ job[c].todo # <<>> /\ Step(c).op = "add" /\ job[c] \in Ongoing
  BY <1>4, JobOf DEF Due
<1>6. Step(c) \in Steps /\ Step(c) = job[c].todo[1] /\ 1 \in 1 .. Len(job[c].todo)
  BY <1>5, FirstStep DEF Step
<1>7. type \in ShipmentTypes /\ url \in Urls
  BY <1>2, <1>3, <1>5, <1>6, StepOf
<1>8. Own(type, url) /\ Own(type, MetadataUrl(url))
  <2>1. StepsKept(job[c].document, job[c].mistaken, job[c].todo)
    BY <1>5 DEF JobsKept, JobKept
  <2>2. Prepared(job[c].todo, 1, type, url) /\ Prepared(job[c].todo, 1, type, MetadataUrl(url))
    BY <1>2, <1>3, <1>5, <1>6, <2>1 DEF StepsKept
  <2> QED BY <2>2 DEF Prepared
<1>9. CASE record' = record
  BY <1>1, <1>9, RecordsStay
<1>10. ASSUME NEW user \in workload.users, Shipment!AddDocument(record, record', type, user, url)
       PROVE  Recorded'
  <2>1. user \in Users /\ record \in Shipment!Record
    BY WorkloadTyped DEF Recorded
  <2>2. PICK s : s = record'
    OBVIOUS
  <2>3. Shipment!AddDocument(record, s, type, user, url)
    BY <1>10, <2>2
  <2>4. /\ s \in Shipment!Record
        /\ \A t, u : HasUrl(s, t, u) => HasUrl(record, t, u) \/ (t = type /\ u = url)
    BY <1>7, <2>1, <2>3, AddedIs
  <2>5. \A t, u : HasUrl(s, t, u) => Own(t, u) /\ Own(t, MetadataUrl(u))
    BY <1>8, <2>4 DEF Recorded
  <2>6. \A t, u : HasUrl(record, t, u)' => HasUrl(s, t, u)
    BY <2>2 DEF HasUrl
  <2>7. \A t, u : Own(t, u) => Own(t, u)'
    BY <1>1 DEF Own
  <2>8. \A t, u : HasUrl(record, t, u)' => Own(t, u)' /\ Own(t, MetadataUrl(u))'
    BY <2>5, <2>6, <2>7
  <2> QED BY <1>1, <2>2, <2>4, <2>7, <2>8 DEF Recorded
<1> QED BY <1>4, <1>9, <1>10

\* A document of a shipment is pointed to a URL.
LEMMA RedirectedKept ==
  ASSUME Typed, JobsTyped, Recorded, NEW c \in Callers, Redirected(c)
  PROVE  Recorded'
<1>1. PICK id : id = Step(c).id
  OBVIOUS
<1>2. PICK url : url = Step(c).url
  OBVIOUS
<1>3. PICK type : type = record.documents[Shipment!PlaceOfId(record, id)].type
  OBVIOUS
<1>4. /\ Due(c, "redirect") /\ certificates' = certificates
      /\ \/ /\ \E user \in workload.users : Shipment!UpdateDocument(record, record', id, user, url)
            /\ given' = given \cup {Given(type, url, <<>>), Given(type, MetadataUrl(url), <<>>)}
         \/ record' = record /\ given' = given
  BY <1>1, <1>2, <1>3 DEF Redirected
<1>5. job[c].todo \in Seq(Steps) /\ job[c].todo # <<>> /\ Step(c).op = "redirect"
  BY <1>4, JobOf DEF Due
<1>6. Step(c) \in Steps
  BY <1>5, FirstStep DEF Step
<1>7. url \in Urls
  BY <1>2, <1>5, <1>6, StepOf
<1>8. CASE record' = record /\ given' = given
  BY <1>4, <1>8, RecordsStay
<1>9. ASSUME NEW user \in workload.users, Shipment!UpdateDocument(record, record', id, user, url),
             given' = given \cup {Given(type, url, <<>>), Given(type, MetadataUrl(url), <<>>)}
      PROVE  Recorded'
  <2>1. user \in Users /\ record \in Shipment!Record
    BY WorkloadTyped DEF Recorded
  <2>2. PICK s : s = record'
    OBVIOUS
  <2>3. Shipment!UpdateDocument(record, s, id, user, url)
    BY <1>9, <2>2
  <2>4. /\ s \in Shipment!Record
        /\ \A t, u : HasUrl(s, t, u) => HasUrl(record, t, u) \/ (t = type /\ u = url)
    BY <1>3, <1>7, <2>1, <2>3, UpdatedIs
  <2>5. \A t, u : HasUrl(record, t, u)' => HasUrl(s, t, u)
    BY <2>2 DEF HasUrl
  <2>6. Own(type, url)' /\ Own(type, MetadataUrl(url))'
    <3>1. \A u : Given(type, u, <<>>).url = u /\ Given(type, u, <<>>).document = type
      BY DEF Given
    <3>2. Given(type, url, <<>>) \in given' /\ Given(type, MetadataUrl(url), <<>>) \in given'
      BY <1>9
    <3> HIDE DEF Given
    <3> QED BY <3>1, <3>2 DEF Own
  <2>7. \A t, u : Own(t, u) => Own(t, u)'
    BY <1>9 DEF Own
  <2>8. \A t, u : HasUrl(record, t, u) => Own(t, u) /\ Own(t, MetadataUrl(u))
    BY DEF Recorded
  <2>9. ASSUME NEW t, NEW u, HasUrl(record, t, u)'
        PROVE  Own(t, u)' /\ Own(t, MetadataUrl(u))'
    BY <2>4, <2>5, <2>6, <2>7, <2>8, <2>9
  <2> QED BY <1>4, <2>2, <2>4, <2>7, <2>9 DEF Recorded
<1> QED BY <1>4, <1>8, <1>9

\* A certificate gets a document given for it.
LEMMA CertifiedKept ==
  ASSUME JobsTyped, JobsKept, Recorded, NEW c \in Callers, Certified(c)
  PROVE  Recorded'
<1>1. PICK certificate : certificate = Step(c).certificate
  OBVIOUS
<1>2. PICK document : document = Step(c).document
  OBVIOUS
<1>3. /\ Due(c, "certify") /\ UNCHANGED <<record, given>>
      /\ certificates' = certificates \/ certificates' = Put(certificates, certificate, document)
  BY <1>1, <1>2 DEF Certified
<1>4. job[c].todo \in Seq(Steps) /\ job[c].todo # <<>> /\ Step(c).op = "certify" /\ job[c] \in Ongoing
  BY <1>3, JobOf DEF Due
<1>5. Step(c) \in Steps /\ Step(c) = job[c].todo[1] /\ 1 \in 1 .. Len(job[c].todo)
  BY <1>4, FirstStep DEF Step
<1>6. certificate \in Certificates /\ document \in CertificateDocuments
  BY <1>1, <1>2, <1>4, <1>5, StepOf
<1>7. Own(certificate, document.externalUrl)
  <2>1. StepsKept(job[c].document, job[c].mistaken, job[c].todo)
    BY <1>4 DEF JobsKept, JobKept
  <2>2. Prepared(job[c].todo, 1, certificate, document.externalUrl)
    BY <1>1, <1>2, <1>4, <1>5, <2>1 DEF StepsKept
  <2> QED BY <2>2 DEF Prepared
<1>8. CASE certificates' = certificates
  BY <1>3, <1>8, RecordsStay
<1>9. CASE certificates' = Put(certificates, certificate, document)
  <2>1. ASSUME NEW other \in DOMAIN certificates'
        PROVE  /\ other \in Certificates /\ certificates'[other] \in CertificateDocuments
               /\ Own(other, certificates'[other].externalUrl)
    <3>1. \/ other = certificate /\ certificates'[other] = document
          \/ other \in DOMAIN certificates /\ certificates'[other] = certificates[other]
      BY <1>9, <2>1 DEF Put
    <3> QED BY <1>6, <1>7, <3>1 DEF Recorded
  <2>2. record' = record /\ given' = given
    BY <1>3
  <2> QED BY <2>1, <2>2 DEF Recorded, Own, HasUrl
<1> QED BY <1>3, <1>8, <1>9

\* Every step keeps the records.
LEMMA StayRecorded ==
  ASSUME Typed, JobsTyped, JobsKept, Recorded, [DocumentsNext]_allVars
  PROVE  Recorded'
<1>1. given \subseteq given'
  BY GivenStays
<1>2. ASSUME NEW c \in Callers, Beginning(c) \/ StartUpload(c) \/ UploadEnds(c) \/ ReadingOn(c)
      PROVE  Recorded'
  BY <1>1, <1>2, LeftAlone, RecordsStay
<1>3. ASSUME NEW c \in Callers, Recording(c)
      PROVE  Recorded'
  BY <1>3, AddedKept, RedirectedKept, CertifiedKept DEF Recording
<1>4. CASE Elsewhere
  BY <1>1, <1>4, RecordsStay DEF Elsewhere
<1>5. CASE UNCHANGED allVars
  BY <1>1, <1>5, RecordsStay DEF allVars, documentVars
<1> QED BY <1>2, <1>3, <1>4, <1>5, DocumentSteps

-----------------------------------------------------------------------------
\* Jobs.

\* A job is kept while what was given stays given and the file it reads is the same, or gone.
LEMMA KeptStays ==
  ASSUME NEW j, JobKept(j), given \subseteq given',
         j.read # NoRead /\ ~ j.read.astray /\ j.read.id \in DOMAIN files' =>
           j.read.id \in DOMAIN files /\ files'[j.read.id].chunks = files[j.read.id].chunks
  PROVE  JobKept(j)'
<1>1. \A document, url : Own(document, url) => Own(document, url)'
  BY DEF Own
<1>2. \A url : GivenAs(url) \subseteq GivenAs(url)'
  BY DEF GivenAs
<1>3. \A i, document, url : Prepared(j.todo, i, document, url) => Prepared(j.todo, i, document, url)'
  BY <1>1 DEF Prepared
<1>4. StepsKept(j.document, j.mistaken, j.todo)'
  BY <1>1, <1>3 DEF JobKept, StepsKept
<1>5. \A part : Seen(part) => Seen(part)'
  BY <1>2 DEF Seen
<1>6. PartsKept(j.document, j.mistaken, j.parts)'
  BY <1>1, <1>5 DEF JobKept, PartsKept
<1>7. ASSUME j.read # NoRead
      PROVE  Faithful(j.read, Head(j.todo).url)'
  <2>1. SUFFICES ASSUME ~ j.read.astray
                 PROVE  \E content \in GivenAs(Head(j.todo).url)' \cap Contents :
                          HasOf(j.read, content) /\ StillThere(j.read.id, content)'
    BY DEF Faithful
  <2>2. PICK content \in GivenAs(Head(j.todo).url) \cap Contents :
               HasOf(j.read, content) /\ StillThere(j.read.id, content)
    BY <1>7, <2>1 DEF JobKept, Faithful
  <2>3. StillThere(j.read.id, content)'
    BY <1>7, <2>1, <2>2 DEF StillThere
  <2> QED BY <1>2, <2>2, <2>3
<1> QED BY <1>4, <1>6, <1>7 DEF JobKept

\* One client's job changes, and is kept.
LEMMA OneJob ==
  ASSUME JobsTyped, JobsKept, NEW c \in Callers, NEW j \in Jobs, JobKept(j)',
         job' = [job EXCEPT ![c] = j], files' = files, given \subseteq given'
  PROVE  JobsTyped' /\ JobsKept'
<1>1. job' \in [Callers -> Jobs]
  BY DEF JobsTyped
<1>2. \A k \in Ongoing' : k = j \/ k \in Ongoing
  BY DEF Ongoing, JobsTyped
<1>3. ASSUME NEW k \in Ongoing
      PROVE  JobKept(k)'
  BY <1>3, KeptStays DEF JobsKept
<1> QED BY <1>1, <1>2, <1>3 DEF JobsTyped, JobsKept

\* The same, of a job that is kept before.
LEMMA JobGoesOn ==
  ASSUME JobsTyped, JobsKept, NEW c \in Callers, NEW j \in Jobs, JobKept(j),
         job' = [job EXCEPT ![c] = j], UNCHANGED <<files, given>>
  PROVE  JobsTyped' /\ JobsKept'
<1>1. given \subseteq given'
  OBVIOUS
<1>2. JobKept(j)'
  BY <1>1, KeptStays
<1> QED BY <1>1, <1>2, OneJob

\* No job is kept.
LEMMA NoJobKept == NoJob \in Jobs /\ JobKept(NoJob) /\ JobKept(NoJob)'
<1>1. NoJob \in Jobs
  BY DEF NoJob, Jobs
<1>2. /\ NoJob.todo = <<>> /\ NoJob.parts = <<>> /\ NoJob.read = NoRead
      /\ Len(NoJob.todo) = 0 /\ DOMAIN NoJob.parts = {}
  BY DEF NoJob
<1>3. StepsKept(NoJob.document, NoJob.mistaken, NoJob.todo)
      /\ StepsKept(NoJob.document, NoJob.mistaken, NoJob.todo)'
  BY <1>2 DEF StepsKept
<1>4. PartsKept(NoJob.document, NoJob.mistaken, NoJob.parts)
      /\ PartsKept(NoJob.document, NoJob.mistaken, NoJob.parts)'
  BY <1>2 DEF PartsKept
<1> QED BY <1>1, <1>2, <1>3, <1>4 DEF JobKept

\* A client's operation is over.
LEMMA EndKept ==
  ASSUME JobsTyped, JobsKept, NEW c \in Callers, Ends(c), files' = files, given \subseteq given'
  PROVE  JobsTyped' /\ JobsKept'
BY NoJobKept, OneJob DEF Ends

\* An operation begins.
LEMMA BeginningKept ==
  ASSUME JobsTyped, JobsKept, NEW c \in Callers, Beginning(c)
  PROVE  JobsTyped' /\ JobsKept'
<1>1. PICK document \in Things, todo \in Seq(Steps) :
        Begins(c, document, todo) /\ StepsKept(document, FALSE, todo)
  BY DEF Beginning
<1>2. PICK named : named = [NoJob EXCEPT !.document = document]
  OBVIOUS
<1>3. PICK j : j = [named EXCEPT !.todo = todo]
  OBVIOUS
<1>4. job' = [job EXCEPT ![c] = j] /\ UNCHANGED <<vars, given>>
  BY <1>1, <1>2, <1>3 DEF Begins
<1>5. NoJob \in Jobs /\ NoJob.read = NoRead /\ NoJob.parts = <<>>
  BY NoJobKept DEF NoJob
<1>6. named \in Jobs /\ named.read = NoRead /\ named.parts = <<>> /\ named.document = document
  BY <1>2, <1>5 DEF Jobs
<1>7. /\ j \in Jobs /\ j.read = NoRead /\ j.parts = <<>> /\ j.document = document
      /\ j.todo = todo /\ j.mistaken = named.mistaken
  BY <1>3, <1>6 DEF Jobs
<1>8. j.mistaken = FALSE
  <2>1. NoJob.mistaken = FALSE
    BY DEF NoJob
  <2>2. named.mistaken = NoJob.mistaken
    BY <1>2, <1>5 DEF Jobs
  <2> QED BY <1>7, <2>1, <2>2
<1>9. JobKept(j)
  <2>1. PartsKept(document, FALSE, <<>>)
    BY DEF PartsKept
  <2> QED BY <1>1, <1>7, <1>8, <2>1 DEF JobKept
<1> QED BY <1>4, <1>7, <1>9, JobGoesOn DEF vars, canister

\* What is left after a step stays prepared, when the step was an upload of what was given, or
\* none at all.
LEMMA TailKept ==
  ASSUME NEW todo \in Seq(Steps), todo # <<>>, NEW document, NEW mistaken,
         StepsKept(document, mistaken, todo), given \subseteq given',
         todo[1].op = "upload" => todo[1].given \in given'
  PROVE  /\ StepsKept(document, mistaken, Tail(todo))'
         /\ \A i \in 1 .. Len(Tail(todo)) : Tail(todo)[i].op # "search"
<1>1. PICK rest : rest = Tail(todo)
  OBVIOUS
<1>2. /\ Len(rest) \in Nat /\ Len(todo) \in Nat
      /\ \A i \in 1 .. Len(rest) : i + 1 \in 1 .. Len(todo) /\ rest[i] = todo[i + 1]
  BY <1>1, FirstStep
<1>3. \A d, url : Own(d, url) => Own(d, url)'
  BY DEF Own
<1>4. ASSUME NEW i \in 1 .. Len(rest), NEW d, NEW url, Prepared(todo, i + 1, d, url)
      PROVE  Prepared(rest, i, d, url)'
  <2>1. CASE Own(d, url)
    BY <1>3, <2>1 DEF Prepared
  <2>2. ASSUME NEW k \in 1 .. (i + 1) - 1, todo[k].op = "upload",
               todo[k].given.document = d, todo[k].given.url = url
        PROVE  Prepared(rest, i, d, url)'
    <3>1. CASE k = 1
      BY <2>2, <3>1 DEF Own, Prepared
    <3>2. CASE k # 1
      <4>1. PICK m : m = k - 1
        OBVIOUS
      <4>2. m \in 1 .. i - 1 /\ m \in 1 .. Len(rest) /\ m + 1 = k
        BY <1>2, <2>2, <3>2, <4>1
      <4>3. rest[m] = todo[k]
        BY <1>2, <4>2
      <4> QED BY <2>2, <4>2, <4>3 DEF Prepared
    <3> QED BY <3>1, <3>2
  <2> QED BY <1>4, <2>1, <2>2 DEF Prepared
<1>5. ASSUME NEW i \in 1 .. Len(rest)
      PROVE  /\ rest[i].op = "add" => /\ Prepared(rest, i, rest[i].type, rest[i].url)'
                                      /\ Prepared(rest, i, rest[i].type, MetadataUrl(rest[i].url))'
             /\ rest[i].op = "certify" =>
                  Prepared(rest, i, rest[i].certificate, rest[i].document.externalUrl)'
             /\ rest[i].op = "read" => mistaken \/ Own(document, rest[i].url)'
             /\ rest[i].op # "search"
  <2>1. i + 1 \in 1 .. Len(todo) /\ rest[i] = todo[i + 1]
    BY <1>2
  <2>2. i + 1 # 1
    BY <1>2
  <2> QED BY <1>3, <1>4, <2>1, <2>2 DEF StepsKept
<1> QED BY <1>1, <1>5 DEF StepsKept

\* The job of a client after its first step.
LEMMA NextStep ==
  ASSUME JobsTyped, JobsKept, NEW c \in Callers, NEW old, old = job[c], old.todo # <<>>,
         files' = files, given \subseteq given', old.todo[1].op = "upload" => old.todo[1].given \in given',
         NEW parts \in Seq(Portions), PartsKept(old.document, old.mistaken, parts)',
         job' = [job EXCEPT ![c] = [document |-> old.document, todo |-> Tail(old.todo),
                                    read |-> NoRead, parts |-> parts, mistaken |-> old.mistaken]]
  PROVE  JobsTyped' /\ JobsKept'
<1>1. old \in Jobs /\ old.todo \in Seq(Steps) /\ JobKept(old)
  BY JobOf DEF JobsKept
<1>2. PICK j : j = [document |-> old.document, todo |-> Tail(old.todo), read |-> NoRead,
                    parts |-> parts, mistaken |-> old.mistaken]
  OBVIOUS
<1>3. /\ Tail(old.todo) \in Seq(Steps)
      /\ \A i \in 1 .. Len(Tail(old.todo)) : i + 1 \in 1 .. Len(old.todo) /\ Tail(old.todo)[i] = old.todo[i + 1]
  BY <1>1, FirstStep
<1>4. j \in Jobs
  BY <1>1, <1>2, <1>3 DEF Jobs
<1>5. /\ StepsKept(old.document, old.mistaken, Tail(old.todo))'
      /\ \A i \in 1 .. Len(Tail(old.todo)) : Tail(old.todo)[i].op # "search"
  <2>1. StepsKept(old.document, old.mistaken, old.todo)
    BY <1>1 DEF JobKept
  <2> QED BY <1>1, <2>1, TailKept
<1>6. /\ j.document = old.document /\ j.todo = Tail(old.todo) /\ j.read = NoRead
      /\ j.parts = parts /\ j.mistaken = old.mistaken
  BY <1>2
<1>7. JobKept(j)'
  BY <1>5, <1>6 DEF JobKept
<1>8. job' = [job EXCEPT ![c] = j]
  BY <1>2
<1> QED BY <1>4, <1>7, <1>8, OneJob

\* Uploads of the SDK, and what is recorded, go on to the next step or end.
LEMMA UploadsKeepJobs ==
  ASSUME Typed, JobsTyped, JobsKept, Recorded, [DocumentsNext]_allVars,
         NEW c \in Callers, StartUpload(c) \/ UploadEnds(c) \/ Recording(c)
  PROVE  JobsTyped' /\ JobsKept'
<1>1. given \subseteq given'
  BY GivenStays
<1>2. files' = files
  BY LeftAlone DEF vars, canister
<1>3. CASE StartUpload(c)
  <2>1. PICK old : old = job[c]
    OBVIOUS
  <2>2. old.todo # <<>> /\ old.todo[1].op = "upload" /\ old.todo[1].given \in given'
    BY <1>3, <2>1, UploadStarts
  <2>3. /\ old \in Jobs /\ JobKept(old) /\ old.parts \in Seq(Portions) /\ old.todo \in Seq(Steps)
        /\ old = [document |-> old.document, todo |-> old.todo, read |-> old.read,
                  parts |-> old.parts, mistaken |-> old.mistaken]
    BY <2>1, JobOf DEF JobsKept
  <2>4. old.read = NoRead
    <3>1. Head(old.todo) = old.todo[1]
      BY <2>2, <2>3, FirstStep
    <3> QED BY <2>2, <2>3, <3>1 DEF JobKept
  <2>5. job' = [job EXCEPT ![c] = [document |-> old.document, todo |-> Tail(old.todo),
                                    read |-> NoRead, parts |-> old.parts, mistaken |-> old.mistaken]]
    <3>1. job' = [job EXCEPT ![c].todo = Tail(old.todo)]
      BY <1>3, <2>1 DEF StartUpload
    <3>2. job' = [job EXCEPT ![c] = [old EXCEPT !.todo = Tail(old.todo)]]
      BY <2>1, <3>1
    <3>3. [old EXCEPT !.todo = Tail(old.todo)] =
            [document |-> old.document, todo |-> Tail(old.todo), read |-> NoRead,
             parts |-> old.parts, mistaken |-> old.mistaken]
      <4>1. PICK rest : rest = Tail(old.todo)
        OBVIOUS
      <4>2. [old EXCEPT !.todo = rest] =
              [document |-> old.document, todo |-> rest, read |-> old.read,
               parts |-> old.parts, mistaken |-> old.mistaken]
        BY <2>3 DEF Jobs
      <4> QED BY <2>4, <4>1, <4>2
    <3> QED BY <3>2, <3>3
  <2>6. PartsKept(old.document, old.mistaken, old.parts)'
    <3>1. JobKept(old)'
      BY <1>1, <2>3, <2>4, KeptStays
    <3> QED BY <3>1 DEF JobKept
  <2>7. PICK parts : parts = old.parts
    OBVIOUS
  <2>8. parts \in Seq(Portions)
    BY <2>3, <2>7
  <2>9. PartsKept(old.document, old.mistaken, parts)'
    BY <2>6, <2>7
  <2> QED BY <1>1, <1>2, <2>1, <2>2, <2>5, <2>7, <2>8, <2>9, NextStep
<1>4. CASE UploadEnds(c)
  <2>1. Ends(c) \/ job' = job
    BY <1>4 DEF UploadEnds
  <2>2. given' = given
    BY <1>4, LeftAlone
  <2>3. CASE job' = job
    <3>1. PICK j : j = job[c]
      OBVIOUS
    <3>2. j \in Jobs /\ JobKept(j) /\ job' = [job EXCEPT ![c] = j]
      BY <2>3, <3>1, JobOf DEF JobsKept, JobsTyped
    <3> QED BY <1>2, <2>2, <3>2, JobGoesOn
  <2> QED BY <1>1, <1>2, <2>1, <2>3, EndKept
<1>5. CASE Recording(c)
  <2>1. Ends(c)
    BY <1>5 DEF Recording, Added, Redirected, Certified
  <2> QED BY <1>1, <1>2, <2>1, EndKept
<1> QED BY <1>3, <1>4, <1>5

-----------------------------------------------------------------------------
\* Reads.

\* A search gives way to the reads of the metadata and of the file of what it found.
LEMMA SearchKept ==
  ASSUME JobsTyped, JobsKept, Recorded, NEW c \in Callers, RetrieveDocument(c)
  PROVE  JobsTyped' /\ JobsKept'
<1>1. PICK id : id = Step(c).id
  OBVIOUS
<1>2. PICK url : url = DocumentInfo(id).externalUrl
  OBVIOUS
<1>3. PICK old : old = job[c]
  OBVIOUS
<1>4. PICK mistaken : mistaken = \E i \in Holding(id) : record.documents[i].type # old.document
  OBVIOUS
<1>5. /\ Due(c, "search") /\ UNCHANGED <<vars, given>>
      /\ \/ Ends(c)
         \/ /\ Holding(id) # {}
            /\ job' = [job EXCEPT ![c].todo = <<Read(MetadataUrl(url)), Read(url)>>,
                                  ![c].mistaken = mistaken]
  BY <1>1, <1>2, <1>3, <1>4 DEF RetrieveDocument
<1>6. UNCHANGED <<files, given>>
  BY <1>5 DEF vars, canister
<1>7. CASE Ends(c)
  BY <1>6, <1>7, EndKept
<1>8. ASSUME Holding(id) # {},
             job' = [job EXCEPT ![c].todo = <<Read(MetadataUrl(url)), Read(url)>>, ![c].mistaken = mistaken]
      PROVE  JobsTyped' /\ JobsKept'
  <2>1. /\ old \in Jobs /\ old.todo \in Seq(Steps) /\ old.todo # <<>> /\ old.todo[1].op = "search"
        /\ JobKept(old) /\ Head(old.todo) = old.todo[1] /\ 1 \in 1 .. Len(old.todo)
    <3>1. old \in Jobs /\ old.todo \in Seq(Steps) /\ JobKept(old)
      BY <1>3, JobOf DEF JobsKept
    <3>2. old.todo # <<>> /\ Head(old.todo).op = "search"
      BY <1>3, <1>5 DEF Due, Step
    <3> QED BY <3>1, <3>2, FirstStep
  <2>2. old.read = NoRead /\ old.parts = <<>>
    BY <2>1 DEF JobKept
  <2>3. url \in Urls /\ \E i \in Holding(id) : HasUrl(record, record.documents[i].type, url)
    BY <1>2, <1>8, FoundIs
  <2>4. mistaken \/ (Own(old.document, url) /\ Own(old.document, MetadataUrl(url)))
    BY <1>4, <2>3 DEF Recorded
  <2>5. PICK metadata : metadata = Read(MetadataUrl(url))
    OBVIOUS
  <2>6. PICK file : file = Read(url)
    OBVIOUS
  <2>7. /\ metadata \in Steps /\ metadata.op = "read" /\ metadata.url = MetadataUrl(url)
        /\ file \in Steps /\ file.op = "read" /\ file.url = url
    <3>1. MetadataUrl(url) \in Urls
      BY <2>3, UrlTyped
    <3>2. metadata \in Steps /\ file \in Steps
      BY <2>3, <2>5, <2>6, <3>1, StepsTyped
    <3> QED BY <2>5, <2>6, <3>2 DEF Read
  <2>8. PICK todo : todo = <<metadata, file>>
    OBVIOUS
  <2>9. /\ todo \in Seq(Steps) /\ Len(todo) = 2 /\ todo[1] = metadata /\ todo[2] = file
        /\ \A i \in 1 .. 2 : i = 1 \/ i = 2
    BY <2>7, <2>8
  <2>10. StepsKept(old.document, mistaken, todo) /\ \A i \in 1 .. Len(todo) : todo[i].op # "search"
    BY <2>4, <2>7, <2>9 DEF StepsKept
  <2>11. PICK searched : searched = [old EXCEPT !.todo = todo]
    OBVIOUS
  <2>12. PICK j : j = [searched EXCEPT !.mistaken = mistaken]
    OBVIOUS
  <2>13. job' = [job EXCEPT ![c] = j]
    <3>1. job' = [job EXCEPT ![c].todo = todo, ![c].mistaken = mistaken]
      BY <1>8, <2>5, <2>6, <2>8
    <3>2. c \in DOMAIN job
      BY DEF JobsTyped
    <3> QED BY <1>3, <2>11, <2>12, <3>1, <3>2
  <2>14. /\ searched \in Jobs /\ searched.read = NoRead /\ searched.parts = <<>>
         /\ searched.document = old.document /\ searched.todo = todo
    BY <2>1, <2>2, <2>9, <2>11 DEF Jobs
  <2>15. mistaken \in BOOLEAN
    BY <1>4
  <2>16. /\ j \in Jobs /\ j.read = NoRead /\ j.parts = <<>> /\ j.document = old.document
         /\ j.todo = todo /\ j.mistaken = mistaken
    BY <2>12, <2>14, <2>15 DEF Jobs
  <2>17. PartsKept(old.document, mistaken, <<>>)
    BY DEF PartsKept
  <2>18. JobKept(j)
    BY <2>10, <2>16, <2>17 DEF JobKept
  <2> QED BY <1>6, <2>13, <2>16, <2>18, JobGoesOn
<1> QED BY <1>5, <1>7, <1>8

\* A stored file has the blocks of the content it was announced with.
LEMMA FileIs ==
  ASSUME FilesKept, NEW id \in DOMAIN files, NEW content, content = files[id].declared
  PROVE  /\ content \in Contents /\ content \in Seq(STRING) /\ Len(content) \in Nat
         /\ Indexes(files[id]) = 0 .. Len(content) - 1
         /\ StillThere(id, content)
<1>1. content \in Contents /\ content \in Seq(STRING) /\ Len(content) \in Nat
  BY StorageAssumption DEF FilesKept, Entry
<1>2. Cardinality(DOMAIN files[id].chunks) = Len(content)
  BY DEF FilesKept, Stored, Complete
<1>3. /\ Indexes(files[id]) = 0 .. Len(content) - 1
      /\ DOMAIN files[id].chunks = 0 .. Len(content) - 1
      /\ [i \in 1 .. Len(content) |-> files[id].chunks[i - 1]] = content
  BY <1>2, StoredIs DEF Indexes, Assembled
<1>4. ASSUME NEW n \in 0 .. Len(content) - 1
      PROVE  files[id].chunks[n] = content[n + 1]
  <2>1. n + 1 \in 1 .. Len(content) /\ (n + 1) - 1 = n
    BY <1>1
  <2> QED BY <1>3, <2>1
<1> QED BY <1>1, <1>3, <1>4 DEF StillThere

\* A read under way replaces another.
LEMMA ReadGoesOn ==
  ASSUME JobsTyped, JobsKept, NEW c \in Callers, job[c].todo # <<>>, Step(c).op = "read",
         NEW read \in ReadsUnderWay, Faithful(read, Step(c).url), job' = [job EXCEPT ![c].read = read],
         UNCHANGED <<files, given>>
  PROVE  JobsTyped' /\ JobsKept'
<1>1. PICK old : old = job[c]
  OBVIOUS
<1>2. old \in Jobs /\ JobKept(old)
  BY <1>1, JobOf DEF JobsKept
<1>3. PICK j : j = [old EXCEPT !.read = read]
  OBVIOUS
<1>4. job' = [job EXCEPT ![c] = j]
  BY <1>1, <1>3
<1>5. /\ j \in Jobs /\ j.read = read /\ j.document = old.document /\ j.todo = old.todo
      /\ j.parts = old.parts /\ j.mistaken = old.mistaken
  BY <1>2, <1>3 DEF Jobs
<1>6. Head(j.todo).op = "read" /\ j.todo # <<>> /\ Faithful(j.read, Head(j.todo).url)
  BY <1>1, <1>5 DEF Step
<1>7. JobKept(j)
  BY <1>2, <1>5, <1>6 DEF JobKept
<1> QED BY <1>4, <1>5, <1>7, JobGoesOn

\* The read of a file that was found waits for all of it.
LEMMA ListingKept ==
  ASSUME JobsTyped, JobsKept, Typed, FilesKept, Announced, NEW c \in Callers, ListFiles(c)
  PROVE  JobsTyped' /\ JobsKept'
<1> DEFINE named == {id \in DOMAIN files : files[id].name = Step(c).url}
           read == [id |-> Found(named), left |-> Indexes(files[Found(named)]), got |-> <<>>,
                    refused |-> FALSE, dropped |-> FALSE, astray |-> FALSE]
<1>1. /\ job[c].todo # <<>> /\ Step(c).op = "read" /\ UNCHANGED <<files, given>>
      /\ \/ Ends(c)
         \/ named # {} /\ job' = [job EXCEPT ![c].read = read]
  BY DEF ListFiles, Due, vars, canister
<1>2. CASE Ends(c)
  <2>1. given \subseteq given'
    BY <1>1
  <2> QED BY <1>1, <1>2, <2>1, EndKept
<1>3. CASE named # {} /\ job' = [job EXCEPT ![c].read = read]
  <2>1. named \in SUBSET Nat /\ IsFiniteSet(named)
    <3>1. named \in SUBSET DOMAIN files
      OBVIOUS
    <3> QED BY <3>1, FS_Subset, WorkloadTyped DEF FilesKept
  <2>2. Found(named) \in named
    <3> HIDE DEF named
    <3>1. \E id \in named : \A other \in named : id <= other
      BY <1>3, <2>1, FirstOf
    <3> QED BY <3>1 DEF Found
  <2>3. PICK id : id = Found(named)
    OBVIOUS
  <2>4. id \in DOMAIN files /\ files[id].name = Step(c).url /\ id \in Nat
    BY <2>1, <2>2, <2>3
  <2>5. PICK content : content = files[id].declared
    OBVIOUS
  <2>6. /\ content \in Contents /\ Len(content) \in Nat
        /\ Indexes(files[id]) = 0 .. Len(content) - 1 /\ StillThere(id, content)
    BY <2>4, <2>5, FileIs
  <2>7. content \in GivenAs(Step(c).url)
    BY <2>4, <2>5 DEF Announced
  <2>8. PICK r : r = [id |-> id, left |-> 0 .. Len(content) - 1, got |-> <<>>, refused |-> FALSE,
                      dropped |-> FALSE, astray |-> FALSE]
    OBVIOUS
  <2>9. read = r
    BY <2>3, <2>6, <2>8
  <2>10. r \in ReadsUnderWay
    <3>1. <<>> \in Seq(Chunks) /\ 0 .. Len(content) - 1 \in SUBSET Nat
      BY <2>6
    <3> QED BY <2>4, <2>8, <3>1 DEF ReadsUnderWay
  <2>11. HasOf(r, content)
    BY <2>8 DEF HasOf, PartOf
  <2>12. Faithful(r, Step(c).url)
    BY <2>6, <2>7, <2>8, <2>11 DEF Faithful
  <2> HIDE DEF read
  <2> QED BY <1>1, <1>3, <2>9, <2>10, <2>12, ReadGoesOn
<1> QED BY <1>1, <1>2, <1>3

\* What a read has after the answer to a chunk.
LEMMA ChunkOfContent ==
  ASSUME NEW read \in ReadsUnderWay, NEW content \in Seq(STRING), HasOf(read, content), NEW n \in read.left,
         NEW asked, asked = [read EXCEPT !.left = read.left \ {n}]
  PROVE  /\ HasOf([asked EXCEPT !.refused = TRUE], content)
         /\ HasOf([asked EXCEPT !.dropped = TRUE], content)
         /\ HasOf([asked EXCEPT !.got = Append(read.got, [index |-> n, block |-> content[n + 1]])], content)
<1>1. /\ read.got \in Seq(Chunks) /\ read.left \subseteq 0 .. Len(content) - 1 /\ Len(content) \in Nat
      /\ asked = [id |-> read.id, left |-> read.left \ {n}, got |-> read.got, refused |-> read.refused,
                  dropped |-> read.dropped, astray |-> read.astray]
  <2>1. /\ read.got \in Seq(Chunks)
        /\ asked = [id |-> read.id, left |-> read.left \ {n}, got |-> read.got, refused |-> read.refused,
                    dropped |-> read.dropped, astray |-> read.astray]
    BY DEF ReadsUnderWay
  <2>2. read.left \subseteq 0 .. Len(content) - 1
    BY DEF HasOf
  <2>3. Len(content) \in Nat
    OBVIOUS
  <2> QED BY <2>1, <2>2, <2>3
<1>2. HasOf([asked EXCEPT !.refused = TRUE], content) /\ HasOf([asked EXCEPT !.dropped = TRUE], content)
  BY <1>1 DEF HasOf, PartOf
<1>3. PICK chunk : chunk = [index |-> n, block |-> content[n + 1]]
  OBVIOUS
<1>4. PICK got : got = Append(read.got, chunk)
  OBVIOUS
<1>5. PICK next : next = [asked EXCEPT !.got = got]
  OBVIOUS
<1>6. /\ DOMAIN read.got = 1 .. Len(read.got) /\ Len(read.got) \in Nat
      /\ DOMAIN got = 1 .. Len(read.got) + 1
      /\ \A i \in 1 .. Len(read.got) : got[i] = read.got[i]
      /\ got[Len(read.got) + 1] = chunk
  BY <1>1, <1>4
<1>7. next.got = got /\ next.left = read.left \ {n} /\ next.dropped = read.dropped
      /\ next.refused = read.refused
  BY <1>1, <1>5
<1>8. chunk.index = n /\ chunk.block = content[n + 1] /\ n \in 0 .. Len(content) - 1
  BY <1>1, <1>3
<1>9. \A i \in DOMAIN read.got : read.got[i].index \notin read.left
                                  /\ read.got[i].index \in 0 .. Len(content) - 1
                                  /\ read.got[i].block = content[read.got[i].index + 1]
  BY DEF HasOf, PartOf
<1>10. \A i \in DOMAIN got : \/ i \in DOMAIN read.got /\ got[i] = read.got[i]
                             \/ i = Len(read.got) + 1 /\ got[i] = chunk
  BY <1>6
<1>11. \A i \in DOMAIN got : got[i].index \in 0 .. Len(content) - 1 /\ got[i].block = content[got[i].index + 1]
                             /\ got[i].index \notin read.left \ {n}
  BY <1>8, <1>9, <1>10
<1>12. \A i, j \in DOMAIN got : got[i].index = got[j].index => i = j
  BY <1>8, <1>9, <1>10 DEF HasOf, PartOf
<1>13. ASSUME ~ next.dropped, ~ next.refused, NEW m \in 0 .. Len(content) - 1
       PROVE  m \in next.left \/ \E i \in DOMAIN next.got : next.got[i].index = m
  <2>1. m \in read.left \/ \E i \in DOMAIN read.got : read.got[i].index = m
    BY <1>7, <1>13 DEF HasOf
  <2>2. CASE \E i \in DOMAIN read.got : read.got[i].index = m
    BY <1>6, <1>7, <2>2
  <2>3. CASE m = n
    BY <1>6, <1>7, <1>8, <2>3
  <2> QED BY <1>7, <2>1, <2>2, <2>3
<1>14. HasOf(next, content)
  BY <1>1, <1>7, <1>11, <1>12, <1>13 DEF HasOf, PartOf
<1> QED BY <1>2, <1>3, <1>4, <1>5, <1>14

\* A read keeps the chunks of its content, answered or not.
LEMMA ChunkAnswerKept ==
  ASSUME JobsTyped, JobsKept, FilesKept, NEW c \in Callers, GetFileChunk(c)
  PROVE  JobsTyped' /\ JobsKept'
<1>1. PICK read : read = job[c].read
  OBVIOUS
<1>2. /\ read \in ReadsUnderWay /\ job[c].todo # <<>> /\ Step(c).op = "read"
      /\ Faithful(read, Step(c).url)
  <2>1. Reading(c) /\ job[c] \in Ongoing
    BY DEF GetFileChunk, Ongoing
  <2> QED BY <1>1, <2>1, JobOf DEF JobsKept, JobKept, Reading, Step
<1>3. PICK n \in read.left :
        \/ /\ read.id \in DOMAIN files /\ n \in DOMAIN files[read.id].chunks
           /\ job' = [job EXCEPT ![c].read = [[read EXCEPT !.left = read.left \ {n}] EXCEPT
                !.got = Append(read.got, [index |-> n, block |-> files[read.id].chunks[n]])]]
        \/ job' = [job EXCEPT ![c].read = [[read EXCEPT !.left = read.left \ {n}] EXCEPT !.refused = TRUE]]
        \/ job' = [job EXCEPT ![c].read = [[read EXCEPT !.left = read.left \ {n}] EXCEPT !.dropped = TRUE]]
  <2>1. PICK n \in read.left : LET asked == [read EXCEPT !.left = read.left \ {n}] IN
          \/ /\ read.id \in DOMAIN files /\ n \in DOMAIN files[read.id].chunks
             /\ job' = [job EXCEPT ![c].read = [asked EXCEPT
                  !.got = Append(asked.got, [index |-> n, block |-> files[read.id].chunks[n]])]]
          \/ job' = [job EXCEPT ![c].read = [asked EXCEPT !.refused = TRUE]]
          \/ job' = [job EXCEPT ![c].read = [asked EXCEPT !.dropped = TRUE]]
    BY <1>1, Zenon DEF GetFileChunk
  <2>2. [read EXCEPT !.left = read.left \ {n}].got = read.got
    BY <1>2 DEF ReadsUnderWay
  <2> QED BY <2>1, <2>2
<1>4. UNCHANGED <<files, given>>
  BY DEF GetFileChunk, vars, canister
<1>5. PICK asked : asked = [read EXCEPT !.left = read.left \ {n}]
  OBVIOUS
<1>6. /\ asked = [id |-> read.id, left |-> read.left \ {n}, got |-> read.got, refused |-> read.refused,
                  dropped |-> read.dropped, astray |-> read.astray]
      /\ asked \in ReadsUnderWay /\ read.got \in Seq(Chunks) /\ n \in Nat
  BY <1>2, <1>5 DEF ReadsUnderWay
<1>7. ASSUME NEW next \in ReadsUnderWay, next.id = read.id, next.astray = read.astray,
             \A content \in Seq(STRING) : HasOf(read, content) /\ StillThere(read.id, content) => HasOf(next, content)
      PROVE  Faithful(next, Step(c).url)
  BY <1>2, <1>7, StorageAssumption DEF Faithful
<1>8. CASE job' = [job EXCEPT ![c].read = [asked EXCEPT !.refused = TRUE]]
  <2>1. PICK next : next = [asked EXCEPT !.refused = TRUE]
    OBVIOUS
  <2>2. next \in ReadsUnderWay /\ next.id = read.id /\ next.astray = read.astray
    BY <1>6, <2>1 DEF ReadsUnderWay
  <2>3. Faithful(next, Step(c).url)
    BY <1>2, <1>5, <1>7, <2>1, <2>2, ChunkOfContent
  <2> QED BY <1>2, <1>4, <1>8, <2>1, <2>2, <2>3, ReadGoesOn
<1>9. CASE job' = [job EXCEPT ![c].read = [asked EXCEPT !.dropped = TRUE]]
  <2>1. PICK next : next = [asked EXCEPT !.dropped = TRUE]
    OBVIOUS
  <2>2. next \in ReadsUnderWay /\ next.id = read.id /\ next.astray = read.astray
    BY <1>6, <2>1 DEF ReadsUnderWay
  <2>3. Faithful(next, Step(c).url)
    BY <1>2, <1>5, <1>7, <2>1, <2>2, ChunkOfContent
  <2> QED BY <1>2, <1>4, <1>9, <2>1, <2>2, <2>3, ReadGoesOn
<1>10. ASSUME read.id \in DOMAIN files, n \in DOMAIN files[read.id].chunks,
              NEW block, block = files[read.id].chunks[n],
              job' = [job EXCEPT ![c].read = [asked EXCEPT !.got = Append(read.got, [index |-> n, block |-> block])]]
       PROVE  JobsTyped' /\ JobsKept'
  <2>1. PICK next : next = [asked EXCEPT !.got = Append(read.got, [index |-> n, block |-> block])]
    OBVIOUS
  <2>2. block \in STRING
    <3>1. PICK stored : stored = files[read.id].declared
      OBVIOUS
    <3>2. stored \in Seq(STRING) /\ Len(stored) \in Nat /\ StillThere(read.id, stored)
      BY <1>10, <3>1, FileIs
    <3>3. n \in 0 .. Len(stored) - 1 /\ block = stored[n + 1]
      BY <1>10, <3>2 DEF StillThere
    <3>4. n + 1 \in 1 .. Len(stored)
      BY <3>2, <3>3
    <3> QED BY <3>2, <3>3, <3>4
  <2>3. [index |-> n, block |-> block] \in Chunks
    BY <1>6, <2>2 DEF Chunks
  <2>4. Append(read.got, [index |-> n, block |-> block]) \in Seq(Chunks)
    BY <1>6, <2>3
  <2>5. next \in ReadsUnderWay /\ next.id = read.id /\ next.astray = read.astray
    BY <1>6, <2>1, <2>4 DEF ReadsUnderWay
  <2>6. ASSUME NEW content \in Seq(STRING), HasOf(read, content), StillThere(read.id, content)
        PROVE  HasOf(next, content)
    <3>1. n \in 0 .. Len(content) - 1
      BY <2>6 DEF HasOf
    <3>2. block = content[n + 1]
      BY <1>10, <2>6, <3>1 DEF StillThere
    <3> QED BY <1>2, <1>5, <2>1, <2>6, <3>2, ChunkOfContent
  <2>7. Faithful(next, Step(c).url)
    BY <1>7, <2>5, <2>6
  <2> QED BY <1>2, <1>4, <1>10, <2>1, <2>5, <2>7, ReadGoesOn
<1> QED BY <1>3, <1>5, <1>8, <1>9, <1>10

\* A read that is over has the content, or what is left of it.
LEMMA ReadShows ==
  ASSUME NEW read \in ReadsUnderWay, NEW url, Faithful(read, url), read.left = {}, ~ read.refused,
         NEW v, v = [url |-> url, content |-> Merged(read.got), dropped |-> read.dropped,
                     astray |-> read.astray]
  PROVE  Seen(v)
<1>1. SUFFICES ASSUME ~ read.astray
               PROVE  \E content \in GivenAs(url) :
                        IF read.dropped THEN InOrder(Merged(read.got), content)
                        ELSE Merged(read.got) = content
  BY DEF Seen
<1>2. PICK content \in GivenAs(url) \cap Contents : HasOf(read, content)
  BY <1>1 DEF Faithful
<1>3. content \in Seq(STRING) /\ read.got \in Seq(Chunks) /\ PartOf(read.got, content)
  <2>1. content \in Seq(STRING)
    BY StorageAssumption
  <2>2. read.got \in Seq(Chunks)
    BY DEF ReadsUnderWay
  <2> QED BY <1>2, <2>1, <2>2 DEF HasOf
<1>4. /\ InOrder(Merged(read.got), content)
      /\ (\A n \in 0 .. Len(content) - 1 : \E i \in DOMAIN read.got : read.got[i].index = n) =>
           Merged(read.got) = content
  BY <1>3, MergedInOrder
<1>5. CASE read.dropped
  BY <1>2, <1>4, <1>5
<1>6. CASE ~ read.dropped
  <2>1. \A n \in 0 .. Len(content) - 1 : \E i \in DOMAIN read.got : read.got[i].index = n
    BY <1>2, <1>6 DEF HasOf
  <2> QED BY <1>2, <1>4, <1>6, <2>1
<1> QED BY <1>5, <1>6

\* A read that returns adds one of the contents given, or ends the operation.
LEMMA ReturnKept ==
  ASSUME JobsTyped, JobsKept, NEW c \in Callers, ReadReturns(c)
  PROVE  JobsTyped' /\ JobsKept'
<1>1. PICK old : old = job[c]
  OBVIOUS
<1>2. PICK read : read = old.read
  OBVIOUS
<1>3. PICK url : url = Step(c).url
  OBVIOUS
<1>4. PICK part : part = [url |-> url, content |-> Merged(read.got), dropped |-> read.dropped,
                          astray |-> read.astray]
  OBVIOUS
<1>5. /\ Reading(c) /\ read.left = {} /\ files' = files /\ given' = given
      /\ \/ /\ ~ read.refused
            /\ job' = [job EXCEPT ![c].todo = Tail(old.todo), ![c].read = NoRead,
                                  ![c].parts = Append(old.parts, part)]
         \/ Ends(c)
  BY <1>1, <1>2, <1>3, <1>4 DEF ReadReturns, vars, canister
<1>6. given \subseteq given'
  BY <1>5
<1>7. CASE Ends(c)
  BY <1>5, <1>6, <1>7, EndKept
<1>8. ASSUME ~ read.refused,
             job' = [job EXCEPT ![c].todo = Tail(old.todo), ![c].read = NoRead,
                                ![c].parts = Append(old.parts, part)]
      PROVE  JobsTyped' /\ JobsKept'
  <2>1. /\ old \in Jobs /\ JobKept(old) /\ old.todo \in Seq(Steps) /\ old.parts \in Seq(Portions)
        /\ read \in ReadsUnderWay /\ read # NoRead
    BY <1>1, <1>2, <1>5, JobOf DEF JobsKept, Reading
  <2>2. /\ old.todo # <<>> /\ Head(old.todo).op = "read" /\ Faithful(read, url)
    BY <1>1, <1>2, <1>3, <2>1 DEF JobKept, Step
  <2>3. /\ Head(old.todo) = old.todo[1] /\ 1 \in 1 .. Len(old.todo) /\ Head(old.todo) \in Steps
    BY <2>1, <2>2, FirstStep
  <2>4. url \in Urls /\ url = old.todo[1].url
    BY <1>1, <1>3, <2>2, <2>3, StepOf DEF Step
  <2>5. old.mistaken \/ Own(old.document, url)
    BY <2>1, <2>2, <2>3, <2>4 DEF JobKept, StepsKept
  <2>6. Seen(part)
    BY <1>4, <1>5, <1>8, <2>1, <2>2, ReadShows
  <2>7. part \in Portions
    <3>1. read.got \in Seq(Chunks) /\ read.dropped \in BOOLEAN /\ read.astray \in BOOLEAN
      BY <2>1 DEF ReadsUnderWay
    <3> HIDE DEF Merged
    <3> QED BY <1>4, <2>4, <3>1 DEF Portions
  <2>8. PICK parts : parts = Append(old.parts, part)
    OBVIOUS
  <2>9. /\ parts \in Seq(Portions)
        /\ \A i \in DOMAIN parts : parts[i] = part \/ (i \in DOMAIN old.parts /\ parts[i] = old.parts[i])
    BY <2>1, <2>7, <2>8
  <2>10. PartsKept(old.document, old.mistaken, parts)
    <3>1. part.url = url
      BY <1>4
    <3>2. PartsKept(old.document, old.mistaken, old.parts)
      BY <2>1 DEF JobKept
    <3> QED BY <2>5, <2>6, <2>9, <3>1, <3>2 DEF PartsKept
  <2>11. job' = [job EXCEPT ![c] = [document |-> old.document, todo |-> Tail(old.todo),
                                     read |-> NoRead, parts |-> parts, mistaken |-> old.mistaken]]
    <3>1. PICK rest : rest = Tail(old.todo)
      OBVIOUS
    <3>2. PICK next : next = [old EXCEPT !.todo = rest]
      OBVIOUS
    <3>3. PICK done : done = [next EXCEPT !.read = NoRead]
      OBVIOUS
    <3>4. PICK mistaken : mistaken = old.mistaken
      OBVIOUS
    <3>5. old = [document |-> old.document, todo |-> old.todo, read |-> old.read,
                 parts |-> old.parts, mistaken |-> mistaken]
      BY <1>1, <3>4, JobOf
    <3>6. next = [document |-> old.document, todo |-> rest, read |-> old.read,
                  parts |-> old.parts, mistaken |-> mistaken]
      BY <3>2, <3>5
    <3>7. done = [document |-> old.document, todo |-> rest, read |-> NoRead,
                  parts |-> old.parts, mistaken |-> mistaken]
      BY <3>3, <3>6
    <3>8. [done EXCEPT !.parts = parts] =
            [document |-> old.document, todo |-> rest, read |-> NoRead, parts |-> parts,
             mistaken |-> mistaken]
      BY <3>7
    <3>9. job' = [job EXCEPT ![c] = [done EXCEPT !.parts = parts]]
      <4>1. job' = [job EXCEPT ![c].todo = rest, ![c].read = NoRead, ![c].parts = parts]
        BY <1>8, <2>8, <3>1
      <4>2. c \in DOMAIN job
        BY DEF JobsTyped
      <4> QED BY <1>1, <3>2, <3>3, <4>1, <4>2
    <3> QED BY <3>1, <3>4, <3>8, <3>9
  <2>12. PartsKept(old.document, old.mistaken, parts)'
    <3>1. \A d, u : Own(d, u) => Own(d, u)'
      BY <1>6 DEF Own
    <3>2. \A v : Seen(v) => Seen(v)'
      BY <1>6 DEF Seen, GivenAs
    <3> QED BY <2>10, <3>1, <3>2 DEF PartsKept
  <2>13. old.todo[1].op # "upload"
    BY <2>2, <2>3
  <2> QED BY <1>1, <1>5, <1>6, <2>2, <2>9, <2>11, <2>12, <2>13, NextStep
<1> QED BY <1>5, <1>7, <1>8

\* What others do makes reads go astray whose file is another one, and leaves the others.
LEMMA ElsewhereKept ==
  ASSUME JobsTyped, JobsKept, Elsewhere, given \subseteq given'
  PROVE  JobsTyped' /\ JobsKept'
<1> DEFINE replaced == {id \in DOMAIN files' :
                          id \notin DOMAIN files \/ files'[id].chunks # files[id].chunks}
<1>1. job' = [c \in Callers |->
           IF Reading(c) /\ job[c].read.id \in replaced
           THEN [job[c] EXCEPT !.read.astray = TRUE] ELSE job[c]]
  BY DEF Elsewhere
<1>2. ASSUME NEW c \in Callers, NEW j, j = job'[c]
      PROVE  j \in Jobs /\ JobKept(j)'
  <2>1. PICK old : old = job[c]
    OBVIOUS
  <2>2. old \in Jobs /\ JobKept(old)
    BY <2>1, JobOf DEF JobsKept
  <2>3. CASE Reading(c) /\ job[c].read.id \in replaced
    <3>1. PICK read : read = [old.read EXCEPT !.astray = TRUE]
      OBVIOUS
    <3>2. old.read \in ReadsUnderWay /\ old.read # NoRead
      BY <2>1, <2>3, JobOf DEF Reading
    <3>3. read \in ReadsUnderWay /\ read.astray = TRUE
      BY <3>1, <3>2 DEF ReadsUnderWay
    <3>4. j = [old EXCEPT !.read = read]
      BY <1>1, <1>2, <2>1, <2>3, <3>1
    <3>5. /\ j \in Jobs /\ j.read = read /\ j.document = old.document /\ j.todo = old.todo
          /\ j.parts = old.parts /\ j.mistaken = old.mistaken
      BY <2>2, <3>3, <3>4 DEF Jobs
    <3>6. Faithful(read, Head(j.todo).url)
      BY <3>3 DEF Faithful
    <3>7. JobKept(j)
      BY <2>2, <3>2, <3>5, <3>6 DEF JobKept
    <3>8. j.read.astray
      BY <3>3, <3>5
    <3> QED BY <3>5, <3>7, <3>8, KeptStays
  <2>4. CASE ~ (Reading(c) /\ job[c].read.id \in replaced)
    <3>1. j = old
      BY <1>1, <1>2, <2>1, <2>4
    <3>2. old.read # NoRead /\ old.read.id \in DOMAIN files' =>
            old.read.id \in DOMAIN files /\ files'[old.read.id].chunks = files[old.read.id].chunks
      BY <2>1, <2>4 DEF Reading
    <3>3. JobKept(old)'
      BY <2>2, <3>2, KeptStays
    <3> QED BY <2>2, <3>1, <3>3
  <2> QED BY <2>3, <2>4
<1>3. job' = [c \in Callers |-> job'[c]]
  BY <1>1
<1>4. job' \in [Callers -> Jobs]
  BY <1>2, <1>3
<1>5. ASSUME NEW j \in Ongoing'
      PROVE  JobKept(j)'
  BY <1>2, <1>5 DEF Ongoing
<1> QED BY <1>4, <1>5 DEF JobsTyped, JobsKept

\* Readers' steps keep the jobs.
LEMMA ReadingKeepsJobs ==
  ASSUME JobsTyped, JobsKept, Typed, FilesKept, Announced, Recorded, NEW c \in Callers, ReadingOn(c)
  PROVE  JobsTyped' /\ JobsKept'
<1>1. CASE DocumentReturned(c)
  <2>1. Ends(c) /\ UNCHANGED <<vars, given>>
    BY <1>1 DEF DocumentReturned
  <2>2. files' = files /\ given \subseteq given'
    BY <2>1 DEF vars, canister
  <2> QED BY <2>1, <2>2, EndKept
<1> QED BY <1>1, SearchKept, ListingKept, ChunkAnswerKept, ReturnKept DEF ReadingOn

-----------------------------------------------------------------------------
\* The theorems.

\* Every step keeps what is stored, on its way, recorded and read what was given.
LEMMA DocumentsStep ==
  ASSUME Typed, FilesKept, DocumentsInv, [DocumentsNext]_allVars
  PROVE  DocumentsInv'
<1>1. given \subseteq given'
  BY GivenStays DEF DocumentsInv
<1>2. Announced' /\ Recorded'
  BY StayAnnounced, StayRecorded DEF DocumentsInv
<1>3. CASE UNCHANGED allVars
  <2>1. Ongoing' = Ongoing /\ UNCHANGED <<files, given, job>>
    BY <1>3 DEF allVars, vars, canister, documentVars, Ongoing
  <2>2. \A j \in Ongoing : JobKept(j)'
    BY <1>1, <2>1, KeptStays DEF DocumentsInv, JobsKept
  <2>3. JobsTyped' /\ JobsKept'
    BY <2>1, <2>2 DEF DocumentsInv, JobsTyped, JobsKept
  <2> QED BY <1>2, <2>3 DEF DocumentsInv
<1>4. CASE Elsewhere
  BY <1>1, <1>2, <1>4, ElsewhereKept DEF DocumentsInv
<1>5. ASSUME NEW c \in Callers, Beginning(c)
      PROVE  DocumentsInv'
  BY <1>2, <1>5, BeginningKept DEF DocumentsInv
<1>6. ASSUME NEW c \in Callers, StartUpload(c) \/ UploadEnds(c) \/ Recording(c)
      PROVE  DocumentsInv'
  BY <1>2, <1>6, UploadsKeepJobs DEF DocumentsInv
<1>7. ASSUME NEW c \in Callers, ReadingOn(c)
      PROVE  DocumentsInv'
  BY <1>2, <1>7, ReadingKeepsJobs DEF DocumentsInv
<1> QED BY <1>3, <1>4, <1>5, <1>6, <1>7, DocumentSteps DEF DocumentsInv

\* At first there are no documents and no files.
LEMMA InitiallyNoDocuments ==
  ASSUME DocumentsInit
  PROVE  DocumentsInv
<1>1. /\ files = <<>> /\ pending = <<>> /\ certificates = <<>> /\ record = Shipment!NewRecord
      /\ job = [c \in Callers |-> NoJob]
  BY DEF DocumentsInit, Init
<1>2. DOMAIN files = {} /\ DOMAIN pending = {} /\ DOMAIN certificates = {}
  BY <1>1
<1>3. JobsTyped /\ JobsKept
  BY <1>1, NoJobKept DEF JobsTyped, JobsKept, Ongoing
<1>4. record \in Shipment!Record
  BY <1>1 DEF Shipment!NewRecord, Shipment!Record, Shipment!Verdicts, Shipment!FundsStates, Shipment!Addresses
<1>5. record.documents = <<>> /\ Len(<<>>) = 0 /\ 1 .. 0 = {}
  BY <1>1 DEF Shipment!NewRecord
<1>6. Recorded
  BY <1>2, <1>4, <1>5 DEF Recorded, HasUrl
<1> QED BY <1>2, <1>3, <1>6 DEF DocumentsInv, Announced

\* The invariants of the canister and of its clients hold of every state of the SDK: what is stored,
\* on its way, recorded and read was given, and files, links, roles and uploads are what they are
\* without the SDK.
THEOREM DocumentsInvariance ==
  DocumentsSpec => [](IInv /\ RequestsNamed /\ RolesKept /\ DocumentsInv)
<1> DEFINE AllKept == IInv /\ RequestsNamed /\ RolesKept /\ DocumentsInv
<1>1. DocumentsInit => AllKept
  BY InitiallyKept, InitiallyMirrored, InitiallyNoDocuments DEF DocumentsInit
<1>2. AllKept /\ [DocumentsNext]_allVars => AllKept'
  <2> SUFFICES ASSUME AllKept, [DocumentsNext]_allVars
               PROVE  AllKept'
    OBVIOUS
  <2>1. Typed /\ FilesKept /\ JobsTyped /\ Recorded
    BY DEF IInv, DocumentsInv
  <2>2. [AnyStep]_vars
    BY <2>1, CanisterSteps
  <2> QED BY <2>1, <2>2, Kept, StayNamed, StayMirrored, DocumentsStep
<1> QED BY <1>1, <1>2, PTL DEF DocumentsSpec

\* What a reader gets for a document was given under the URL that was read, whole or, when calls for
\* its chunks got lost, what is left of it in order: files are numbered by their count, uploads take
\* the place of others, chunks arrive in any order (StorageDriver.getFile).  And the URL was given for
\* that document, or for its metadata, unless the search by id met a document of another type
\* (ShipmentService.retrieveDocument): the file, its metadata and the record are written, and read,
\* by calls of which each may fail, while documents are pointed elsewhere.
THEOREM ReadersSeeWhatWasGiven == DocumentsSpec => []ReadersSeeUploads
BY DocumentsInvariance, JobsShow, PTL DEF DocumentsInv

\* A step of the SDK is one of the canister, or none.
LEMMA ClientSteps ==
  ASSUME IInv, DocumentsInv, [DocumentsNext]_allVars
  PROVE  [AnyStep]_vars
BY CanisterSteps DEF IInv, DocumentsInv

\* With the SDK as its client, the canister has values of its kinds, and its calls wait for exactly
\* the answers to their requests.
THEOREM DocumentsTyped == DocumentsSpec => []TypeOK
BY KeptIsTyped, DocumentsInvariance, PTL

\* With the SDK as its client, what is stored is what was announced (put_chunk).
THEOREM DocumentsIntact == DocumentsSpec => []StoredFilesIntact
<1>1. IInv => StoredFilesIntact
  BY StoredIs DEF IInv, StoredFilesIntact
<1> QED BY <1>1, DocumentsInvariance, PTL

\* With the SDK as its client, the two halves of every role agree when no call works on the file
\* (add_member, remove_member, remove_file).
THEOREM DocumentsMirrored == DocumentsSpec => []MembersMirrored
<1>1. IInv /\ RequestsNamed /\ RolesKept => MembersMirrored
  BY MirroredAtRest DEF IInv
<1> QED BY <1>1, DocumentsInvariance, PTL

\* With the SDK as its client, no upload takes the place of a stored file while no removal has left
\* a gap in the ids (create_file).
THEOREM DocumentsNotReplaced == DocumentsSpec => NothingReplacedWithoutGap
<1>1. ASSUME IInv, DocumentsInv, [DocumentsNext]_allVars
      PROVE  \A id \in DOMAIN files : ~ gapped /\ id \in DOMAIN files' =>
               [files'[id] EXCEPT !.name = files[id].name] = files[id]
  BY <1>1, ClientSteps, NothingReplaced DEF IInv
<1>2. IInv /\ DocumentsInv /\ [DocumentsNext]_allVars =>
        [\A id \in DOMAIN files : ~ gapped /\ id \in DOMAIN files' =>
           [files'[id] EXCEPT !.name = files[id].name] = files[id]]_vars
  BY <1>1
<1> QED BY <1>2, DocumentsInvariance, PTL DEF DocumentsSpec, NothingReplacedWithoutGap

\* With the SDK as its client, an upload that is reported as done, and that nothing disturbed, is
\* stored with every block in its place (StorageDriver.create).
THEOREM DocumentsReported == DocumentsSpec => ReportedUploadsStored
<1> DEFINE Reported == \A c \in Callers :
       /\ call[c] # Idle /\ call[c].op = "chunks" /\ ~ call[c].failed /\ ~ call[c].disturbed
       /\ call[c].left = {} /\ call[c].content # <<>> /\ call'[c] = Idle
       => /\ call[c].id \in DOMAIN files'
          /\ LET blocks == files'[call[c].id].chunks
             IN  \A n \in 1 .. Len(call[c].content) :
                   n - 1 \in DOMAIN blocks /\ blocks[n - 1] = call[c].content[n]
<1>1. ASSUME IInv, DocumentsInv, [DocumentsNext]_allVars
      PROVE  Reported
  BY <1>1, ClientSteps, ReportedStored DEF IInv
<1> HIDE DEF Reported
<1>2. IInv /\ DocumentsInv /\ [DocumentsNext]_allVars => [Reported]_vars
  BY <1>1
<1> QED BY <1>2, DocumentsInvariance, PTL DEF DocumentsSpec, ReportedUploadsStored, Reported

\* With the SDK as its client, a removed link does not come back, no use of a link is forgotten and
\* none is beyond its limit (share_file, get_shared_file_chunk).
THEOREM DocumentsLinksAge == DocumentsSpec => LinksOnlyAge
<1> DEFINE Aged == \A id \in Ids, token \in issued :
       LET old == LinkNamed(shares[id], token)
           new == LinkNamed(shares'[id], token)
       IN  /\ old = NoLink => new = NoLink
           /\ old # NoLink /\ new # NoLink => new.uses >= old.uses
           /\ new # NoLink /\ new.limit # 0 => new.uses <= new.limit
<1>1. ASSUME IInv, DocumentsInv, [DocumentsNext]_allVars
      PROVE  Aged
  BY <1>1, ClientSteps, AgeStep DEF IInv
<1> HIDE DEF Aged
<1>2. IInv /\ DocumentsInv /\ [DocumentsNext]_allVars => [Aged]_vars
  BY <1>1
<1> QED BY <1>2, DocumentsInvariance, PTL DEF DocumentsSpec, LinksOnlyAge, Aged

===============================================================================
