-------------------------------- MODULE Storage --------------------------------
(***************************************************************************)
(* The storage canister (services/storage), the uploads the SDK makes to   *)
(* it (StorageDriver) and the permission canister it calls.                *)
(*                                                                         *)
(* A call that waits for the permission canister, or for randomness, is    *)
(* suspended and others run.  An upload is one client that first calls     *)
(* create_file and then puts all its chunks at once, in no order.  A file  *)
(* is the blocks of its content, one block in a chunk; the hash of a       *)
(* content stands for the content.  The bodies of the access guards are    *)
(* commented out in the source, so everyone may call everything.           *)
(***************************************************************************)
EXTENDS Permissions, Registry

CONSTANTS
  Users, Contents,
  Callers,              \* slots for calls and uploads in progress
  Tokens,               \* what raw_rand can return
  Limits,               \* max_uses of a link, 0 for no limit
  MaxUses,              \* bound on the counted uses
  Workloads             \* what the clients of a behaviour may do: the users they
                        \* are, the methods they call, the names and contents they
                        \* upload, and bounds on the ids and on the rejected calls

ASSUME StorageAssumption ==
  /\ Contents \subseteq Seq(STRING) /\ Limits \subseteq Nat /\ MaxUses \in Nat
  /\ \A w \in Workloads : w.users \subseteq Users /\ w.contents \subseteq Contents /\ w.maxFiles \in Nat

VARIABLES
  files, pending,       \* FILES and PENDING_FILES: [name, owner, declared, chunks] by id
  shares,               \* SHARED_FILES: the links of each id
  permissionsKnown,     \* PERMISSION_CANISTER_ID is set
  late,                 \* the expiry date of the links that have one has passed
  call,                 \* the calls and uploads in progress
  workload,
  issued,               \* history: tokens that links were made with
  gapped,               \* history: the ids of the files had a gap
  torn                  \* history: ids whose permissions a failed call, or a call
                        \* during the removal of the file, may have left half set

canister == <<files, pending, shares, permissionsKnown, late>>
vars == <<canister, call, workload, issued, gapped, torn, permissionVars>>

Ids == 0 .. workload.maxFiles - 1
Idle == [op |-> "none"]
NoLink == [token |-> NoValue]

\* A call that has just come, which waits for so many answers.
Started(op, user, id, wait) ==
  [op |-> op, user |-> user, id |-> id, wait |-> wait, ok |-> TRUE, disturbed |-> FALSE,
   content |-> <<>>, left |-> {}, failed |-> FALSE,     \* of an upload
   keys |-> {}, todo |-> <<>>, listed |-> FALSE,        \* of a handler that goes on calling
   links |-> {}]                                        \* of share_file

Init ==
  /\ workload \in Workloads
  /\ files = <<>> /\ pending = <<>> /\ shares = [id \in Ids |-> {}]
  /\ permissionsKnown = TRUE /\ late = FALSE
  /\ call = [c \in Callers |-> Idle]
  /\ issued = {} /\ gapped = FALSE /\ torn = {}
  /\ PermissionsInit

-----------------------------------------------------------------------------
\* History.

Working(id) == {c \in Callers : call[c] # Idle /\ call[c].id = id}

\* Calls on one file that overlap with its removal.
TornBy(op, id) ==
  IF \E d \in Working(id) : op = "remove" \/ call[d].op = "remove" THEN {id} ELSE {}

NoteTorn(op, id) == torn' = torn \cup TornBy(op, id)
NoteGap == gapped' = (gapped \/ DOMAIN files' # 0 .. Cardinality(DOMAIN files') - 1)

Begin(c, started) ==
  /\ started.op \in workload.methods
  /\ call[c] = Idle
  /\ call' = [call EXCEPT ![c] = started]
  /\ UNCHANGED gapped
  /\ NoteTorn(started.op, started.id)

-----------------------------------------------------------------------------
\* Uploads.

\* Mutant of NextFileId: the ids count the pending files.
NextPendingId == NextId(pending)

\* FileRepository::create_file: a pending file of the same id is replaced.
NextFileId == NextId(files)

\* Mutant of NewPending: the arguments are in the wrong order.
Swapped(user, name, content) ==
  [name |-> name, owner |-> content, declared |-> user, chunks |-> <<>>]

NewPending(user, name, content) ==
  [name |-> name, owner |-> user, declared |-> content, chunks |-> <<>>]

Uploading(id) == {c \in Working(id) : call[c].op \in {"create", "chunks"}}

\* An upload of an id another upload is working on disturbs that one, and is
\* disturbed by it when chunks of the same owner can still arrive.
CreateFile(c, user, name, content) ==
  LET id == NextFileId
      mine == [Started("create", user, id, 2) EXCEPT
                 !.content = content,
                 !.disturbed = \E e \in Uploading(id) : call[e].user = user]
  IN
  /\ call[c] = Idle
  /\ permissionsKnown
  /\ id < workload.maxFiles
  /\ pending' = Put(pending, id, NewPending(user, name, content))
  /\ Send(<<SetPermission(c, FileUserKey(id, user), "Owner"),
            SetPermission(c, UserFileKey(user, id), "Owner")>>)
  /\ call' = [d \in Callers |->
       IF d = c THEN mine
       ELSE IF d \in Uploading(id) THEN [call[d] EXCEPT !.disturbed = TRUE]
       ELSE call[d]]
  /\ UNCHANGED <<files, shares, permissionsKnown, late, workload, issued, gapped>>
  /\ NoteTorn("create", id)

HasAnswers(c, op) == call[c] # Idle /\ call[c].op = op /\ call[c].wait = 0

\* StorageDriver.create once create_file has answered: the pool of chunks.
PutChunks(c) == [call[c] EXCEPT !.op = "chunks", !.left = 0 .. Len(call[c].content) - 1]

Indexes(p) == 0 .. Cardinality(DOMAIN p.chunks) - 1
Assembled(p) == [i \in 1 .. Cardinality(DOMAIN p.chunks) |-> p.chunks[i - 1]]
WithChunk(p, n, block) == [p EXCEPT !.chunks = Put(@, n, block)]

\* All the announced bytes are there (the assembly of chunks that do not start
\* at 0 traps).
Complete(p) == Cardinality(DOMAIN p.chunks) = Len(p.declared)

\* Mutant of Acceptable: the hash of the file is not checked.
AnyContent(p) == Complete(p) => Indexes(p) \subseteq DOMAIN p.chunks

Acceptable(p) ==
  Complete(p) => Indexes(p) \subseteq DOMAIN p.chunks /\ Assembled(p) = p.declared

\* Mutant of Finished: the file is finished by its last chunk.
FinishedByLast(p, n) == n = Len(p.declared) - 1

Finished(p, n) == Complete(p)

\* put_chunk by user; it answers Err, and nothing changes, when it is refused.
PutChunk(user, id, n, block) ==
  LET accepted == /\ id \in DOMAIN pending
                  /\ pending[id].owner = user
                  /\ n \notin DOMAIN pending[id].chunks
                  /\ Acceptable(WithChunk(pending[id], n, block))
  IN
  \/ /\ ~ accepted
     /\ UNCHANGED <<files, pending>>
  \/ /\ accepted
     /\ LET p == WithChunk(pending[id], n, block)
        IN  IF Finished(p, n)
            THEN files' = Put(files, id, p) /\ pending' = Without(pending, id)
            ELSE pending' = [pending EXCEPT ![id] = p] /\ UNCHANGED files

\* The pool only notes calls that throw: an Err is an answer like any other.
ChunkDone(c, n, threw) ==
  call' = [call EXCEPT ![c].left = @ \ {n}, ![c].failed = @ \/ threw]

ChunkCall(c) == call[c] # Idle /\ call[c].op = "chunks" /\ \E n \in call[c].left :
  /\ \/ /\ PutChunk(call[c].user, call[c].id, n, call[c].content[n + 1])
        /\ \E threw \in BOOLEAN : ChunkDone(c, n, threw)   \* the answer may be lost
     \/ /\ UNCHANGED <<files, pending>> /\ ChunkDone(c, n, TRUE)
  /\ UNCHANGED <<shares, permissionsKnown, late, workload, issued, torn,
                 permissionVars>>
  /\ NoteGap

\* StorageDriver.create returns the id, or throws when a chunk call threw.
UploadReturns(c) ==
  /\ HasAnswers(c, "chunks") /\ call[c].left = {}
  /\ call' = [call EXCEPT ![c] = Idle]
  /\ UNCHANGED <<canister, workload, issued, gapped, torn, permissionVars>>

-----------------------------------------------------------------------------
\* Members and removal.

\* Mutant of Together: the second call is made when the first is answered.
OneAfterTheOther(first, second) == [now |-> <<first>>, later |-> <<second>>]

\* join! makes both calls before it waits.
Together(first, second) == [now |-> <<first, second>>, later |-> <<>>]

BothKeys(c, user, id, first, second) ==
  /\ Begin(c, [Started("member", user, id, Len(Together(first, second).now)) EXCEPT
                 !.todo = Together(first, second).later])
  /\ Send(Together(first, second).now)
  /\ UNCHANGED <<canister, workload, issued>>

AddMember(c) == \E user, member \in workload.users, id \in Ids, role \in {"Editor", "Viewer"} :
  /\ permissionsKnown /\ member # user
  /\ BothKeys(c, user, id, SetPermission(c, FileUserKey(id, member), role),
                           SetPermission(c, UserFileKey(member, id), role))

RemoveMember(c) == \E user, member \in workload.users, id \in Ids :
  /\ permissionsKnown /\ member # user
  /\ BothKeys(c, user, id, DeletePermission(c, FileUserKey(id, member)),
                           DeletePermission(c, UserFileKey(member, id)))

RemoveFile(c) == \E user \in workload.users, id \in Ids :
  /\ permissionsKnown
  /\ Begin(c, Started("remove", user, id, 1))
  /\ Send(<<GetSubkeys(c, FileKey(id))>>)
  /\ UNCHANGED <<canister, workload, issued>>

-----------------------------------------------------------------------------
\* Answers.

\* The oldest call to the permission canister is answered, or rejected by the
\* system; a rejected call makes its caller trap.
Answered == \E r \in ToSet(requests) :
  /\ Handle(r)
  /\ call' = [call EXCEPT ![r.from].wait = @ - 1, ![r.from].ok = @ /\ AnswerTo(r).ok,
                          ![r.from].keys = AnswerTo(r).keys]
  /\ UNCHANGED <<canister, workload, issued, gapped, torn>>

Rejected == \E r \in ToSet(requests) :
  /\ rejections < workload.maxRejections
  /\ Reject(r)
  /\ call' = [call EXCEPT ![r.from].wait = @ - 1, ![r.from].ok = FALSE]
  /\ torn' = torn \cup {call[r.from].id}
  /\ UNCHANGED <<canister, workload, issued, gapped>>

\* create_file returns the id, unless it trapped or the answer to the client gets lost.
FileCreated(c) ==
  /\ HasAnswers(c, "create")
  /\ \E lost \in BOOLEAN :
       call' = [call EXCEPT ![c] = IF call[c].ok /\ ~ lost THEN PutChunks(c) ELSE Idle]
  /\ UNCHANGED <<canister, workload, issued, gapped, torn, permissionVars>>

\* The next of the calls a handler makes one at a time.
SendNext(c, todo) ==
  /\ Send(<<Head(todo)>>)
  /\ call' = [call EXCEPT ![c].wait = 1, ![c].todo = Tail(todo)]
  /\ UNCHANGED <<canister, workload, issued, gapped, torn>>

MemberDone(c) ==
  /\ HasAnswers(c, "member")
  /\ \/ call[c].todo # <<>> /\ SendNext(c, call[c].todo)
     \/ /\ call[c].todo = <<>>
        /\ call' = [call EXCEPT ![c] = Idle]
        /\ UNCHANGED <<canister, workload, issued, gapped, torn, permissionVars>>

Deletions(c, id, order) ==
  [i \in DOMAIN order |-> DeletePermission(c, <<order[i], <<"file", id>>>>)]
    \o <<DeletePermission(c, FileKey(id))>>

\* remove_file: the subkeys, then each of their entries, then the file's own.
RemovalContinues(c) ==
  /\ HasAnswers(c, "remove") /\ call[c].ok
  /\ \/ /\ ~ call[c].listed
        /\ \E order \in SetToSeqs(call[c].keys) :
             LET todo == Deletions(c, call[c].id, order)
             IN  /\ Send(<<Head(todo)>>)
                 /\ call' = [call EXCEPT ![c].wait = 1, ![c].todo = Tail(todo),
                                         ![c].listed = TRUE]
        /\ UNCHANGED <<canister, workload, issued, gapped, torn>>
     \/ call[c].todo # <<>> /\ SendNext(c, call[c].todo)

\* An error ends the removal where it is.
RemovalFails(c) ==
  /\ HasAnswers(c, "remove") /\ ~ call[c].ok
  /\ call' = [call EXCEPT ![c] = Idle]
  /\ torn' = torn \cup {call[c].id}
  /\ UNCHANGED <<canister, workload, issued, gapped, permissionVars>>

RemovalDone(c) ==
  /\ HasAnswers(c, "remove") /\ call[c].ok /\ call[c].listed /\ call[c].todo = <<>>
  /\ files' = Without(files, call[c].id)
  /\ call' = [d \in Callers |->
       IF d = c THEN Idle
       ELSE IF d \in Working(call[c].id) THEN [call[d] EXCEPT !.disturbed = TRUE]
       ELSE call[d]]
  /\ UNCHANGED <<pending, shares, permissionsKnown, late, workload, issued, torn,
                 permissionVars>>
  /\ NoteGap

-----------------------------------------------------------------------------
\* Links.

\* share_file waits for randomness before it reads the links (links: what they
\* were when the call came).
ShareFile(c) == \E user \in workload.users, id \in Ids :
  /\ Begin(c, [Started("share", user, id, 0) EXCEPT !.links = shares[id]])
  /\ UNCHANGED <<canister, workload, issued, permissionVars>>

\* Mutant of LinksRead: the links are those read before the wait.
LinksReadBefore(c) == call[c].links

LinksRead(c) == shares[call[c].id]

LinkMade(c) == \E token \in Tokens \ issued, limit \in Limits, expires \in BOOLEAN :
  /\ HasAnswers(c, "share")
  /\ shares' = [shares EXCEPT ![call[c].id] =
       LinksRead(c) \cup {[token |-> token, limit |-> limit, expires |-> expires, uses |-> 0]}]
  /\ issued' = issued \cup {token}
  /\ call' = [call EXCEPT ![c] = Idle]
  /\ UNCHANGED <<files, pending, permissionsKnown, late, workload, gapped, torn,
                 permissionVars>>

Usable(link) ==
  /\ link.limit # 0 => link.uses < link.limit
  /\ link.expires => ~ late

UseFileShare(id, link) ==
  /\ Usable(link)
  /\ shares' = [shares EXCEPT ![id] =
                  (@ \ {link}) \cup {[link EXCEPT !.uses = @ + 1]}]

\* get_shared_file_chunk counts a use when the last chunk is asked for.
UseLink == \E id \in DOMAIN files : \E link \in shares[id] :
  /\ "share" \in workload.methods
  /\ link.uses < MaxUses
  /\ UseFileShare(id, link)
  /\ UNCHANGED <<files, pending, permissionsKnown, late, call, workload, issued, gapped,
                 torn, permissionVars>>

RemoveLink == \E id \in Ids : \E link \in shares[id] :
  /\ "share" \in workload.methods
  /\ shares' = [shares EXCEPT ![id] = {l \in @ : l.token # link.token}]
  /\ UNCHANGED <<files, pending, permissionsKnown, late, call, workload, issued, gapped,
                 torn, permissionVars>>

TimePasses ==
  /\ "share" \in workload.methods /\ ~ late /\ late' = TRUE
  /\ UNCHANGED <<files, pending, shares, permissionsKnown, call, workload, issued, gapped,
                 torn, permissionVars>>

\* rename_file, which does nothing to an id that has no file.
RenameFile == \E id \in DOMAIN files, name \in workload.names :
  /\ "rename" \in workload.methods
  /\ files' = [files EXCEPT ![id].name = name]
  /\ UNCHANGED <<pending, shares, permissionsKnown, late, call, workload, issued, gapped,
                 torn, permissionVars>>

\* The stable maps survive an upgrade, the id of the permission canister, which
\* post_upgrade does not set again, does not.  A canister is stopped, and
\* its calls finished, before it is upgraded.
Upgrade ==
  /\ "upgrade" \in workload.methods
  /\ \A c \in Callers : call[c] # Idle => call[c].op = "chunks"
  /\ permissionsKnown /\ permissionsKnown' = FALSE
  /\ UNCHANGED <<files, pending, shares, late, call, workload, issued, gapped, torn,
                 permissionVars>>

-----------------------------------------------------------------------------
Next ==
  \/ \E c \in Callers :
       \/ \E user \in workload.users, name \in workload.names, content \in workload.contents :
            "create" \in workload.methods /\ CreateFile(c, user, name, content)
       \/ AddMember(c) \/ RemoveMember(c) \/ RemoveFile(c) \/ ShareFile(c)
       \/ ChunkCall(c) \/ UploadReturns(c) \/ FileCreated(c) \/ MemberDone(c) \/ RemovalContinues(c)
       \/ RemovalFails(c) \/ RemovalDone(c) \/ LinkMade(c)
  \/ Answered \/ Rejected
  \/ UseLink \/ RemoveLink \/ TimePasses \/ RenameFile \/ Upgrade

Spec == Init /\ [][Next]_vars

-----------------------------------------------------------------------------
\* Properties.

\* The requests of a caller that are not answered yet.
Asked(c) == {i \in DOMAIN requests : requests[i].from = c}

\* Files, links, roles and calls have values of their kind and every link was made by share_file;
\* every request is one of a call in progress, which waits for exactly the answers to its requests.
TypeOK ==
  /\ DOMAIN files \cup DOMAIN pending \subseteq Ids
  /\ \A id \in DOMAIN files : files[id].owner \in Users /\ files[id].declared \in Contents
  /\ \A id \in DOMAIN pending : pending[id].owner \in Users /\ pending[id].declared \in Contents
  /\ permissionsKnown \in BOOLEAN /\ late \in BOOLEAN /\ gapped \in BOOLEAN
  /\ torn \subseteq Ids /\ issued \subseteq Tokens
  /\ DOMAIN shares = Ids
  /\ \A id \in Ids : \A link \in shares[id] :
       link.token \in issued /\ link.limit \in Limits /\ link.expires \in BOOLEAN /\ link.uses \in Nat
  /\ \A path \in DOMAIN trie : trie[path] \in {NoValue, "Owner", "Editor", "Viewer"}
  /\ \A i \in DOMAIN requests :
       /\ requests[i].method \in {"set", "delete", "subkeys"}
       /\ requests[i].from \in Callers /\ call[requests[i].from] # Idle
  /\ \A c \in Callers : call[c] # Idle =>
       call[c].user \in Users /\ call[c].id \in Ids /\ call[c].wait = Cardinality(Asked(c))

\* What is stored is what was announced, whoever else was uploading under the
\* same id and in whatever order the chunks arrived.
StoredFilesIntact == \A id \in DOMAIN files :
  /\ DOMAIN files[id].chunks = Indexes(files[id])
  /\ Assembled(files[id]) = files[id].declared

\* While no call works on a file, a user has the same role under the file as the
\* file has under the user: the two halves of concurrent calls do not mix.
MembersMirrored == \A id \in Ids \ torn : Working(id) = {} =>
  \A u \in Users : Get(trie, FileUserKey(id, u)) = Get(trie, UserFileKey(u, id))

\* Until a removal leaves a gap in the ids, a finished upload never takes the
\* place of a stored file.
NothingReplacedWithoutGap ==
  [][\A id \in DOMAIN files : ~ gapped /\ id \in DOMAIN files' =>
       [files'[id] EXCEPT !.name = files[id].name] = files[id]]_vars

\* An upload the SDK reports as done is stored, every block of it, unless another upload of the same
\* id, or a removal of it, came between.
ReportedUploadsStored ==
  [][\A c \in Callers :
       /\ call[c] # Idle /\ call[c].op = "chunks" /\ ~ call[c].failed /\ ~ call[c].disturbed
       /\ call[c].left = {} /\ call[c].content # <<>> /\ call'[c] = Idle
       => /\ call[c].id \in DOMAIN files'
          /\ LET blocks == files'[call[c].id].chunks
             IN  \A n \in 1 .. Len(call[c].content) :
                   n - 1 \in DOMAIN blocks /\ blocks[n - 1] = call[c].content[n]]_vars

LinkNamed(links, token) ==
  IF \E l \in links : l.token = token THEN CHOOSE l \in links : l.token = token ELSE NoLink

\* A link that was removed does not come back, no use of a link is forgotten, and
\* no link is used more often than its limit.
LinksOnlyAge ==
  [][\A id \in Ids, token \in issued :
       LET old == LinkNamed(shares[id], token)
           new == LinkNamed(shares'[id], token)
       IN  /\ old = NoLink => new = NoLink
           /\ old # NoLink /\ new # NoLink => new.uses >= old.uses
           /\ new # NoLink /\ new.limit # 0 => new.uses <= new.limit]_vars
===============================================================================
