----------------------------- MODULE StorageProofs -----------------------------
(***************************************************************************)
(* Theorems of Storage: the types, that stored files are what was          *)
(* announced, that nothing is replaced while the ids have no gap, that     *)
(* reported uploads are stored, and that links only age.  Nothing below    *)
(* depends on the users, the contents, the workloads or the bounds.        *)
(***************************************************************************)
EXTENDS Storage, FiniteSetTheorems, SequenceTheorems, TLAPS

-----------------------------------------------------------------------------
\* Types.

Roles == {"Owner", "Editor", "Viewer"}
Parts == ({"file"} \X Ids) \cup ({"user"} \X Users)
Keys == Seq(Parts)

Requests ==
  [from : Callers, method : {"set"}, key : Keys, role : Roles]
    \cup [from : Callers, method : {"delete", "subkeys"}, key : Keys]

PartSets == {K \in SUBSET Parts : IsFiniteSet(K)}

Links == [token : Tokens, limit : Limits, expires : BOOLEAN, uses : Nat]

Calls ==
  [op : {"create", "chunks", "member", "remove", "share"}, user : Users, id : Ids,
   wait : 0 .. 2, ok : BOOLEAN, disturbed : BOOLEAN, content : Seq(STRING), left : SUBSET Nat,
   failed : BOOLEAN, keys : PartSets, todo : Seq(Requests), listed : BOOLEAN,
   links : SUBSET Links]

\* Where the requests of a caller are.
From(rs, c) == {i \in 1 .. Len(rs) : rs[i].from = c}

Awaited(rs, c, n) ==
  \/ n = 0 /\ From(rs, c) = {}
  \/ n = 1 /\ \E i \in 1 .. Len(rs) : From(rs, c) = {i}
  \/ n = 2 /\ \E i, j \in 1 .. Len(rs) : i # j /\ From(rs, c) = {i, j}

WaitOf(c) == IF call[c] = Idle THEN 0 ELSE call[c].wait

CallsTyped ==
  /\ call \in [Callers -> {Idle} \cup Calls]
  /\ requests \in Seq(Requests)
  /\ \A c \in Callers : Awaited(requests, c, WaitOf(c))

\* A handler makes its requests in its own name.
Owned == \A c \in Callers : call[c].op # "none" =>
  \A i \in 1 .. Len(call[c].todo) : call[c].todo[i].from = c

RestTyped ==
  /\ shares \in [Ids -> SUBSET Links]
  /\ permissionsKnown \in BOOLEAN /\ late \in BOOLEAN /\ gapped \in BOOLEAN
  /\ torn \subseteq Ids /\ issued \subseteq Tokens
  /\ IsFiniteSet(DOMAIN trie) /\ DOMAIN trie \subseteq Keys
  /\ \A path \in DOMAIN trie : trie[path] \in Roles \cup {NoValue}

Typed == workload \in Workloads /\ CallsTyped /\ RestTyped /\ Owned

Entry(p) ==
  /\ p = [name |-> p.name, owner |-> p.owner, declared |-> p.declared, chunks |-> p.chunks]
  /\ p.owner \in Users /\ p.declared \in Contents
  /\ IsFiniteSet(DOMAIN p.chunks)

Stored(p) == Complete(p) /\ Acceptable(p)

FilesKept ==
  /\ IsFiniteSet(DOMAIN files) /\ DOMAIN files \subseteq Ids
  /\ IsFiniteSet(DOMAIN pending) /\ DOMAIN pending \subseteq Ids
  /\ \A id \in DOMAIN files : Entry(files[id]) /\ Stored(files[id])
  /\ \A id \in DOMAIN pending : Entry(pending[id])
  /\ ~ gapped => Gapless(files) /\ DOMAIN files \cap DOMAIN pending = {}

Uploads(c) == call[c] # Idle /\ call[c].op \in {"create", "chunks"}

\* Nothing came between the calls of the upload and nothing of it was lost.
Intact(c) == Uploads(c) /\ ~ call[c].disturbed /\ ~ call[c].failed /\ call[c].content # <<>>

\* What is not left of the upload has arrived.
Arriving(c) ==
  LET id == call[c].id
      content == call[c].content
  IN
  \/ /\ id \in DOMAIN pending
     /\ pending[id].owner = call[c].user /\ pending[id].declared = content
     /\ DOMAIN pending[id].chunks = (0 .. Len(content) - 1) \ call[c].left
     /\ \A n \in DOMAIN pending[id].chunks : pending[id].chunks[n] = content[n + 1]
     /\ call[c].left # {}
  \/ /\ id \in DOMAIN files \ DOMAIN pending
     /\ DOMAIN files[id].chunks = 0 .. Len(content) - 1
     /\ \A n \in DOMAIN files[id].chunks : files[id].chunks[n] = content[n + 1]
     /\ call[c].left = {}

UploadKept(c) == Intact(c) =>
  \/ /\ call[c].op = "chunks"
     /\ call[c].left \subseteq 0 .. Len(call[c].content) - 1 /\ Arriving(c)
  \/ /\ call[c].op = "create"
     /\ call[c].id \in DOMAIN pending
     /\ pending[call[c].id] = NewPending(call[c].user, pending[call[c].id].name, call[c].content)

\* Only disturbed uploads of one id have the same user.
Apart(c, d) ==
  Uploads(c) /\ Uploads(d) /\ call[c].id = call[d].id /\ ~ call[c].disturbed =>
    call[d].user # call[c].user

UploadsKept == \A c \in Callers : UploadKept(c) /\ \A d \in Callers \ {c} : Apart(c, d)

LinksKept == \A id \in Ids : \A link \in shares[id] :
  /\ link.token \in issued
  /\ link.limit # 0 => link.uses <= link.limit
  /\ \A other \in shares[id] : other.token = link.token => other = link

-----------------------------------------------------------------------------
\* Steps.

\* A step of the canister, in which any user may create a file with any content: the steps of
\* Next are such steps, and so are those of the modules that use Storage.
AnyStep ==
  \/ \E c \in Callers :
       \/ \E user \in Users, content \in Contents : \E name : CreateFile(c, user, name, content)
       \/ AddMember(c) \/ RemoveMember(c) \/ RemoveFile(c) \/ ShareFile(c)
       \/ ChunkCall(c) \/ UploadReturns(c) \/ FileCreated(c) \/ MemberDone(c) \/ RemovalContinues(c)
       \/ RemovalFails(c) \/ RemovalDone(c) \/ LinkMade(c)
  \/ Answered \/ Rejected
  \/ UseLink \/ RemoveLink \/ TimePasses \/ RenameFile \/ Upgrade

-----------------------------------------------------------------------------
\* The sets of values.

Ops == {"create", "chunks", "member", "remove", "share"}

\* The workload says what the sets of values are, and does not change.
LEMMA SameSets ==
  ASSUME workload' = workload
  PROVE  Ids' = Ids /\ Parts' = Parts /\ Keys' = Keys /\ Requests' = Requests
         /\ Calls' = Calls /\ PartSets' = PartSets
BY DEF Ids, Parts, Keys, Requests, Calls, PartSets

\* No step changes the workload.
LEMMA SameWorkload ==
  ASSUME [AnyStep]_vars
  PROVE  workload' = workload
<1>1. ASSUME NEW c \in Callers, AddMember(c) \/ RemoveMember(c) \/ RemoveFile(c) \/ ShareFile(c)
      PROVE  workload' = workload
  BY <1>1 DEF AddMember, RemoveMember, BothKeys, RemoveFile, ShareFile
<1>2. ASSUME NEW c \in Callers, ChunkCall(c) \/ UploadReturns(c) \/ FileCreated(c) \/ MemberDone(c)
                                \/ RemovalContinues(c) \/ RemovalFails(c) \/ RemovalDone(c)
                                \/ LinkMade(c)
      PROVE  workload' = workload
  BY <1>2 DEF ChunkCall, UploadReturns, FileCreated, MemberDone, SendNext, RemovalContinues,
              RemovalFails, RemovalDone, LinkMade
<1>3. ASSUME Answered \/ Rejected \/ UseLink \/ RemoveLink \/ TimePasses \/ RenameFile \/ Upgrade
      PROVE  workload' = workload
  BY <1>3 DEF Answered, Rejected, UseLink, RemoveLink, TimePasses, RenameFile, Upgrade
<1>4. ASSUME NEW c \in Callers, NEW user, NEW name, NEW content, CreateFile(c, user, name, content)
      PROVE  workload' = workload
  BY <1>4 DEF CreateFile
<1> QED BY <1>1, <1>2, <1>3, <1>4 DEF AnyStep, vars

\* The clients of a workload are users, and their contents are contents.
LEMMA WorkloadTyped ==
  ASSUME Typed
  PROVE  workload.users \subseteq Users /\ workload.contents \subseteq Contents
         /\ workload.maxFiles \in Nat /\ Ids \subseteq Nat
BY StorageAssumption DEF Typed, Ids

\* The clients of a workload are users.
LEMMA NextIsAny ==
  ASSUME Typed, [Next]_vars
  PROVE  [AnyStep]_vars
<1>1. CASE UNCHANGED vars
  BY <1>1
<1>2. ASSUME NEW c \in Callers, NEW user \in workload.users, NEW name, NEW content \in workload.contents,
             CreateFile(c, user, name, content)
      PROVE  AnyStep
  <2>1. user \in Users /\ content \in Contents
    BY WorkloadTyped
  <2> QED BY <1>2, <2>1 DEF AnyStep
<1> QED BY <1>1, <1>2 DEF Next, AnyStep

\* A call under way is a call, and is not idle.
LEMMA Called ==
  /\ \A r \in Calls : r # Idle /\ r.op # "none"
  /\ Idle.op = "none"
BY DEF Calls, Idle

\* A caller is idle or in a call.
LEMMA CallOf ==
  ASSUME Typed, NEW c \in Callers
  PROVE  /\ call[c] = Idle \/ call[c] \in Calls
         /\ call[c] # Idle => call[c] \in Calls
         /\ call[c].op # "none" <=> call[c] # Idle
         /\ call[c].op # "none" => call[c] \in Calls
BY Called DEF Typed, CallsTyped

\* A call that has just come is one.
LEMMA StartedTyped ==
  ASSUME NEW op \in Ops, NEW user \in Users, NEW id \in Ids, NEW wait \in 0 .. 2
  PROVE  Started(op, user, id, wait) \in Calls
<1>1. {} \in PartSets
  BY FS_EmptySet DEF PartSets
<1> QED BY <1>1 DEF Started, Calls, Ops

\* Calls stay calls when a field gets a value of its kind.
LEMMA UpdatedTyped ==
  ASSUME NEW r \in Calls
  PROVE  /\ \A content \in Seq(STRING) : [r EXCEPT !.content = content] \in Calls
         /\ \A b \in BOOLEAN : [r EXCEPT !.disturbed = b] \in Calls
         /\ \A n \in 0 .. 2, b \in BOOLEAN, keys \in PartSets :
              [r EXCEPT !.wait = n, !.ok = b, !.keys = keys] \in Calls
         /\ \A n \in 0 .. 2, b \in BOOLEAN : [r EXCEPT !.wait = n, !.ok = b] \in Calls
         /\ \A todo \in Seq(Requests) : [r EXCEPT !.todo = todo] \in Calls
         /\ \A n \in 0 .. 2, todo \in Seq(Requests) : [r EXCEPT !.wait = n, !.todo = todo] \in Calls
         /\ \A n \in 0 .. 2, todo \in Seq(Requests) :
              [r EXCEPT !.wait = n, !.todo = todo, !.listed = TRUE] \in Calls
         /\ \A links \in SUBSET Links : [r EXCEPT !.links = links] \in Calls
         /\ \A left \in SUBSET Nat : [r EXCEPT !.op = "chunks", !.left = left] \in Calls
         /\ \A left \in SUBSET Nat, b \in BOOLEAN : [r EXCEPT !.left = left, !.failed = b] \in Calls
<1>1. \A content \in Seq(STRING) : [r EXCEPT !.content = content] \in Calls
  BY DEF Calls
<1>2. \A b \in BOOLEAN : [r EXCEPT !.disturbed = b] \in Calls
  BY DEF Calls
<1>3. \A n \in 0 .. 2, b \in BOOLEAN, keys \in PartSets :
        [r EXCEPT !.wait = n, !.ok = b, !.keys = keys] \in Calls
  BY DEF Calls
<1>4. \A n \in 0 .. 2, b \in BOOLEAN : [r EXCEPT !.wait = n, !.ok = b] \in Calls
  BY DEF Calls
<1>5. \A todo \in Seq(Requests) : [r EXCEPT !.todo = todo] \in Calls
  BY DEF Calls
<1>6. \A n \in 0 .. 2, todo \in Seq(Requests) : [r EXCEPT !.wait = n, !.todo = todo] \in Calls
  BY DEF Calls
<1>7. \A n \in 0 .. 2, todo \in Seq(Requests) :
        [r EXCEPT !.wait = n, !.todo = todo, !.listed = TRUE] \in Calls
  BY DEF Calls
<1>8. \A links \in SUBSET Links : [r EXCEPT !.links = links] \in Calls
  BY DEF Calls
<1>9. \A left \in SUBSET Nat : [r EXCEPT !.op = "chunks", !.left = left] \in Calls
  BY DEF Calls
<1>10. \A left \in SUBSET Nat, b \in BOOLEAN : [r EXCEPT !.left = left, !.failed = b] \in Calls
  BY DEF Calls
<1> QED BY <1>1, <1>2, <1>3, <1>4, <1>5, <1>6, <1>7, <1>8, <1>9, <1>10

-----------------------------------------------------------------------------
\* Requests under way.

\* A request that is sent comes last.
LEMMA OneSent ==
  ASSUME NEW rs \in Seq(Requests), NEW a \in Requests
  PROVE  /\ rs \o <<a>> \in Seq(Requests)
         /\ Len(rs \o <<a>>) = Len(rs) + 1
         /\ \A c : From(rs \o <<a>>, c) = From(rs, c) \cup (IF a.from = c THEN {Len(rs) + 1} ELSE {})
<1>1. /\ rs \o <<a>> \in Seq(Requests) /\ Len(rs \o <<a>>) = Len(rs) + 1
      /\ \A i \in 1 .. Len(rs) : (rs \o <<a>>)[i] = rs[i]
      /\ (rs \o <<a>>)[Len(rs) + 1] = a
  OBVIOUS
<1>2. Len(rs) \in Nat
  OBVIOUS
<1>3. 1 .. Len(rs) + 1 = 1 .. Len(rs) \cup {Len(rs) + 1}
  BY <1>2
<1>4. Len(rs) + 1 \notin 1 .. Len(rs)
  BY <1>2
<1> QED BY <1>1, <1>3, <1>4 DEF From

\* A caller that waited for nothing waits for the request it sent.
LEMMA SentOne ==
  ASSUME NEW c \in Callers, NEW a \in Requests, a.from = c,
         requests \in Seq(Requests), From(requests, c) = {}, requests' = requests \o <<a>>
  PROVE  /\ requests' \in Seq(Requests) /\ Awaited(requests', c, 1)
         /\ \A d : d # c => From(requests', d) = From(requests, d)
                            /\ \A n : Awaited(requests, d, n) => Awaited(requests', d, n)
<1>1. /\ requests' \in Seq(Requests) /\ Len(requests') = Len(requests) + 1
      /\ From(requests', c) = {Len(requests) + 1}
      /\ \A d : d # c => From(requests', d) = From(requests, d)
  <2>1. requests \o <<a>> \in Seq(Requests) /\ Len(requests \o <<a>>) = Len(requests) + 1
    BY OneSent
  <2>2. \A d : From(requests \o <<a>>, d) =
                 From(requests, d) \cup (IF a.from = d THEN {Len(requests) + 1} ELSE {})
    BY OneSent
  <2> QED BY <2>1, <2>2
<1>2. Len(requests) \in Nat
  OBVIOUS
<1>3. Len(requests') \in 1 .. Len(requests') /\ Len(requests) + 1 = Len(requests')
  BY <1>1, <1>2
<1>4. Awaited(requests', c, 1)
  BY <1>1, <1>3 DEF Awaited
<1>5. 1 .. Len(requests) \subseteq 1 .. Len(requests')
  BY <1>1, <1>2
<1>6. ASSUME NEW d, d # c, NEW n, Awaited(requests, d, n)
      PROVE  Awaited(requests', d, n)
  BY <1>1, <1>5, <1>6 DEF Awaited
<1> QED BY <1>1, <1>4, <1>6

\* And for both of two requests.
LEMMA SentTwo ==
  ASSUME NEW c \in Callers, NEW a \in Requests, NEW b \in Requests, a.from = c, b.from = c,
         requests \in Seq(Requests), From(requests, c) = {}, requests' = requests \o <<a, b>>
  PROVE  /\ requests' \in Seq(Requests) /\ Awaited(requests', c, 2)
         /\ \A d : d # c => From(requests', d) = From(requests, d)
                            /\ \A n : Awaited(requests, d, n) => Awaited(requests', d, n)
<1> DEFINE rs == requests \o <<a>>
<1>1. /\ rs \in Seq(Requests) /\ Len(rs) = Len(requests) + 1
      /\ From(rs, c) = {Len(requests) + 1}
      /\ \A d : d # c => From(rs, d) = From(requests, d)
  <2>1. rs \in Seq(Requests) /\ Len(rs) = Len(requests) + 1
    BY OneSent
  <2>2. \A d : From(rs, d) = From(requests, d) \cup (IF a.from = d THEN {Len(requests) + 1} ELSE {})
    BY OneSent
  <2> QED BY <2>1, <2>2
<1>2. requests' = rs \o <<b>>
  <2>1. /\ requests \o <<a, b>> \in Seq(Requests) /\ rs \o <<b>> \in Seq(Requests)
        /\ Len(requests \o <<a, b>>) = Len(requests) + 2 /\ Len(rs \o <<b>>) = Len(requests) + 2
    OBVIOUS
  <2>2. \A i \in 1 .. Len(requests) + 2 : (requests \o <<a, b>>)[i] = (rs \o <<b>>)[i]
    OBVIOUS
  <2> QED BY <2>1, <2>2, SeqEqual
<1> HIDE DEF rs
<1>3. /\ requests' \in Seq(Requests) /\ Len(requests') = Len(rs) + 1
      /\ From(requests', c) = From(rs, c) \cup {Len(rs) + 1}
      /\ \A d : d # c => From(requests', d) = From(rs, d)
  <2>1. rs \o <<b>> \in Seq(Requests) /\ Len(rs \o <<b>>) = Len(rs) + 1
    BY <1>1, OneSent
  <2>2. \A d : From(rs \o <<b>>, d) = From(rs, d) \cup (IF b.from = d THEN {Len(rs) + 1} ELSE {})
    BY <1>1, OneSent
  <2> QED BY <1>2, <2>1, <2>2
<1>4. Len(requests) \in Nat
  OBVIOUS
<1>5. /\ Len(requests) + 1 \in 1 .. Len(requests') /\ Len(requests) + 2 \in 1 .. Len(requests')
      /\ Len(requests) + 1 # Len(requests) + 2 /\ Len(rs) + 1 = Len(requests) + 2
      /\ 1 .. Len(requests) \subseteq 1 .. Len(requests')
  BY <1>1, <1>3, <1>4
<1>6. From(requests', c) = {Len(requests) + 1, Len(requests) + 2}
  BY <1>1, <1>3, <1>5
<1>7. Awaited(requests', c, 2)
  BY <1>5, <1>6 DEF Awaited
<1>8. ASSUME NEW d, d # c, NEW n, Awaited(requests, d, n)
      PROVE  Awaited(requests', d, n)
  <2>1. From(requests', d) = From(requests, d)
    BY <1>1, <1>3, <1>8
  <2> QED BY <1>5, <1>8, <2>1 DEF Awaited
<1> QED BY <1>1, <1>3, <1>7, <1>8

\* When the oldest request is taken the others move up.
LEMMA MovedUp ==
  ASSUME requests \in Seq(Requests), requests # <<>>, requests' = Tail(requests)
  PROVE  /\ Head(requests) \in Requests /\ requests' \in Seq(Requests)
         /\ Len(requests') = Len(requests) - 1 /\ Len(requests) \in Nat \ {0}
         /\ \A i \in 1 .. Len(requests') : requests'[i] = requests[i + 1]
         /\ requests[1] = Head(requests)
         /\ \A c, i : i \in From(requests', c) <=> i \in 1 .. Len(requests') /\ i + 1 \in From(requests, c)
<1>1. /\ Head(requests) \in Requests /\ requests' \in Seq(Requests)
      /\ Len(requests') = Len(requests) - 1 /\ Len(requests) \in Nat \ {0}
      /\ \A i \in 1 .. Len(requests') : requests'[i] = requests[i + 1]
      /\ requests[1] = Head(requests)
  OBVIOUS
<1>2. \A i \in 1 .. Len(requests') : i + 1 \in 1 .. Len(requests)
  BY <1>1
<1> QED BY <1>1, <1>2 DEF From

\* The caller of the oldest request waits for one answer less, the others as before.
LEMMA AnsweredOne ==
  ASSUME requests \in Seq(Requests), requests # <<>>, requests' = Tail(requests),
         NEW c, NEW n \in 0 .. 2, Awaited(requests, c, n)
  PROVE  IF Head(requests).from = c THEN n - 1 \in 0 .. 1 /\ Awaited(requests', c, n - 1)
         ELSE Awaited(requests', c, n)
<1> DEFINE L == Len(requests)
           F == From(requests, c)
           G == From(requests', c)
<1>1. /\ L \in Nat \ {0} /\ Len(requests') = L - 1 /\ requests[1] = Head(requests)
      /\ \A i : i \in G <=> i \in 1 .. L - 1 /\ i + 1 \in F
  BY MovedUp
<1>2. F \subseteq 1 .. L /\ (1 \in F <=> Head(requests).from = c)
  BY <1>1 DEF From
<1>3. \/ n = 0 /\ F = {}
      \/ n = 1 /\ \E i \in 1 .. L : F = {i}
      \/ n = 2 /\ \E i, j \in 1 .. L : i # j /\ F = {i, j}
  BY DEF Awaited
<1>4. SUFFICES IF 1 \in F THEN n - 1 \in 0 .. 1 /\ Awaited(requests', c, n - 1) ELSE Awaited(requests', c, n)
  BY <1>2
<1>5. \A m : Awaited(requests', c, m) <=>
        \/ m = 0 /\ G = {}
        \/ m = 1 /\ \E i \in 1 .. L - 1 : G = {i}
        \/ m = 2 /\ \E i, j \in 1 .. L - 1 : i # j /\ G = {i, j}
  BY <1>1 DEF Awaited
<1> HIDE DEF F, G, L
<1>6. ASSUME F = {} PROVE G = {}
  BY <1>1, <1>6
<1>7. ASSUME NEW i \in 1 .. L, F = {i}
      PROVE  IF i = 1 THEN G = {} ELSE i - 1 \in 1 .. L - 1 /\ G = {i - 1}
  <2>1. ASSUME i = 1 PROVE G = {}
    BY <1>1, <1>7, <2>1
  <2>2. ASSUME i # 1 PROVE i - 1 \in 1 .. L - 1 /\ G = {i - 1}
    <3>1. i - 1 \in 1 .. L - 1
      BY <1>1, <2>2
    <3>2. \A k : k \in G <=> k = i - 1
      BY <1>1, <1>7, <3>1
    <3> QED BY <3>1, <3>2
  <2> QED BY <2>1, <2>2
<1>8. ASSUME NEW i \in 1 .. L, NEW j \in 1 .. L, i # j, F = {i, j}, 1 \notin F
      PROVE  i - 1 \in 1 .. L - 1 /\ j - 1 \in 1 .. L - 1 /\ i - 1 # j - 1 /\ G = {i - 1, j - 1}
  <2>1. i - 1 \in 1 .. L - 1 /\ j - 1 \in 1 .. L - 1 /\ i - 1 # j - 1
    BY <1>1, <1>8
  <2>2. \A k : k \in G <=> k = i - 1 \/ k = j - 1
    BY <1>1, <1>8, <2>1
  <2> QED BY <2>1, <2>2
<1>9. ASSUME NEW j \in 1 .. L, j # 1, F = {1, j}
      PROVE  j - 1 \in 1 .. L - 1 /\ G = {j - 1}
  <2>1. j - 1 \in 1 .. L - 1
    BY <1>1, <1>9
  <2>2. \A k : k \in G <=> k = j - 1
    BY <1>1, <1>9, <2>1
  <2> QED BY <2>1, <2>2
<1>10. CASE n = 0
  BY <1>3, <1>5, <1>6, <1>10
<1>11. CASE n = 1
  <2>1. PICK i \in 1 .. L : F = {i}
    BY <1>3, <1>11
  <2>2. CASE i = 1
    BY <1>5, <1>7, <1>11, <2>1, <2>2
  <2>3. CASE i # 1
    BY <1>5, <1>7, <1>11, <2>1, <2>3
  <2> QED BY <2>2, <2>3
<1>12. CASE n = 2
  <2>1. PICK i \in 1 .. L, j \in 1 .. L : i # j /\ F = {i, j}
    BY <1>3, <1>12
  <2>2. CASE i = 1
    BY <1>5, <1>9, <1>12, <2>1, <2>2
  <2>3. CASE j = 1
    <3>1. F = {1, i} /\ i # 1
      BY <2>1, <2>3
    <3> QED BY <1>5, <1>9, <1>12, <3>1
  <2>4. CASE i # 1 /\ j # 1
    <3>1. 1 \notin F
      BY <2>1, <2>4
    <3> QED BY <1>5, <1>8, <1>12, <2>1, <3>1
  <2> QED BY <2>2, <2>3, <2>4
<1> QED BY <1>10, <1>11, <1>12

-----------------------------------------------------------------------------
\* The types of the calls and of their requests.

\* The keys and requests the handlers make are of their kind.
LEMMA RequestsTyped ==
  ASSUME NEW c \in Callers, NEW id \in Ids, NEW user \in Users, NEW role \in Roles
  PROVE  /\ FileKey(id) \in Keys /\ FileUserKey(id, user) \in Keys /\ UserFileKey(user, id) \in Keys
         /\ \A key \in Keys : /\ SetPermission(c, key, role) \in Requests
                              /\ DeletePermission(c, key) \in Requests
                              /\ GetSubkeys(c, key) \in Requests
                              /\ SetPermission(c, key, role).from = c
                              /\ DeletePermission(c, key).from = c /\ GetSubkeys(c, key).from = c
<1>1. <<"file", id>> \in Parts /\ <<"user", user>> \in Parts
  BY DEF Parts
<1>2. FileKey(id) \in Keys /\ FileUserKey(id, user) \in Keys /\ UserFileKey(user, id) \in Keys
  BY <1>1 DEF FileKey, FileUserKey, UserFileKey, Keys
<1>3. ASSUME NEW key \in Keys
      PROVE  /\ SetPermission(c, key, role) \in Requests
             /\ DeletePermission(c, key) \in Requests
             /\ GetSubkeys(c, key) \in Requests
             /\ SetPermission(c, key, role).from = c
             /\ DeletePermission(c, key).from = c /\ GetSubkeys(c, key).from = c
  BY DEF SetPermission, DeletePermission, GetSubkeys, Requests
<1> QED BY <1>2, <1>3

\* An idle caller, and one that has its answers, has no requests under way.
LEMMA NothingAwaited ==
  ASSUME Typed, NEW c \in Callers, call[c] = Idle \/ call[c].wait = 0
  PROVE  From(requests, c) = {}
BY DEF Typed, CallsTyped, Awaited, WaitOf

\* What a step that sends does for the types.
LEMMA SendingTyped ==
  ASSUME Typed, workload' = workload, NEW c \in Callers,
         call' \in [Callers -> {Idle} \cup Calls], call'[c] # Idle,
         \A d \in Callers \ {c} : WaitOf(d)' = WaitOf(d),
         requests' \in Seq(Requests), Awaited(requests', c, call'[c].wait),
         \A d : d # c => \A n : Awaited(requests, d, n) => Awaited(requests', d, n)
  PROVE  CallsTyped'
<1>1. Requests' = Requests /\ Calls' = Calls
  BY SameSets
<1>2. ASSUME NEW d \in Callers
      PROVE  Awaited(requests', d, WaitOf(d)')
  BY <1>2 DEF Typed, CallsTyped, WaitOf
<1>3. Idle' = Idle
  BY DEF Idle
<1> QED BY <1>1, <1>2, <1>3 DEF CallsTyped

\* What a step that sends nothing does for them.
LEMMA QuietTyped ==
  ASSUME Typed, workload' = workload, requests' = requests,
         call' \in [Callers -> {Idle} \cup Calls],
         \A d \in Callers : WaitOf(d)' = WaitOf(d)
  PROVE  CallsTyped'
<1>1. Requests' = Requests /\ Calls' = Calls
  BY SameSets
<1>2. \A d \in Callers : Awaited(requests', d, WaitOf(d)')
  BY DEF Typed, CallsTyped
<1> QED BY <1>1, <1>2 DEF CallsTyped, Typed, Idle

\* The calls a removal or a new file marks as disturbed are of their kind.
LEMMA DisturbedTyped ==
  ASSUME Typed, NEW d \in Callers, call[d] # Idle
  PROVE  /\ [call[d] EXCEPT !.disturbed = TRUE] \in Calls
         /\ [call[d] EXCEPT !.disturbed = TRUE] # Idle
         /\ [call[d] EXCEPT !.disturbed = TRUE].wait = call[d].wait
<1>1. call[d] \in Calls
  BY CallOf
<1>2. [call[d] EXCEPT !.disturbed = TRUE] \in Calls
  BY <1>1, UpdatedTyped
<1>3. [call[d] EXCEPT !.disturbed = TRUE].wait = call[d].wait
  BY <1>1 DEF Calls
<1> QED BY <1>2, <1>3, Called

\* create_file starts a call that waits for two answers.
LEMMA CreateFileTyped ==
  ASSUME Typed, FilesKept, workload' = workload, NEW c \in Callers, NEW user \in Users, NEW name,
         NEW content \in Contents, CreateFile(c, user, name, content)
  PROVE  CallsTyped'
<1> DEFINE id == NextFileId
           disturbed == \E e \in Uploading(id) : call[e].user = user
           first == Started("create", user, id, 2)
           mine == [first EXCEPT !.content = content, !.disturbed = disturbed]
           a == SetPermission(c, FileUserKey(id, user), "Owner")
           b == SetPermission(c, UserFileKey(user, id), "Owner")
<1>1. id \in Ids
  <2>1. id \in Nat /\ id < workload.maxFiles
    BY FS_CardinalityType DEF CreateFile, FilesKept, NextFileId, NextId
  <2> QED BY <2>1, WorkloadTyped DEF Ids
<1>2. mine \in Calls /\ mine.wait = 2
  <2>1. first \in Calls
    BY <1>1, StartedTyped DEF Ops
  <2>2. content \in Seq(STRING) /\ disturbed \in BOOLEAN
    BY StorageAssumption
  <2>3. [first EXCEPT !.content = content] \in Calls
    BY <2>1, <2>2, UpdatedTyped
  <2>4. mine = [[first EXCEPT !.content = content] EXCEPT !.disturbed = disturbed]
    OBVIOUS
  <2>5. mine \in Calls
    BY <2>2, <2>3, <2>4, UpdatedTyped
  <2>6. mine.wait = 2
    BY DEF Started
  <2> QED BY <2>5, <2>6
<1>3. /\ call[c] = Idle
      /\ requests' = requests \o <<a, b>>
      /\ call' = [d \in Callers |-> IF d = c THEN mine
                   ELSE IF d \in Uploading(id) THEN [call[d] EXCEPT !.disturbed = TRUE] ELSE call[d]]
  BY DEF CreateFile, Send
<1>4. a \in Requests /\ b \in Requests /\ a.from = c /\ b.from = c
  BY <1>1, RequestsTyped DEF Roles
<1>5. From(requests, c) = {} /\ requests \in Seq(Requests)
  BY <1>3, NothingAwaited DEF Typed, CallsTyped
<1> HIDE DEF id, disturbed, mine, a, b
<1>6. /\ requests' \in Seq(Requests) /\ Awaited(requests', c, 2)
      /\ \A d : d # c => \A n : Awaited(requests, d, n) => Awaited(requests', d, n)
  BY <1>3, <1>4, <1>5, SentTwo
<1>7. ASSUME NEW d \in Callers, d # c
      PROVE  call'[d] \in {Idle} \cup Calls /\ WaitOf(d)' = WaitOf(d)
  <2>1. CASE d \in Uploading(id)
    <3>1. call[d] # Idle
      BY <2>1 DEF Uploading, Working
    <3>2. call'[d] = [call[d] EXCEPT !.disturbed = TRUE]
      BY <1>3, <1>7, <2>1
    <3> QED BY <3>1, <3>2, DisturbedTyped DEF WaitOf
  <2>2. CASE d \notin Uploading(id)
    BY <1>3, <1>7, <2>2 DEF WaitOf, Typed, CallsTyped
  <2> QED BY <2>1, <2>2
<1>8. call'[c] = mine /\ call'[c] # Idle
  BY <1>2, <1>3, Called
<1>9. call' \in [Callers -> {Idle} \cup Calls]
  BY <1>2, <1>3, <1>7, <1>8
<1> QED BY <1>2, <1>6, <1>7, <1>8, <1>9, SendingTyped

\* Both calls of a member operation are made at once.
LEMMA BothKeysTyped ==
  ASSUME Typed, workload' = workload, NEW c \in Callers, NEW user \in Users, NEW id \in Ids,
         NEW a \in Requests, NEW b \in Requests, a.from = c, b.from = c,
         BothKeys(c, user, id, a, b)
  PROVE  CallsTyped'
<1> DEFINE mine == [Started("member", user, id, 2) EXCEPT !.todo = <<>>]
<1>1. /\ call[c] = Idle /\ call' = [call EXCEPT ![c] = mine]
      /\ requests' = requests \o <<a, b>>
  BY DEF BothKeys, Begin, Together, Send
<1>2. mine \in Calls /\ mine.wait = 2
  <2>1. Started("member", user, id, 2) \in Calls
    BY StartedTyped DEF Ops
  <2>2. <<>> \in Seq(Requests)
    OBVIOUS
  <2> QED BY <2>1, <2>2, UpdatedTyped DEF Started
<1>3. From(requests, c) = {} /\ requests \in Seq(Requests) /\ call \in [Callers -> {Idle} \cup Calls]
  BY <1>1, NothingAwaited DEF Typed, CallsTyped
<1> HIDE DEF mine
<1>4. /\ requests' \in Seq(Requests) /\ Awaited(requests', c, 2)
      /\ \A d : d # c => \A n : Awaited(requests, d, n) => Awaited(requests', d, n)
  BY <1>1, <1>3, SentTwo
<1>5. /\ call' \in [Callers -> {Idle} \cup Calls] /\ call'[c] = mine /\ call'[c] # Idle
      /\ \A d \in Callers \ {c} : WaitOf(d)' = WaitOf(d)
  BY <1>1, <1>2, <1>3, Called DEF WaitOf
<1> QED BY <1>2, <1>4, <1>5, SendingTyped

\* A call that waits for no answer makes one request, and waits for its answer.
LEMMA OneRequestTyped ==
  ASSUME Typed, workload' = workload, NEW c \in Callers, call[c] = Idle \/ call[c].wait = 0,
         NEW mine \in Calls, mine.wait = 1, call' = [call EXCEPT ![c] = mine],
         NEW a \in Requests, a.from = c, requests' = requests \o <<a>>
  PROVE  CallsTyped'
<1>1. From(requests, c) = {} /\ requests \in Seq(Requests) /\ call \in [Callers -> {Idle} \cup Calls]
  BY NothingAwaited DEF Typed, CallsTyped
<1>2. /\ requests' \in Seq(Requests) /\ Awaited(requests', c, 1)
      /\ \A d : d # c => \A n : Awaited(requests, d, n) => Awaited(requests', d, n)
  BY <1>1, SentOne
<1>3. /\ call' \in [Callers -> {Idle} \cup Calls] /\ call'[c] = mine /\ call'[c] # Idle
      /\ \A d \in Callers \ {c} : WaitOf(d)' = WaitOf(d)
  BY <1>1, Called DEF WaitOf
<1> QED BY <1>2, <1>3, SendingTyped

\* remove_file starts by asking for the subkeys.
LEMMA RemoveFileTyped ==
  ASSUME Typed, workload' = workload, NEW c \in Callers, RemoveFile(c)
  PROVE  CallsTyped'
<1>1. PICK user \in workload.users, id \in Ids :
        /\ call[c] = Idle /\ call' = [call EXCEPT ![c] = Started("remove", user, id, 1)]
        /\ requests' = requests \o <<GetSubkeys(c, FileKey(id))>>
  BY DEF RemoveFile, Begin, Send
<1>2. user \in Users
  BY WorkloadTyped
<1>3. Started("remove", user, id, 1) \in Calls
  BY <1>2, StartedTyped DEF Ops
<1>4. Started("remove", user, id, 1).wait = 1
  BY DEF Started
<1>5. GetSubkeys(c, FileKey(id)) \in Requests /\ GetSubkeys(c, FileKey(id)).from = c
  BY <1>2, RequestsTyped DEF Roles
<1> QED BY <1>1, <1>3, <1>4, <1>5, OneRequestTyped

\* A call that goes on without a request waits as before.
LEMMA OneCallTyped ==
  ASSUME Typed, workload' = workload, NEW c \in Callers, requests' = requests,
         NEW mine \in {Idle} \cup Calls, call' = [call EXCEPT ![c] = mine],
         WaitOf(c) = IF mine = Idle THEN 0 ELSE mine.wait
  PROVE  CallsTyped'
<1>1. call \in [Callers -> {Idle} \cup Calls]
  BY DEF Typed, CallsTyped
<1>2. call' \in [Callers -> {Idle} \cup Calls] /\ call'[c] = mine
  BY <1>1
<1>3. \A d \in Callers : WaitOf(d)' = WaitOf(d)
  BY <1>1, <1>2 DEF WaitOf, Idle
<1> QED BY <1>2, <1>3, QuietTyped

\* share_file waits for no answer of the permission canister.
LEMMA ShareFileTyped ==
  ASSUME Typed, workload' = workload, NEW c \in Callers, ShareFile(c)
  PROVE  CallsTyped'
<1>1. PICK user \in workload.users, id \in Ids :
        /\ call[c] = Idle /\ requests' = requests
        /\ call' = [call EXCEPT ![c] = [Started("share", user, id, 0) EXCEPT !.links = shares[id]]]
  BY DEF ShareFile, Begin, permissionVars
<1> DEFINE mine == [Started("share", user, id, 0) EXCEPT !.links = shares[id]]
<1>2. Started("share", user, id, 0) \in Calls
  BY WorkloadTyped, StartedTyped DEF Ops
<1>3. shares[id] \in SUBSET Links
  BY DEF Typed, RestTyped
<1>4. mine \in Calls
  BY <1>2, <1>3, UpdatedTyped
<1>5. mine.wait = 0
  BY DEF Started
<1> HIDE DEF mine
<1>6. call' = [call EXCEPT ![c] = mine]
  BY <1>1 DEF mine
<1> QED BY <1>1, <1>4, <1>5, <1>6, OneCallTyped, Called DEF WaitOf

\* The requests under way are of calls under way.
LEMMA RequestOfCall ==
  ASSUME Typed, requests # <<>>
  PROVE  /\ Head(requests) \in Requests /\ Head(requests).from \in Callers
         /\ call[Head(requests).from] \in Calls /\ call[Head(requests).from].wait \in 1 .. 2
<1> DEFINE c == Head(requests).from
<1>1. requests \in Seq(Requests)
  BY DEF Typed, CallsTyped
<1>2. Head(requests) \in Requests /\ 1 \in 1 .. Len(requests) /\ requests[1] = Head(requests)
  BY <1>1
<1>3. c \in Callers
  BY <1>2 DEF Requests
<1>4. 1 \in From(requests, c)
  BY <1>2 DEF From
<1>5. Awaited(requests, c, WaitOf(c))
  BY <1>3 DEF Typed, CallsTyped
<1>6. WaitOf(c) \in 1 .. 2
  BY <1>4, <1>5 DEF Awaited
<1>7. call[c] # Idle /\ call[c].wait \in 1 .. 2
  BY <1>6 DEF WaitOf
<1> QED BY <1>2, <1>3, <1>7, CallOf

\* An answer is read by the caller of the oldest request.
LEMMA AnswerTyped ==
  ASSUME Typed, workload' = workload, requests # <<>>, requests' = Tail(requests),
         NEW mine \in Calls, mine.wait = call[Head(requests).from].wait - 1,
         call' = [call EXCEPT ![Head(requests).from] = mine]
  PROVE  CallsTyped'
<1> DEFINE c == Head(requests).from
<1>1. c \in Callers /\ call[c] \in Calls /\ call[c].wait \in 1 .. 2 /\ call[c] # Idle
  BY RequestOfCall, Called
<1>2. requests \in Seq(Requests) /\ call \in [Callers -> {Idle} \cup Calls]
  BY DEF Typed, CallsTyped
<1> HIDE DEF c
<1>3. call' \in [Callers -> {Idle} \cup Calls] /\ call'[c] = mine /\ mine # Idle
      /\ \A d \in Callers \ {c} : call'[d] = call[d]
  BY <1>1, <1>2, Called DEF c
<1>4. requests' \in Seq(Requests)
  BY <1>2
<1>5. ASSUME NEW d \in Callers
      PROVE  Awaited(requests', d, WaitOf(d)')
  <2>1. Awaited(requests, d, WaitOf(d)) /\ WaitOf(d) \in 0 .. 2
    BY DEF Typed, CallsTyped, WaitOf, Calls
  <2>2. CASE d = c
    <3>1. WaitOf(d) = call[c].wait /\ WaitOf(d)' = WaitOf(d) - 1
      BY <1>1, <1>3, <2>2 DEF WaitOf, Idle, c
    <3> QED BY <1>2, <2>1, <2>2, <3>1, AnsweredOne DEF c
  <2>3. CASE d # c
    <3>1. WaitOf(d)' = WaitOf(d)
      BY <1>3, <2>3 DEF WaitOf, Idle
    <3> QED BY <1>2, <2>1, <2>3, <3>1, AnsweredOne DEF c
  <2> QED BY <2>2, <2>3
<1>6. Requests' = Requests /\ Calls' = Calls
  BY SameSets
<1> QED BY <1>3, <1>4, <1>5, <1>6 DEF CallsTyped, Idle

\* The subkeys of a node are parts of keys, and there are finitely many.
LEMMA SubkeysTyped ==
  ASSUME RestTyped, NEW key
  PROVE  Subkeys(trie, key) \subseteq Parts /\ IsFiniteSet(Subkeys(trie, key))
<1> DEFINE P == {p \in DOMAIN trie \ {<<>>} : Front(p) = key /\ trie[p] # NoValue}
<1>1. IsFiniteSet(P)
  <2>1. P \subseteq DOMAIN trie
    OBVIOUS
  <2> QED BY <2>1, FS_Subset DEF RestTyped
<1>2. IsFiniteSet(Subkeys(trie, key))
  <2> DEFINE f == [p \in P |-> Last(p)]
  <2>1. f \in Surjection(P, Subkeys(trie, key))
    BY DEF Subkeys, Surjection
  <2> QED BY <1>1, <2>1, FS_Surjection
<1>3. ASSUME NEW p \in P
      PROVE  Last(p) \in Parts
  <2>1. p \in Seq(Parts) /\ p # <<>>
    BY DEF RestTyped, Keys
  <2>2. Len(p) \in 1 .. Len(p)
    BY <2>1
  <2> QED BY <2>1, <2>2 DEF Last
<1> QED BY <1>2, <1>3 DEF Subkeys

\* An answer leaves its caller one less to wait for.
LEMMA AnsweredTyped ==
  ASSUME Typed, workload' = workload, Answered
  PROVE  CallsTyped'
<1> DEFINE r == Head(requests)
           mine == [call[r.from] EXCEPT !.wait = @ - 1, !.ok = @ /\ AnswerTo(r).ok,
                                        !.keys = AnswerTo(r).keys]
<1>1. /\ requests # <<>> /\ requests' = Tail(requests)
      /\ call' = [call EXCEPT ![r.from].wait = @ - 1, ![r.from].ok = @ /\ AnswerTo(r).ok,
                              ![r.from].keys = AnswerTo(r).keys]
  BY DEF Answered, Handle
<1>2. r.from \in Callers /\ call[r.from] \in Calls /\ call[r.from].wait \in 1 .. 2
  BY <1>1, RequestOfCall
<1>3. call' = [call EXCEPT ![r.from] = mine]
  <2>1. call \in [Callers -> {Idle} \cup Calls]
    BY DEF Typed, CallsTyped
  <2> QED BY <1>1, <1>2, <2>1
<1>4. AnswerTo(r).ok \in BOOLEAN /\ AnswerTo(r).keys \in PartSets
  BY SubkeysTyped, FS_EmptySet DEF AnswerTo, Typed, PartSets
<1>5. mine \in Calls /\ mine.wait = call[r.from].wait - 1
  <2>1. call[r.from].wait - 1 \in 0 .. 2
    BY <1>2
  <2>2. (call[r.from].ok /\ AnswerTo(r).ok) \in BOOLEAN
    OBVIOUS
  <2>3. mine \in Calls
    BY <1>2, <1>4, <2>1, <2>2, UpdatedTyped
  <2>4. mine.wait = call[r.from].wait - 1
    BY <1>2 DEF Calls
  <2> QED BY <2>3, <2>4
<1> HIDE DEF mine, r
<1> QED BY <1>1, <1>3, <1>5, AnswerTyped DEF r

\* So does a rejection.
LEMMA RejectedTyped ==
  ASSUME Typed, workload' = workload, Rejected
  PROVE  CallsTyped'
<1> DEFINE r == Head(requests)
           mine == [call[r.from] EXCEPT !.wait = @ - 1, !.ok = FALSE]
<1>1. /\ requests # <<>> /\ requests' = Tail(requests)
      /\ call' = [call EXCEPT ![r.from].wait = @ - 1, ![r.from].ok = FALSE]
  BY DEF Rejected, Reject
<1>2. r.from \in Callers /\ call[r.from] \in Calls /\ call[r.from].wait \in 1 .. 2
  BY <1>1, RequestOfCall
<1>3. call' = [call EXCEPT ![r.from] = mine]
  <2>1. call \in [Callers -> {Idle} \cup Calls]
    BY DEF Typed, CallsTyped
  <2> QED BY <1>1, <1>2, <2>1
<1>4. mine \in Calls /\ mine.wait = call[r.from].wait - 1
  <2>1. call[r.from].wait - 1 \in 0 .. 2
    BY <1>2
  <2>2. mine \in Calls
    BY <1>2, <2>1, UpdatedTyped
  <2>3. mine.wait = call[r.from].wait - 1
    BY <1>2 DEF Calls
  <2> QED BY <2>2, <2>3
<1> HIDE DEF mine, r
<1> QED BY <1>1, <1>3, <1>4, AnswerTyped DEF r

\* A call that returns leaves its slot.
LEMMA ReturnTyped ==
  ASSUME Typed, workload' = workload, NEW c \in Callers, requests' = requests,
         call[c].op # "none", call[c].wait = 0, call' = [call EXCEPT ![c] = Idle]
  PROVE  CallsTyped'
BY OneCallTyped, CallOf DEF WaitOf

\* The chunks of an upload are calls of the client, which awaits nothing here.
LEMMA FileCreatedTyped ==
  ASSUME Typed, workload' = workload, NEW c \in Callers, FileCreated(c)
  PROVE  CallsTyped'
<1>1. /\ call[c].op = "create" /\ call[c].wait = 0 /\ requests' = requests
      /\ call' = [call EXCEPT ![c] = PutChunks(c)] \/ call' = [call EXCEPT ![c] = Idle]
  BY DEF FileCreated, HasAnswers, permissionVars
<1>2. call[c] \in Calls /\ call[c] # Idle
  BY <1>1, CallOf, Called
<1>3. PutChunks(c) \in Calls /\ PutChunks(c).wait = call[c].wait
  <2>1. Len(call[c].content) \in Nat
    BY <1>2 DEF Calls
  <2>2. 0 .. Len(call[c].content) - 1 \in SUBSET Nat
    BY <2>1
  <2>3. PutChunks(c) \in Calls
    BY <1>2, <2>2, UpdatedTyped DEF PutChunks
  <2>4. PutChunks(c).wait = call[c].wait
    BY <1>2 DEF PutChunks, Calls
  <2> QED BY <2>3, <2>4
<1>4. CASE call' = [call EXCEPT ![c] = PutChunks(c)]
  BY <1>1, <1>2, <1>3, <1>4, OneCallTyped, Called DEF WaitOf
<1>5. CASE call' = [call EXCEPT ![c] = Idle]
  BY <1>1, <1>5, ReturnTyped
<1> QED BY <1>1, <1>4, <1>5

\* The answer to a chunk leaves its upload one chunk less.
LEMMA ChunkCallTyped ==
  ASSUME Typed, workload' = workload, NEW c \in Callers, ChunkCall(c)
  PROVE  CallsTyped'
<1>1. PICK n \in call[c].left, threw \in BOOLEAN :
        call[c] # Idle /\ ChunkDone(c, n, threw) /\ requests' = requests
  <2>1. /\ call[c] # Idle /\ requests' = requests
        /\ \E n \in call[c].left : \/ \E threw \in BOOLEAN : ChunkDone(c, n, threw)
                                   \/ ChunkDone(c, n, TRUE)
    BY DEF ChunkCall, permissionVars
  <2> QED BY <2>1
<1> DEFINE mine == [call[c] EXCEPT !.left = @ \ {n}, !.failed = @ \/ threw]
<1>2. call[c] \in Calls /\ call \in [Callers -> {Idle} \cup Calls]
  BY <1>1, CallOf DEF Typed, CallsTyped
<1>3. call' = [call EXCEPT ![c] = mine]
  BY <1>1, <1>2 DEF ChunkDone
<1>4. mine \in Calls /\ mine.wait = call[c].wait
  <2>1. call[c].left \ {n} \in SUBSET Nat /\ (call[c].failed \/ threw) \in BOOLEAN
    BY <1>2 DEF Calls
  <2>2. mine \in Calls
    BY <1>2, <2>1, UpdatedTyped
  <2>3. mine.wait = call[c].wait
    BY <1>2 DEF Calls
  <2> QED BY <2>2, <2>3
<1> HIDE DEF mine
<1> QED BY <1>1, <1>3, <1>4, OneCallTyped, Called DEF WaitOf

\* The next of the requests a handler makes one at a time.
LEMMA SendNextTyped ==
  ASSUME Typed, workload' = workload, NEW c \in Callers, call[c].op # "none", call[c].wait = 0,
         NEW todo \in Seq(Requests), todo # <<>>, Head(todo).from = c, SendNext(c, todo)
  PROVE  CallsTyped'
<1> DEFINE mine == [call[c] EXCEPT !.wait = 1, !.todo = Tail(todo)]
<1>1. call[c] \in Calls /\ call \in [Callers -> {Idle} \cup Calls]
  BY CallOf DEF Typed, CallsTyped
<1>2. call' = [call EXCEPT ![c] = mine] /\ requests' = requests \o <<Head(todo)>>
  BY <1>1 DEF SendNext, Send
<1>3. Tail(todo) \in Seq(Requests) /\ Head(todo) \in Requests
  OBVIOUS
<1>4. mine \in Calls /\ mine.wait = 1
  <2>1. mine \in Calls
    <3>1. 1 \in 0 .. 2
      OBVIOUS
    <3> QED BY <1>1, <1>3, <3>1, UpdatedTyped
  <2>2. mine.wait = 1
    BY <1>1 DEF Calls
  <2> QED BY <2>1, <2>2
<1> HIDE DEF mine
<1> QED BY <1>2, <1>3, <1>4, OneRequestTyped

\* The requests of a removal: an entry for each user the file has, and the file's own.
LEMMA DeletionsTyped ==
  ASSUME Typed, NEW c \in Callers, call[c].op # "none", NEW order \in SetToSeqs(call[c].keys)
  PROVE  LET todo == Deletions(c, call[c].id, order)
             n == Len(order)
         IN  /\ n \in Nat /\ order \in [1 .. n -> call[c].keys]
             /\ n = Cardinality(call[c].keys)
             /\ todo \in Seq(Requests) /\ Len(todo) = n + 1
             /\ \A i \in 1 .. n : todo[i] = DeletePermission(c, <<order[i], <<"file", call[c].id>>>>)
             /\ todo[n + 1] = DeletePermission(c, FileKey(call[c].id))
             /\ \A i \in 1 .. n + 1 : todo[i].from = c
<1> DEFINE id == call[c].id
           K == call[c].keys
           n == Cardinality(K)
           entry(i) == DeletePermission(c, <<order[i], <<"file", id>>>>)
           entries == [i \in DOMAIN order |-> entry(i)]
           own == DeletePermission(c, FileKey(id))
<1>1. K \in SUBSET Parts /\ IsFiniteSet(K) /\ id \in Ids
  BY CallOf DEF Calls, PartSets
<1>2. n \in Nat
  BY <1>1, FS_CardinalityType
<1> HIDE DEF n
<1>3. order \in [1 .. n -> K]
  BY DEF SetToSeqs, n
<1>4. Len(order) = n
  BY <1>2, <1>3
<1>5. own \in Requests /\ own.from = c
  BY <1>1 DEF FileKey, DeletePermission, Requests, Keys, Parts
<1>6. ASSUME NEW i \in 1 .. n
      PROVE  entry(i) \in Requests /\ entry(i).from = c
  <2>1. order[i] \in Parts /\ <<"file", id>> \in Parts
    BY <1>1, <1>3 DEF Parts
  <2>2. <<order[i], <<"file", id>>>> \in Keys
    BY <2>1 DEF Keys
  <2> QED BY <2>2 DEF DeletePermission, Requests
<1> HIDE DEF entry, own, K
<1>7. entries \in [1 .. n -> Requests]
  BY <1>3, <1>6
<1>8. entries \in Seq(Requests) /\ Len(entries) = n
  BY <1>2, <1>7
<1>9. Deletions(c, id, order) = entries \o <<own>>
  BY DEF Deletions, entry, own
<1>10. /\ entries \o <<own>> \in Seq(Requests) /\ Len(entries \o <<own>>) = n + 1
       /\ \A i \in 1 .. n : (entries \o <<own>>)[i] = entries[i]
       /\ (entries \o <<own>>)[n + 1] = own
  BY <1>5, <1>8
<1>11. \A i \in 1 .. n : entries[i] = entry(i)
  BY <1>3
<1>12. \A i \in 1 .. n + 1 : i \in 1 .. n \/ i = n + 1
  BY <1>2
<1> HIDE DEF entries
<1>13. \A i \in 1 .. n + 1 : (entries \o <<own>>)[i].from = c
  BY <1>5, <1>6, <1>10, <1>11, <1>12
<1> QED BY <1>2, <1>3, <1>4, <1>9, <1>10, <1>11, <1>13 DEF entry, own, K, n

\* A member operation that continues sends one request; otherwise it returns.
LEMMA MemberDoneTyped ==
  ASSUME Typed, workload' = workload, NEW c \in Callers, MemberDone(c)
  PROVE  CallsTyped'
<1>1. call[c].op = "member" /\ call[c].wait = 0
  BY DEF MemberDone, HasAnswers
<1>2. ASSUME call[c].todo # <<>>, SendNext(c, call[c].todo)
      PROVE  CallsTyped'
  <2>1. call[c].todo \in Seq(Requests)
    BY <1>1, CallOf DEF Calls
  <2>2. Head(call[c].todo) = call[c].todo[1] /\ 1 \in 1 .. Len(call[c].todo)
    BY <1>2, <2>1
  <2>3. Head(call[c].todo).from = c
    BY <1>1, <2>2 DEF Typed, Owned
  <2> QED BY <1>1, <1>2, <2>1, <2>3, SendNextTyped
<1>3. ASSUME call' = [call EXCEPT ![c] = Idle], requests' = requests
      PROVE  CallsTyped'
  BY <1>1, <1>3, ReturnTyped
<1> QED BY <1>2, <1>3 DEF MemberDone, permissionVars

\* A removal that continues sends one request.
LEMMA RemovalContinuesTyped ==
  ASSUME Typed, workload' = workload, NEW c \in Callers, RemovalContinues(c)
  PROVE  CallsTyped'
<1>1. call[c].op = "remove" /\ call[c].wait = 0
  BY DEF RemovalContinues, HasAnswers
<1>2. ASSUME call[c].todo # <<>>, SendNext(c, call[c].todo)
      PROVE  CallsTyped'
  <2>1. call[c].todo \in Seq(Requests)
    BY <1>1, CallOf DEF Calls
  <2>2. Head(call[c].todo) = call[c].todo[1] /\ 1 \in 1 .. Len(call[c].todo)
    BY <1>2, <2>1
  <2>3. Head(call[c].todo).from = c
    BY <1>1, <2>2 DEF Typed, Owned
  <2> QED BY <1>1, <1>2, <2>1, <2>3, SendNextTyped
<1>3. ASSUME NEW order \in SetToSeqs(call[c].keys),
             Send(<<Head(Deletions(c, call[c].id, order))>>),
             call' = [call EXCEPT ![c].wait = 1, ![c].todo = Tail(Deletions(c, call[c].id, order)),
                                  ![c].listed = TRUE]
      PROVE  CallsTyped'
  <2> DEFINE todo == Deletions(c, call[c].id, order)
             mine == [call[c] EXCEPT !.wait = 1, !.todo = Tail(todo), !.listed = TRUE]
  <2>1. /\ todo \in Seq(Requests) /\ Len(todo) \in Nat \ {0}
        /\ \A i \in 1 .. Len(todo) : todo[i].from = c
    <3>1. call[c].op # "none"
      BY <1>1
    <3>2. /\ Len(order) \in Nat /\ todo \in Seq(Requests) /\ Len(todo) = Len(order) + 1
          /\ \A i \in 1 .. Len(order) + 1 : todo[i].from = c
      BY <3>1, DeletionsTyped
    <3> QED BY <3>2
  <2> HIDE DEF todo
  <2>2. todo # <<>> /\ Head(todo) = todo[1] /\ Head(todo) \in Requests /\ Tail(todo) \in Seq(Requests)
    BY <2>1
  <2>3. Head(todo).from = c
    BY <2>1, <2>2
  <2>4. call[c] \in Calls /\ call \in [Callers -> {Idle} \cup Calls]
    BY <1>1, CallOf DEF Typed, CallsTyped
  <2>5. call' = [call EXCEPT ![c] = mine]
    BY <1>3, <2>4 DEF todo
  <2>6. mine \in Calls
    <3>1. 1 \in 0 .. 2
      OBVIOUS
    <3> QED BY <2>2, <2>4, <3>1, UpdatedTyped
  <2>7. mine.wait = 1
    BY <2>4 DEF Calls
  <2>8. requests' = requests \o <<Head(todo)>>
    BY <1>3 DEF Send, todo
  <2> HIDE DEF mine
  <2> QED BY <1>1, <2>2, <2>3, <2>5, <2>6, <2>7, <2>8, OneRequestTyped
<1> QED BY <1>2, <1>3 DEF RemovalContinues

\* A removal that is done returns, and disturbs the other calls on its file.
LEMMA RemovalDoneTyped ==
  ASSUME Typed, workload' = workload, NEW c \in Callers, RemovalDone(c)
  PROVE  CallsTyped'
<1>1. /\ call[c].op = "remove" /\ call[c].wait = 0 /\ requests' = requests
      /\ call' = [d \in Callers |-> IF d = c THEN Idle
                   ELSE IF d \in Working(call[c].id) THEN [call[d] EXCEPT !.disturbed = TRUE] ELSE call[d]]
  BY DEF RemovalDone, HasAnswers, permissionVars
<1>2. ASSUME NEW d \in Callers
      PROVE  call'[d] \in {Idle} \cup Calls /\ WaitOf(d)' = WaitOf(d)
  <2>1. CASE d = c
    <3>1. call[c] # Idle
      BY <1>1, CallOf
    <3> QED BY <1>1, <2>1, <3>1 DEF WaitOf, Idle
  <2>2. CASE d # c /\ d \in Working(call[c].id)
    <3>1. call[d] # Idle
      BY <2>2 DEF Working
    <3>2. call'[d] = [call[d] EXCEPT !.disturbed = TRUE]
      BY <1>1, <2>2
    <3> QED BY <3>1, <3>2, DisturbedTyped DEF WaitOf, Idle
  <2>3. CASE d # c /\ d \notin Working(call[c].id)
    BY <1>1, <2>3 DEF WaitOf, Typed, CallsTyped, Idle
  <2> QED BY <2>1, <2>2, <2>3
<1>3. call' \in [Callers -> {Idle} \cup Calls]
  BY <1>1, <1>2
<1> QED BY <1>1, <1>2, <1>3, QuietTyped

\* share_file returns when the link is made.
LEMMA LinkMadeTyped ==
  ASSUME Typed, workload' = workload, NEW c \in Callers, LinkMade(c)
  PROVE  CallsTyped'
<1>1. /\ call[c].op = "share" /\ call[c].wait = 0 /\ requests' = requests
      /\ call' = [call EXCEPT ![c] = Idle]
  BY DEF LinkMade, HasAnswers, permissionVars
<1> QED BY <1>1, ReturnTyped

\* Every step keeps calls and requests matched.
LEMMA CallsStayTyped ==
  ASSUME Typed, FilesKept, [AnyStep]_vars
  PROVE  CallsTyped'
<1> USE SameWorkload
<1>1. ASSUME NEW c \in Callers, NEW user \in Users, NEW name,
             NEW content \in Contents, CreateFile(c, user, name, content)
      PROVE  CallsTyped'
  BY <1>1, WorkloadTyped, CreateFileTyped
<1>2. ASSUME NEW c \in Callers, AddMember(c)
      PROVE  CallsTyped'
  <2>1. PICK user \in workload.users, member \in workload.users, id \in Ids, role \in {"Editor", "Viewer"} :
          BothKeys(c, user, id, SetPermission(c, FileUserKey(id, member), role),
                                SetPermission(c, UserFileKey(member, id), role))
    BY <1>2 DEF AddMember
  <2>2. user \in Users /\ member \in Users /\ role \in Roles
    BY WorkloadTyped DEF Roles
  <2>3. /\ SetPermission(c, FileUserKey(id, member), role) \in Requests
        /\ SetPermission(c, UserFileKey(member, id), role) \in Requests
        /\ SetPermission(c, FileUserKey(id, member), role).from = c
        /\ SetPermission(c, UserFileKey(member, id), role).from = c
    BY <2>2, RequestsTyped
  <2> QED BY <2>1, <2>2, <2>3, BothKeysTyped
<1>3. ASSUME NEW c \in Callers, RemoveMember(c)
      PROVE  CallsTyped'
  <2>1. PICK user \in workload.users, member \in workload.users, id \in Ids :
          BothKeys(c, user, id, DeletePermission(c, FileUserKey(id, member)),
                                DeletePermission(c, UserFileKey(member, id)))
    BY <1>3 DEF RemoveMember
  <2>2. user \in Users /\ member \in Users
    BY WorkloadTyped
  <2>3. /\ DeletePermission(c, FileUserKey(id, member)) \in Requests
        /\ DeletePermission(c, UserFileKey(member, id)) \in Requests
        /\ DeletePermission(c, FileUserKey(id, member)).from = c
        /\ DeletePermission(c, UserFileKey(member, id)).from = c
    BY <2>2, RequestsTyped DEF Roles
  <2> QED BY <2>1, <2>2, <2>3, BothKeysTyped
<1>4. ASSUME NEW c \in Callers, RemoveFile(c) PROVE CallsTyped'
  BY <1>4, RemoveFileTyped
<1>5. ASSUME NEW c \in Callers, ShareFile(c) PROVE CallsTyped'
  BY <1>5, ShareFileTyped
<1>6. ASSUME NEW c \in Callers, ChunkCall(c) PROVE CallsTyped'
  BY <1>6, ChunkCallTyped
<1>7. ASSUME NEW c \in Callers, UploadReturns(c) PROVE CallsTyped'
  <2>1. /\ call[c].op = "chunks" /\ call[c].wait = 0 /\ requests' = requests
        /\ call' = [call EXCEPT ![c] = Idle]
    BY <1>7 DEF UploadReturns, HasAnswers, permissionVars
  <2> QED BY <2>1, ReturnTyped
<1>8. ASSUME NEW c \in Callers, FileCreated(c) PROVE CallsTyped'
  BY <1>8, FileCreatedTyped
<1>9. ASSUME NEW c \in Callers, MemberDone(c) PROVE CallsTyped'
  BY <1>9, MemberDoneTyped
<1>10. ASSUME NEW c \in Callers, RemovalContinues(c) PROVE CallsTyped'
  BY <1>10, RemovalContinuesTyped
<1>11. ASSUME NEW c \in Callers, RemovalFails(c) PROVE CallsTyped'
  <2>1. /\ call[c].op = "remove" /\ call[c].wait = 0 /\ requests' = requests
        /\ call' = [call EXCEPT ![c] = Idle]
    BY <1>11 DEF RemovalFails, HasAnswers, permissionVars
  <2> QED BY <2>1, ReturnTyped
<1>12. ASSUME NEW c \in Callers, RemovalDone(c) PROVE CallsTyped'
  BY <1>12, RemovalDoneTyped
<1>13. ASSUME NEW c \in Callers, LinkMade(c) PROVE CallsTyped'
  BY <1>13, LinkMadeTyped
<1>14. ASSUME Answered PROVE CallsTyped'
  BY <1>14, AnsweredTyped
<1>15. ASSUME Rejected PROVE CallsTyped'
  BY <1>15, RejectedTyped
<1>16. ASSUME UNCHANGED <<call, requests>> PROVE CallsTyped'
  <2>1. call' \in [Callers -> {Idle} \cup Calls] /\ \A d \in Callers : WaitOf(d)' = WaitOf(d)
    BY <1>16 DEF Typed, CallsTyped, WaitOf, Idle
  <2> QED BY <1>16, <2>1, QuietTyped
<1>17. ASSUME UseLink \/ RemoveLink \/ TimePasses \/ RenameFile \/ Upgrade \/ UNCHANGED vars
       PROVE  UNCHANGED <<call, requests>>
  BY <1>17 DEF UseLink, RemoveLink, TimePasses, RenameFile, Upgrade, vars, permissionVars
<1> QED BY <1>1, <1>2, <1>3, <1>4, <1>5, <1>6, <1>7, <1>8, <1>9, <1>10, <1>11, <1>12, <1>13, <1>14,
           <1>15, <1>16, <1>17 DEF AnyStep

\* What a step does to the requests a handler has still to make.
LEMMA TodoSteps ==
  ASSUME Typed, [AnyStep]_vars, NEW d \in Callers, call'[d].op # "none"
  PROVE  \/ call'[d].todo = <<>>
         \/ call[d].op # "none" /\ call'[d].todo = call[d].todo
         \/ /\ call[d].op \in {"member", "remove"} /\ call[d].todo # <<>>
            /\ call'[d].todo = Tail(call[d].todo)
         \/ /\ call[d].op = "remove"
            /\ \E order \in SetToSeqs(call[d].keys) :
                 call'[d].todo = Tail(Deletions(d, call[d].id, order))
<1> DEFINE Goal == \/ call'[d].todo = <<>>
                   \/ call[d].op # "none" /\ call'[d].todo = call[d].todo
                   \/ /\ call[d].op \in {"member", "remove"} /\ call[d].todo # <<>>
                      /\ call'[d].todo = Tail(call[d].todo)
                   \/ /\ call[d].op = "remove"
                      /\ \E order \in SetToSeqs(call[d].keys) :
                           call'[d].todo = Tail(Deletions(d, call[d].id, order))
<1>1. call \in [Callers -> {Idle} \cup Calls] /\ Idle.op = "none"
  BY Called DEF Typed, CallsTyped
<1>2. ASSUME call'[d] = call[d] PROVE Goal
  BY <1>2
<1>3. ASSUME NEW c \in Callers, NEW mine, call' = [call EXCEPT ![c] = mine], mine.todo = <<>>
      PROVE  Goal
  BY <1>1, <1>2, <1>3
<1>4. ASSUME NEW c \in Callers, call' = [call EXCEPT ![c] = Idle]
      PROVE  Goal
  BY <1>1, <1>2, <1>4
<1>5. ASSUME NEW c \in Callers, NEW user \in Users, NEW name,
             NEW content \in Contents, CreateFile(c, user, name, content)
      PROVE  Goal
  <2>1. PICK id, disturbed : call' = [e \in Callers |->
          IF e = c THEN [Started("create", user, id, 2) EXCEPT !.content = content, !.disturbed = disturbed]
          ELSE IF e \in Uploading(id) THEN [call[e] EXCEPT !.disturbed = TRUE] ELSE call[e]]
    BY <1>5 DEF CreateFile
  <2>2. CASE d = c
    BY <2>1, <2>2 DEF Started
  <2>3. CASE d # c /\ d \in Uploading(id)
    <3>1. call[d] \in Calls
      BY <2>3, CallOf DEF Uploading, Working
    <3> QED BY <2>1, <2>3, <3>1, Called DEF Calls
  <2>4. CASE d # c /\ d \notin Uploading(id)
    BY <1>2, <2>1, <2>4
  <2> QED BY <2>2, <2>3, <2>4
<1>6. ASSUME NEW c \in Callers, AddMember(c) \/ RemoveMember(c) \/ RemoveFile(c) \/ ShareFile(c)
      PROVE  Goal
  <2>1. ASSUME NEW user, NEW id, NEW a, NEW b, BothKeys(c, user, id, a, b)
        PROVE  Goal
    <3> DEFINE mine == [Started("member", user, id, 2) EXCEPT !.todo = <<>>]
    <3>1. call' = [call EXCEPT ![c] = mine]
      BY <2>1 DEF BothKeys, Begin, Together
    <3>2. mine.todo = <<>>
      BY DEF Started
    <3> QED BY <1>3, <3>1, <3>2
  <2>2. ASSUME NEW user, NEW id, Begin(c, Started("remove", user, id, 1))
        PROVE  Goal
    <3>1. call' = [call EXCEPT ![c] = Started("remove", user, id, 1)]
      BY <2>2 DEF Begin
    <3>2. Started("remove", user, id, 1).todo = <<>>
      BY DEF Started
    <3> QED BY <1>3, <3>1, <3>2
  <2>3. ASSUME NEW user, NEW id, Begin(c, [Started("share", user, id, 0) EXCEPT !.links = shares[id]])
        PROVE  Goal
    <3> DEFINE mine == [Started("share", user, id, 0) EXCEPT !.links = shares[id]]
    <3>1. call' = [call EXCEPT ![c] = mine]
      BY <2>3 DEF Begin
    <3>2. mine.todo = <<>>
      BY DEF Started
    <3> QED BY <1>3, <3>1, <3>2
  <2> HIDE DEF Goal
  <2> QED BY <1>6, <2>1, <2>2, <2>3 DEF AddMember, RemoveMember, RemoveFile, ShareFile
<1>7. ASSUME NEW c \in Callers, ChunkCall(c) PROVE Goal
  <2>1. call[c].op # "none" /\ \E n, b : call' = [call EXCEPT ![c].left = @ \ {n}, ![c].failed = @ \/ b]
    BY <1>7 DEF ChunkCall, ChunkDone
  <2>2. call[c] \in Calls
    BY <2>1, CallOf
  <2> QED BY <1>1, <1>2, <2>1, <2>2 DEF Calls
<1>8. ASSUME NEW c \in Callers, UploadReturns(c) \/ RemovalFails(c) \/ LinkMade(c) PROVE Goal
  BY <1>4, <1>8 DEF UploadReturns, RemovalFails, LinkMade
<1>9. ASSUME NEW c \in Callers, FileCreated(c) PROVE Goal
  <2>1. /\ call[c].op # "none"
        /\ call' = [call EXCEPT ![c] = Idle] \/ call' = [call EXCEPT ![c] = PutChunks(c)]
    BY <1>9 DEF FileCreated, HasAnswers
  <2>2. call[c] \in Calls
    BY <2>1, CallOf
  <2>3. PutChunks(c).todo = call[c].todo
    BY <2>2 DEF PutChunks, Calls
  <2> QED BY <1>1, <1>2, <1>4, <2>1, <2>3
<1>10. ASSUME NEW c \in Callers, call[c].op \in {"member", "remove"}, call[c].todo # <<>>,
              SendNext(c, call[c].todo)
       PROVE  Goal
  <2>1. call[c] \in Calls
    BY <1>10, CallOf
  <2>2. call' = [call EXCEPT ![c].wait = 1, ![c].todo = Tail(call[c].todo)]
    BY <1>10 DEF SendNext
  <2>3. CASE c = d
    BY <1>1, <1>10, <2>1, <2>2, <2>3 DEF Calls
  <2>4. CASE c # d
    BY <1>1, <1>2, <2>2, <2>4
  <2> QED BY <2>3, <2>4
<1>11. ASSUME NEW c \in Callers, MemberDone(c) PROVE Goal
  BY <1>4, <1>10, <1>11 DEF MemberDone, HasAnswers
<1>12. ASSUME NEW c \in Callers, RemovalContinues(c) PROVE Goal
  <2>1. ASSUME NEW order \in SetToSeqs(call[c].keys), call[c].op = "remove",
               call' = [call EXCEPT ![c].wait = 1, ![c].todo = Tail(Deletions(c, call[c].id, order)),
                                    ![c].listed = TRUE]
        PROVE  Goal
    <3>1. call[c] \in Calls
      BY <2>1, CallOf
    <3>2. CASE c = d
      <4>1. call'[d].todo = Tail(Deletions(c, call[c].id, order))
        BY <1>1, <2>1, <3>1, <3>2 DEF Calls
      <4> QED BY <2>1, <3>2, <4>1
    <3>3. CASE c # d
      BY <1>1, <1>2, <2>1, <3>3
    <3> QED BY <3>2, <3>3
  <2>2. call[c].op = "remove"
    BY <1>12 DEF RemovalContinues, HasAnswers
  <2> QED BY <1>10, <1>12, <2>1, <2>2 DEF RemovalContinues
<1>13. ASSUME NEW c \in Callers, RemovalDone(c) PROVE Goal
  <2>1. call' = [e \in Callers |-> IF e = c THEN Idle
                  ELSE IF e \in Working(call[c].id) THEN [call[e] EXCEPT !.disturbed = TRUE] ELSE call[e]]
    BY <1>13 DEF RemovalDone
  <2>2. CASE d = c
    BY <1>1, <2>1, <2>2
  <2>3. CASE d # c /\ d \in Working(call[c].id)
    <3>1. call[d] \in Calls
      BY <2>3, CallOf DEF Working
    <3> QED BY <2>1, <2>3, <3>1, Called DEF Calls
  <2>4. CASE d # c /\ d \notin Working(call[c].id)
    BY <1>2, <2>1, <2>4
  <2> QED BY <2>2, <2>3, <2>4
<1>14. ASSUME Answered \/ Rejected PROVE Goal
  <2> DEFINE r == Head(requests)
             c == r.from
  <2>1. \/ call' = [call EXCEPT ![c].wait = @ - 1, ![c].ok = @ /\ AnswerTo(r).ok, ![c].keys = AnswerTo(r).keys]
        \/ call' = [call EXCEPT ![c].wait = @ - 1, ![c].ok = FALSE]
    BY <1>14 DEF Answered, Rejected, Handle, Reject
  <2>2. call[c] \in Calls /\ c \in Callers
    BY <1>14, RequestOfCall DEF Answered, Rejected, Handle, Reject
  <2> HIDE DEF c, r
  <2>3. CASE c = d
    BY <1>1, <2>1, <2>2, <2>3, Called DEF Calls
  <2>4. CASE c # d
    BY <1>1, <1>2, <2>1, <2>4
  <2> QED BY <2>3, <2>4
<1>15. ASSUME UseLink \/ RemoveLink \/ TimePasses \/ RenameFile \/ Upgrade \/ UNCHANGED vars
       PROVE  Goal
  BY <1>2, <1>15 DEF UseLink, RemoveLink, TimePasses, RenameFile, Upgrade, vars
<1> HIDE DEF Goal
<1>16. Goal
  BY <1>5, <1>6, <1>7, <1>8, <1>9, <1>11, <1>12, <1>13, <1>14, <1>15 DEF AnyStep
<1> QED BY <1>16 DEF Goal

\* What a handler has still to send it sends in its own name.
LEMMA StaysOwned ==
  ASSUME Typed, [AnyStep]_vars
  PROVE  Owned'
<1> SUFFICES ASSUME NEW c \in Callers, call'[c].op # "none", NEW i \in 1 .. Len(call'[c].todo)
             PROVE  call'[c].todo[i].from = c
  BY DEF Owned
<1>1. CASE call'[c].todo = <<>>
  BY <1>1
<1>2. CASE call[c].op # "none" /\ call'[c].todo = call[c].todo
  BY <1>2 DEF Typed, Owned
<1>3. CASE call[c].op \in {"member", "remove"} /\ call[c].todo # <<>> /\ call'[c].todo = Tail(call[c].todo)
  <2>1. call[c].todo \in Seq(Requests) /\ \A j \in 1 .. Len(call[c].todo) : call[c].todo[j].from = c
    BY <1>3, CallOf DEF Typed, Owned, Calls
  <2>2. i + 1 \in 1 .. Len(call[c].todo) /\ call'[c].todo[i] = call[c].todo[i + 1]
    BY <1>3, <2>1
  <2> QED BY <2>1, <2>2
<1>4. ASSUME call[c].op = "remove", NEW order \in SetToSeqs(call[c].keys),
             call'[c].todo = Tail(Deletions(c, call[c].id, order))
      PROVE  call'[c].todo[i].from = c
  <2> DEFINE todo == Deletions(c, call[c].id, order)
             n == Len(order)
  <2>1. /\ n \in Nat /\ todo \in Seq(Requests) /\ Len(todo) = n + 1
        /\ \A j \in 1 .. n + 1 : todo[j].from = c
    BY <1>4, DeletionsTyped
  <2>2. call'[c].todo = Tail(todo)
    BY <1>4
  <2> HIDE DEF todo, n
  <2>3. i + 1 \in 1 .. n + 1 /\ Tail(todo)[i] = todo[i + 1]
    BY <2>1, <2>2
  <2> QED BY <2>1, <2>2, <2>3
<1> QED BY <1>1, <1>2, <1>3, <1>4, TodoSteps

-----------------------------------------------------------------------------
\* The types of the rest.

\* Inserting and deleting keep the tree finite, and its values roles.
LEMMA HandledTyped ==
  ASSUME RestTyped, NEW r \in Requests, Handle(r)
  PROVE  /\ IsFiniteSet(DOMAIN trie') /\ DOMAIN trie' \subseteq Keys
         /\ \A path \in DOMAIN trie' : trie'[path] \in Roles \cup {NoValue}
<1>1. CASE r.method = "set"
  <2>1. trie' = Insert(trie, r.key, r.role) /\ r.role \in Roles /\ r.key \in Keys
    BY <1>1 DEF Handle, Requests
  <2>2. Len(r.key) \in Nat
    BY <2>1 DEF Keys
  <2>3. IsFiniteSet(0 .. Len(r.key))
    BY <2>2, FS_Interval
  <2>4. IsFiniteSet(Prefixes(r.key))
    <3> DEFINE f == [l \in 0 .. Len(r.key) |-> SubSeq(r.key, 1, l)]
    <3>1. f \in Surjection(0 .. Len(r.key), Prefixes(r.key))
      BY DEF Prefixes, Surjection
    <3> QED BY <2>3, <3>1, FS_Surjection
  <2>5. Prefixes(r.key) \subseteq Keys
    BY <2>1, <2>2 DEF Prefixes, Keys
  <2>6. IsFiniteSet(DOMAIN trie \cup Prefixes(r.key))
    BY <2>4, FS_Union DEF RestTyped
  <2> QED BY <2>1, <2>5, <2>6 DEF Insert, RestTyped
<1>2. CASE r.method = "delete"
  <2>1. trie' = Delete(trie, r.key)
    BY <1>2 DEF Handle
  <2>2. DOMAIN trie' \subseteq DOMAIN trie /\ \A path \in DOMAIN trie' : trie'[path] = trie[path]
    BY <2>1 DEF Delete
  <2> QED BY <2>2, FS_Subset DEF RestTyped
<1>3. CASE r.method = "subkeys"
  BY <1>3 DEF Handle, RestTyped
<1> QED BY <1>1, <1>2, <1>3 DEF Requests

\* A step changes the roles by handling a request only.
LEMMA TrieSteps ==
  ASSUME Typed, [AnyStep]_vars
  PROVE  trie' = trie \/ (Answered /\ Handle(Head(requests)) /\ requests # <<>>)
<1>1. ASSUME NEW c \in Callers, AddMember(c) \/ RemoveMember(c) \/ RemoveFile(c) \/ ShareFile(c)
      PROVE  trie' = trie
  BY <1>1 DEF AddMember, RemoveMember, BothKeys, RemoveFile, ShareFile, Send, permissionVars
<1>2. ASSUME NEW c \in Callers, ChunkCall(c) \/ UploadReturns(c) \/ FileCreated(c) \/ MemberDone(c)
                                \/ RemovalContinues(c) \/ RemovalFails(c) \/ RemovalDone(c)
                                \/ LinkMade(c)
      PROVE  trie' = trie
  BY <1>2 DEF ChunkCall, UploadReturns, FileCreated, MemberDone, SendNext, RemovalContinues,
              RemovalFails, RemovalDone, LinkMade, Send, permissionVars
<1>3. ASSUME Rejected \/ UseLink \/ RemoveLink \/ TimePasses \/ RenameFile \/ Upgrade
      PROVE  trie' = trie
  BY <1>3 DEF Rejected, Reject, UseLink, RemoveLink, TimePasses, RenameFile, Upgrade, permissionVars
<1>4. ASSUME NEW c \in Callers, NEW user, NEW name, NEW content, CreateFile(c, user, name, content)
      PROVE  trie' = trie
  BY <1>4 DEF CreateFile, Send
<1>5. ASSUME Answered PROVE Handle(Head(requests)) /\ requests # <<>>
  BY <1>5 DEF Answered, Handle
<1> QED BY <1>1, <1>2, <1>3, <1>4, <1>5 DEF AnyStep, vars, permissionVars

\* A step adds ids of files to the torn ones only.
LEMMA TornSteps ==
  ASSUME Typed, FilesKept, [AnyStep]_vars
  PROVE  torn \subseteq torn' /\ torn' \subseteq Ids
<1>1. torn \subseteq Ids
  BY DEF Typed, RestTyped
<1>2. ASSUME NEW op, NEW id \in Ids, NoteTorn(op, id)
      PROVE  torn \subseteq torn' /\ torn' \subseteq Ids
  BY <1>1, <1>2 DEF NoteTorn, TornBy
<1>3. ASSUME NEW c \in Callers, NEW user, NEW name, NEW content, CreateFile(c, user, name, content)
      PROVE  torn \subseteq torn' /\ torn' \subseteq Ids
  <2>1. NextFileId \in Nat /\ NextFileId < workload.maxFiles
    BY <1>3, FS_CardinalityType DEF CreateFile, FilesKept, NextFileId, NextId
  <2>2. NextFileId \in Ids
    BY <2>1, WorkloadTyped DEF Ids
  <2> QED BY <1>2, <1>3, <2>2 DEF CreateFile
<1>4. ASSUME NEW c \in Callers, AddMember(c) \/ RemoveMember(c) \/ RemoveFile(c) \/ ShareFile(c)
      PROVE  torn \subseteq torn' /\ torn' \subseteq Ids
  <2>1. \E id \in Ids : NoteTorn("member", id) \/ NoteTorn("remove", id) \/ NoteTorn("share", id)
    <3>1. \A user, id, wait : /\ Started("member", user, id, wait).id = id
                              /\ Started("member", user, id, wait).op = "member"
                              /\ [Started("member", user, id, wait) EXCEPT !.todo = <<>>].id = id
                              /\ [Started("member", user, id, wait) EXCEPT !.todo = <<>>].op = "member"
                              /\ Started("remove", user, id, wait).id = id
                              /\ Started("remove", user, id, wait).op = "remove"
                              /\ [Started("share", user, id, wait) EXCEPT !.links = shares[id]].id = id
                              /\ [Started("share", user, id, wait) EXCEPT !.links = shares[id]].op = "share"
      BY DEF Started
    <3>2. ASSUME NEW user, NEW id \in Ids, NEW a, NEW b, BothKeys(c, user, id, a, b)
          PROVE  NoteTorn("member", id)
      BY <3>1, <3>2 DEF BothKeys, Begin, Together
    <3>3. ASSUME NEW user, NEW id \in Ids, Begin(c, Started("remove", user, id, 1))
          PROVE  NoteTorn("remove", id)
      BY <3>1, <3>3 DEF Begin
    <3>4. ASSUME NEW user, NEW id \in Ids, Begin(c, [Started("share", user, id, 0) EXCEPT !.links = shares[id]])
          PROVE  NoteTorn("share", id)
      BY <3>1, <3>4 DEF Begin
    <3> QED BY <1>4, <3>2, <3>3, <3>4 DEF AddMember, RemoveMember, RemoveFile, ShareFile
  <2> QED BY <1>2, <2>1
<1>5. ASSUME Rejected
      PROVE  torn \subseteq torn' /\ torn' \subseteq Ids
  <2>1. requests # <<>> /\ torn' = torn \cup {call[Head(requests).from].id}
    BY <1>5 DEF Rejected, Reject
  <2>2. call[Head(requests).from] \in Calls
    BY <2>1, RequestOfCall
  <2> QED BY <1>1, <2>1, <2>2 DEF Calls
<1>6. ASSUME NEW c \in Callers, RemovalFails(c)
      PROVE  torn \subseteq torn' /\ torn' \subseteq Ids
  <2>1. call[c].op # "none" /\ torn' = torn \cup {call[c].id}
    BY <1>6 DEF RemovalFails, HasAnswers
  <2>2. call[c] \in Calls
    BY <2>1, CallOf
  <2> QED BY <1>1, <2>1, <2>2 DEF Calls
<1>7. ASSUME NEW c \in Callers, ChunkCall(c) \/ UploadReturns(c) \/ FileCreated(c) \/ MemberDone(c)
                                \/ RemovalContinues(c) \/ RemovalDone(c) \/ LinkMade(c)
      PROVE  torn' = torn
  BY <1>7 DEF ChunkCall, UploadReturns, FileCreated, MemberDone, SendNext, RemovalContinues,
              RemovalDone, LinkMade
<1>8. ASSUME Answered \/ UseLink \/ RemoveLink \/ TimePasses \/ RenameFile \/ Upgrade \/ UNCHANGED vars
      PROVE  torn' = torn
  BY <1>8 DEF Answered, UseLink, RemoveLink, TimePasses, RenameFile, Upgrade, vars
<1> QED BY <1>1, <1>3, <1>4, <1>5, <1>6, <1>7, <1>8 DEF AnyStep

\* The steps that change links or flags.
LEMMA LinkSteps ==
  ASSUME Typed, [AnyStep]_vars
  PROVE  \/ UNCHANGED <<shares, issued>>
         \/ \E c \in Callers : LinkMade(c)
         \/ (UseLink \/ RemoveLink) /\ issued' = issued
<1>1. ASSUME NEW c \in Callers, AddMember(c) \/ RemoveMember(c) \/ RemoveFile(c) \/ ShareFile(c)
      PROVE  UNCHANGED <<shares, issued>>
  BY <1>1 DEF AddMember, RemoveMember, BothKeys, RemoveFile, ShareFile, canister
<1>2. ASSUME NEW c \in Callers, ChunkCall(c) \/ UploadReturns(c) \/ FileCreated(c) \/ MemberDone(c)
                                \/ RemovalContinues(c) \/ RemovalFails(c) \/ RemovalDone(c)
      PROVE  UNCHANGED <<shares, issued>>
  BY <1>2 DEF ChunkCall, UploadReturns, FileCreated, MemberDone, SendNext, RemovalContinues,
              RemovalFails, RemovalDone, canister
<1>3. ASSUME Answered \/ Rejected \/ TimePasses \/ RenameFile \/ Upgrade \/ UNCHANGED vars
      PROVE  UNCHANGED <<shares, issued>>
  BY <1>3 DEF Answered, Rejected, TimePasses, RenameFile, Upgrade, canister, vars
<1>4. ASSUME NEW c \in Callers, NEW user, NEW name, NEW content, CreateFile(c, user, name, content)
      PROVE  UNCHANGED <<shares, issued>>
  BY <1>4 DEF CreateFile
<1>5. ASSUME UseLink \/ RemoveLink PROVE issued' = issued
  BY <1>5 DEF UseLink, RemoveLink
<1> QED BY <1>1, <1>2, <1>3, <1>4, <1>5 DEF AnyStep

\* What making, using and removing a link do to the links.
LEMMA LinkMadeIs ==
  ASSUME Typed, NEW c \in Callers, LinkMade(c)
  PROVE  \E token \in Tokens \ issued, limit \in Limits, expires \in BOOLEAN :
           LET new == [token |-> token, limit |-> limit, expires |-> expires, uses |-> 0]
           IN  /\ new \in Links
               /\ issued' = issued \cup {token}
               /\ \E at \in Ids :
                    shares' = [id \in Ids |-> IF id = at THEN shares[id] \cup {new} ELSE shares[id]]
<1>1. call[c].op = "share" /\ call[c].id \in Ids
  <2>1. call[c].op = "share"
    BY DEF LinkMade, HasAnswers
  <2> QED BY <2>1, CallOf DEF Calls
<1>2. PICK token \in Tokens \ issued, limit \in Limits, expires \in BOOLEAN :
        /\ shares' = [shares EXCEPT ![call[c].id] =
             LinksRead(c) \cup {[token |-> token, limit |-> limit, expires |-> expires, uses |-> 0]}]
        /\ issued' = issued \cup {token}
  BY DEF LinkMade
<1> DEFINE new == [token |-> token, limit |-> limit, expires |-> expires, uses |-> 0]
<1>3. new \in Links
  BY DEF Links
<1>4. shares' = [id \in Ids |-> IF id = call[c].id THEN shares[id] \cup {new} ELSE shares[id]]
  BY <1>2 DEF Typed, RestTyped, LinksRead
<1> WITNESS token \in Tokens \ issued, limit \in Limits, expires \in BOOLEAN
<1>5. \E at \in Ids :
        shares' = [id \in Ids |-> IF id = at THEN shares[id] \cup {new} ELSE shares[id]]
  BY <1>1, <1>4
<1> QED BY <1>2, <1>3, <1>5

\* A use counts one of the links of a file up.
LEMMA UseLinkIs ==
  ASSUME Typed, FilesKept, UseLink
  PROVE  \E at \in Ids : \E link \in shares[at] :
           LET new == [link EXCEPT !.uses = @ + 1]
           IN  /\ link \in Links /\ new \in Links
               /\ new.token = link.token /\ new.limit = link.limit /\ new.uses = link.uses + 1
               /\ link.limit # 0 => link.uses < link.limit
               /\ shares' = [id \in Ids |-> IF id = at THEN (shares[id] \ {link}) \cup {new}
                                            ELSE shares[id]]
<1>1. PICK at \in DOMAIN files : \E link \in shares[at] : UseFileShare(at, link)
  BY DEF UseLink
<1>2. PICK link \in shares[at] : UseFileShare(at, link)
  BY <1>1
<1>3. at \in Ids
  BY DEF FilesKept
<1> DEFINE new == [link EXCEPT !.uses = @ + 1]
<1>4. link \in Links
  BY <1>2, <1>3 DEF Typed, RestTyped
<1>5. new \in Links /\ new.token = link.token /\ new.limit = link.limit /\ new.uses = link.uses + 1
  BY <1>4 DEF Links
<1>6. link.limit # 0 => link.uses < link.limit
  BY <1>2 DEF UseFileShare, Usable
<1>7. shares' = [id \in Ids |-> IF id = at THEN (shares[id] \ {link}) \cup {new} ELSE shares[id]]
  BY <1>2, <1>3 DEF UseFileShare, Typed, RestTyped
<1> QED BY <1>2, <1>3, <1>4, <1>5, <1>6, <1>7

\* A link is removed by its token.
LEMMA RemoveLinkIs ==
  ASSUME Typed, RemoveLink
  PROVE  \E at \in Ids : \E token :
           shares' = [id \in Ids |-> IF id = at THEN {l \in shares[id] : l.token # token} ELSE shares[id]]
<1>1. PICK at \in Ids : \E link \in shares[at] :
        shares' = [shares EXCEPT ![at] = {l \in @ : l.token # link.token}]
  BY DEF RemoveLink
<1>2. PICK link \in shares[at] :
        shares' = [shares EXCEPT ![at] = {l \in @ : l.token # link.token}]
  BY <1>1
<1>3. shares' = [id \in Ids |->
        IF id = at THEN {l \in shares[id] : l.token # link.token} ELSE shares[id]]
  BY <1>2 DEF Typed, RestTyped
<1> QED BY <1>3

\* Links stay of their kind, at most one for a token, used within its limit.
LEMMA LinksStay ==
  ASSUME Typed, FilesKept, LinksKept, [AnyStep]_vars
  PROVE  LinksKept' /\ shares' \in [Ids -> SUBSET Links] /\ issued' \subseteq Tokens
<1>1. Ids' = Ids /\ shares \in [Ids -> SUBSET Links] /\ issued \subseteq Tokens
  BY SameSets, SameWorkload DEF Typed, RestTyped
<1>2. CASE UNCHANGED <<shares, issued>>
  BY <1>1, <1>2 DEF LinksKept
<1>3. ASSUME NEW c \in Callers, LinkMade(c)
      PROVE  LinksKept' /\ shares' \in [Ids -> SUBSET Links] /\ issued' \subseteq Tokens
  <2>1. PICK token \in Tokens \ issued, limit \in Limits, expires \in BOOLEAN :
          LET new == [token |-> token, limit |-> limit, expires |-> expires, uses |-> 0]
          IN  /\ new \in Links
              /\ issued' = issued \cup {token}
              /\ \E at \in Ids :
                   shares' = [id \in Ids |-> IF id = at THEN shares[id] \cup {new} ELSE shares[id]]
    BY <1>3, LinkMadeIs
  <2> DEFINE new == [token |-> token, limit |-> limit, expires |-> expires, uses |-> 0]
  <2>6. PICK at \in Ids :
          shares' = [id \in Ids |-> IF id = at THEN shares[id] \cup {new} ELSE shares[id]]
    BY <2>1
  <2>2. /\ new \in Links /\ issued' = issued \cup {token}
        /\ shares' = [id \in Ids |-> IF id = at THEN shares[id] \cup {new} ELSE shares[id]]
    BY <2>1, <2>6
  <2>3. new.token = token /\ new.uses = 0 /\ new.limit \in Nat
    BY StorageAssumption
  <2> HIDE DEF new
  <2>4. ASSUME NEW id \in Ids, NEW link \in shares'[id]
        PROVE  /\ link.token \in issued' /\ (link.limit # 0 => link.uses <= link.limit)
               /\ \A other \in shares'[id] : other.token = link.token => other = link
    <3>1. link = new \/ link \in shares[id]
      BY <2>2, <2>4
    <3>2. \A other \in shares[id] : other.token # token
      BY DEF LinksKept
    <3>3. new.limit # 0 => new.uses <= new.limit
      BY <2>3
    <3> QED BY <2>2, <2>3, <2>4, <3>1, <3>2, <3>3 DEF LinksKept
  <2>5. LinksKept'
    BY <1>1, <2>4 DEF LinksKept
  <2> QED BY <1>1, <2>2, <2>5
<1>4. ASSUME UseLink, issued' = issued
      PROVE  LinksKept' /\ shares' \in [Ids -> SUBSET Links] /\ issued' \subseteq Tokens
  <2>1. PICK at \in Ids : \E link \in shares[at] :
          LET new == [link EXCEPT !.uses = @ + 1]
          IN  /\ link \in Links /\ new \in Links
              /\ new.token = link.token /\ new.limit = link.limit /\ new.uses = link.uses + 1
              /\ link.limit # 0 => link.uses < link.limit
              /\ shares' = [id \in Ids |-> IF id = at THEN (shares[id] \ {link}) \cup {new}
                                           ELSE shares[id]]
    BY <1>4, UseLinkIs
  <2>2. PICK link \in shares[at], new \in Links :
          /\ link \in Links
          /\ new.token = link.token /\ new.limit = link.limit /\ new.uses = link.uses + 1
          /\ link.limit # 0 => link.uses < link.limit
          /\ shares' = [id \in Ids |-> IF id = at THEN (shares[id] \ {link}) \cup {new}
                                       ELSE shares[id]]
    BY <2>1
  <2>3. new.limit # 0 => new.uses <= new.limit
    <3>1. link.limit \in Nat /\ link.uses \in Nat
      BY <2>2, StorageAssumption DEF Links
    <3> QED BY <2>2, <3>1
  <2>4. ASSUME NEW id \in Ids, NEW one \in shares'[id]
        PROVE  /\ one.token \in issued' /\ (one.limit # 0 => one.uses <= one.limit)
               /\ \A other \in shares'[id] : other.token = one.token => other = one
    <3>1. CASE id = at
      <4>1. shares'[id] = (shares[at] \ {link}) \cup {new}
        BY <2>2, <3>1
      <4>2. \A other \in shares[at] : other.token = link.token => other = link
        BY DEF LinksKept
      <4> QED BY <1>4, <2>2, <2>3, <2>4, <3>1, <4>1, <4>2 DEF LinksKept
    <3>2. CASE id # at
      BY <1>4, <2>2, <2>4, <3>2 DEF LinksKept
    <3> QED BY <3>1, <3>2
  <2>5. LinksKept'
    BY <1>1, <2>4 DEF LinksKept
  <2> QED BY <1>1, <1>4, <2>2, <2>5
<1>5. ASSUME RemoveLink, issued' = issued
      PROVE  LinksKept' /\ shares' \in [Ids -> SUBSET Links] /\ issued' \subseteq Tokens
  <2>1. PICK at \in Ids : \E token :
          shares' = [id \in Ids |-> IF id = at THEN {l \in shares[id] : l.token # token} ELSE shares[id]]
    BY <1>5, RemoveLinkIs
  <2>2. PICK token :
          shares' = [id \in Ids |-> IF id = at THEN {l \in shares[id] : l.token # token} ELSE shares[id]]
    BY <2>1
  <2>3. \A id \in Ids : shares'[id] \subseteq shares[id]
    BY <2>2
  <2>4. LinksKept'
    BY <1>1, <1>5, <2>3 DEF LinksKept
  <2> QED BY <1>1, <1>5, <2>2, <2>4
<1> QED BY <1>2, <1>3, <1>4, <1>5, LinkSteps

\* The link with a token is found, when there is one of its kind and no other.
LEMMA NamedLink ==
  ASSUME NEW S \in SUBSET Links, \A l, m \in S : l.token = m.token => l = m, NEW token
  PROVE  /\ \A l \in S : l.token = token => LinkNamed(S, token) = l
         /\ (\A l \in S : l.token # token) => LinkNamed(S, token) = NoLink
         /\ LinkNamed(S, token) = NoLink \/ (LinkNamed(S, token) \in S /\ LinkNamed(S, token).token = token)
         /\ NoLink \notin Links
<1>1. NoLink \notin Links
  <2>1. DOMAIN NoLink = {"token"}
    BY DEF NoLink
  <2>2. \A l \in Links : DOMAIN l = {"token", "limit", "expires", "uses"}
    BY DEF Links
  <2> QED BY <2>1, <2>2
<1>2. ASSUME NEW l \in S, l.token = token PROVE LinkNamed(S, token) = l
  <2>1. LinkNamed(S, token) = CHOOSE m \in S : m.token = token
    BY <1>2 DEF LinkNamed
  <2>2. LinkNamed(S, token) \in S /\ LinkNamed(S, token).token = token
    BY <1>2, <2>1
  <2> QED BY <1>2, <2>2
<1>3. (\A l \in S : l.token # token) => LinkNamed(S, token) = NoLink
  BY DEF LinkNamed
<1>4. LinkNamed(S, token) = NoLink \/ (LinkNamed(S, token) \in S /\ LinkNamed(S, token).token = token)
  BY <1>2, <1>3
<1> QED BY <1>1, <1>2, <1>3, <1>4

\* A step lets links age only.
LEMMA AgeStep ==
  ASSUME Typed, FilesKept, LinksKept, [AnyStep]_vars, NEW id \in Ids, NEW token \in issued
  PROVE  LET old == LinkNamed(shares[id], token)
             new == LinkNamed(shares'[id], token)
         IN  /\ old = NoLink => new = NoLink
             /\ old # NoLink /\ new # NoLink => new.uses >= old.uses
             /\ new # NoLink /\ new.limit # 0 => new.uses <= new.limit
<1> DEFINE old == LinkNamed(shares[id], token)
           new == LinkNamed(shares'[id], token)
<1>1. /\ shares[id] \in SUBSET Links /\ shares'[id] \in SUBSET Links
      /\ \A l, m \in shares[id] : l.token = m.token => l = m
      /\ \A l, m \in shares'[id] : l.token = m.token => l = m
      /\ \A l \in shares'[id] : l.limit # 0 => l.uses <= l.limit
  BY LinksStay, SameSets, SameWorkload DEF Typed, RestTyped, LinksKept
<1>2. /\ \A l \in shares[id] : l.token = token => old = l
      /\ (\A l \in shares[id] : l.token # token) => old = NoLink
      /\ old = NoLink \/ (old \in shares[id] /\ old.token = token)
  BY <1>1, NamedLink
<1>3. /\ \A l \in shares'[id] : l.token = token => new = l
      /\ (\A l \in shares'[id] : l.token # token) => new = NoLink
      /\ new = NoLink \/ (new \in shares'[id] /\ new.token = token)
  BY <1>1, NamedLink
<1>4. NoLink \notin Links
  BY <1>1, NamedLink
<1> HIDE DEF old, new
<1>5. ASSUME \A l \in shares'[id] : l.token = token =>
               \E m \in shares[id] : m.token = token /\ l.uses >= m.uses
      PROVE  /\ old = NoLink => new = NoLink
             /\ old # NoLink /\ new # NoLink => new.uses >= old.uses
             /\ new # NoLink /\ new.limit # 0 => new.uses <= new.limit
  <2>1. CASE new = NoLink
    BY <2>1
  <2>2. CASE new # NoLink
    <3>1. new \in shares'[id] /\ new.token = token
      BY <1>3, <2>2
    <3>2. PICK m \in shares[id] : m.token = token /\ new.uses >= m.uses
      BY <1>5, <3>1
    <3>3. old = m
      BY <1>2, <3>2
    <3> QED BY <1>1, <1>4, <3>1, <3>2, <3>3
  <2> QED BY <2>1, <2>2
<1>6. \A l \in shares[id] : l.uses \in Nat
  BY <1>1 DEF Links
<1>7. ASSUME NEW l \in shares'[id], l.token = token
      PROVE  \E m \in shares[id] : m.token = token /\ l.uses >= m.uses
  <2>1. CASE UNCHANGED <<shares, issued>>
    BY <1>6, <1>7, <2>1
  <2>2. ASSUME NEW c \in Callers, LinkMade(c)
        PROVE  l \in shares[id]
    <3>1. PICK t \in Tokens \ issued, limit \in Limits, expires \in BOOLEAN :
            LET made == [token |-> t, limit |-> limit, expires |-> expires, uses |-> 0]
            IN  \E at \in Ids :
                  shares' = [i \in Ids |-> IF i = at THEN shares[i] \cup {made} ELSE shares[i]]
      BY <2>2, LinkMadeIs
    <3> DEFINE made == [token |-> t, limit |-> limit, expires |-> expires, uses |-> 0]
    <3>2. l \in shares[id] \/ l = made
      BY <3>1
    <3>3. made.token # token
      OBVIOUS
    <3> QED BY <1>7, <3>2, <3>3
  <2>3. ASSUME UseLink
        PROVE  \E m \in shares[id] : m.token = token /\ l.uses >= m.uses
    <3>1. PICK at \in Ids : \E link \in shares[at] :
            LET used == [link EXCEPT !.uses = @ + 1]
            IN  /\ link \in Links
                /\ used.token = link.token /\ used.uses = link.uses + 1
                /\ shares' = [i \in Ids |-> IF i = at THEN (shares[i] \ {link}) \cup {used} ELSE shares[i]]
      BY <2>3, UseLinkIs
    <3>a. PICK link \in shares[at] : \E used :
                /\ link \in Links
                /\ used.token = link.token /\ used.uses = link.uses + 1
                /\ shares' = [i \in Ids |-> IF i = at THEN (shares[i] \ {link}) \cup {used} ELSE shares[i]]
      BY <3>1
    <3>2. PICK used :
                /\ link \in Links
                /\ used.token = link.token /\ used.uses = link.uses + 1
                /\ shares' = [i \in Ids |-> IF i = at THEN (shares[i] \ {link}) \cup {used} ELSE shares[i]]
      BY <3>a
    <3>3. link.uses \in Nat
      BY <3>2 DEF Links
    <3>4. CASE l \in shares[id]
      BY <1>6, <1>7, <3>4
    <3>5. CASE l \notin shares[id]
      <4>1. id = at /\ l = used
        BY <1>7, <3>2, <3>5
      <4> QED BY <1>7, <3>2, <3>3, <4>1
    <3> QED BY <3>4, <3>5
  <2>4. ASSUME RemoveLink
        PROVE  l \in shares[id]
    <3>1. PICK at \in Ids : \E t :
            shares' = [i \in Ids |-> IF i = at THEN {k \in shares[i] : k.token # t} ELSE shares[i]]
      BY <2>4, RemoveLinkIs
    <3> QED BY <1>7, <3>1
  <2> QED BY <1>6, <1>7, <2>1, <2>2, <2>3, <2>4, LinkSteps
<1> QED BY <1>5, <1>7 DEF old, new

-----------------------------------------------------------------------------
\* Types stay.

\* The flags stay Boolean.
LEMMA FlagsStay ==
  ASSUME Typed, [AnyStep]_vars
  PROVE  permissionsKnown' \in BOOLEAN /\ late' \in BOOLEAN /\ gapped' \in BOOLEAN
<1>1. permissionsKnown \in BOOLEAN /\ late \in BOOLEAN /\ gapped \in BOOLEAN
  BY DEF Typed, RestTyped
<1>2. ASSUME NEW c \in Callers, AddMember(c) \/ RemoveMember(c) \/ RemoveFile(c) \/ ShareFile(c)
      PROVE  UNCHANGED <<permissionsKnown, late, gapped>>
  <2>1. UNCHANGED canister
    BY <1>2 DEF AddMember, RemoveMember, BothKeys, RemoveFile, ShareFile
  <2>2. \E started : Begin(c, started)
    <3>1. ASSUME NEW user, NEW id, NEW a, NEW b, BothKeys(c, user, id, a, b)
          PROVE  \E started : Begin(c, started)
      BY <3>1 DEF BothKeys
    <3> QED BY <1>2, <3>1 DEF AddMember, RemoveMember, RemoveFile, ShareFile
  <2> QED BY <2>1, <2>2 DEF Begin, canister
<1>3. ASSUME NEW c \in Callers, UploadReturns(c) \/ FileCreated(c) \/ MemberDone(c)
                                \/ RemovalContinues(c) \/ RemovalFails(c) \/ LinkMade(c)
      PROVE  UNCHANGED <<permissionsKnown, late, gapped>>
  BY <1>3 DEF UploadReturns, FileCreated, MemberDone, SendNext, RemovalContinues, RemovalFails,
              LinkMade, canister
<1>4. ASSUME NEW c \in Callers, ChunkCall(c) \/ RemovalDone(c)
      PROVE  UNCHANGED <<permissionsKnown, late>> /\ gapped' \in BOOLEAN
  <2>1. UNCHANGED <<permissionsKnown, late>> /\ NoteGap
    BY <1>4 DEF ChunkCall, RemovalDone
  <2> QED BY <2>1 DEF NoteGap
<1>5. ASSUME Answered \/ Rejected \/ UseLink \/ RemoveLink \/ RenameFile \/ UNCHANGED vars
      PROVE  UNCHANGED <<permissionsKnown, late, gapped>>
  BY <1>5 DEF Answered, Rejected, UseLink, RemoveLink, RenameFile, canister, vars
<1>6. ASSUME TimePasses \/ Upgrade
      PROVE  permissionsKnown' \in BOOLEAN /\ late' \in BOOLEAN /\ gapped' = gapped
  BY <1>1, <1>6 DEF TimePasses, Upgrade
<1>7. ASSUME NEW c \in Callers, NEW user, NEW name, NEW content, CreateFile(c, user, name, content)
      PROVE  UNCHANGED <<permissionsKnown, late, gapped>>
  BY <1>7 DEF CreateFile
<1> QED BY <1>1, <1>2, <1>3, <1>4, <1>5, <1>6, <1>7 DEF AnyStep

\* Every step keeps the types.
LEMMA StaysTyped ==
  ASSUME Typed, FilesKept, LinksKept, [AnyStep]_vars
  PROVE  Typed'
<1>1. workload' = workload /\ Ids' = Ids /\ Keys' = Keys
  BY SameWorkload, SameSets
<1>2. /\ IsFiniteSet(DOMAIN trie') /\ DOMAIN trie' \subseteq Keys
      /\ \A path \in DOMAIN trie' : trie'[path] \in Roles \cup {NoValue}
  <2>1. CASE trie' = trie
    BY <2>1 DEF Typed, RestTyped
  <2>2. CASE requests # <<>> /\ Handle(Head(requests))
    <3>1. Head(requests) \in Requests
      BY <2>2, RequestOfCall
    <3> QED BY <2>2, <3>1, HandledTyped DEF Typed
  <2> QED BY <2>1, <2>2, TrieSteps
<1>3. torn' \subseteq Ids
  BY TornSteps
<1>4. RestTyped'
  BY <1>1, <1>2, <1>3, LinksStay, FlagsStay DEF RestTyped, Roles
<1> QED BY <1>1, <1>4, CallsStayTyped, StaysOwned DEF Typed

-----------------------------------------------------------------------------
\* Files.

\* An entry put into a finite map leaves it finite, and the others as they are.
LEMMA PutIsFinite ==
  ASSUME NEW reg, IsFiniteSet(DOMAIN reg), NEW id, NEW entry
  PROVE  /\ IsFiniteSet(DOMAIN Put(reg, id, entry))
         /\ DOMAIN Put(reg, id, entry) = DOMAIN reg \cup {id}
         /\ Put(reg, id, entry)[id] = entry
         /\ \A i \in DOMAIN reg : i # id => Put(reg, id, entry)[i] = reg[i]
<1>1. DOMAIN Put(reg, id, entry) = DOMAIN reg \cup {id}
  BY DEF Put
<1> QED BY <1>1, FS_AddElement DEF Put

\* An entry removed from a finite map leaves it finite, and the others as they are.
LEMMA WithoutIsFinite ==
  ASSUME NEW reg, IsFiniteSet(DOMAIN reg), NEW id
  PROVE  /\ IsFiniteSet(DOMAIN Without(reg, id))
         /\ DOMAIN Without(reg, id) = DOMAIN reg \ {id}
         /\ \A i \in DOMAIN reg : i # id => Without(reg, id)[i] = reg[i]
<1>1. DOMAIN Without(reg, id) = DOMAIN reg \ {id}
  BY DEF Without
<1> QED BY <1>1, FS_RemoveElement DEF Without

\* A new file is an entry without chunks.
LEMMA NewEntry ==
  ASSUME NEW user \in Users, NEW name, NEW content \in Contents
  PROVE  Entry(NewPending(user, name, content))
<1>1. DOMAIN <<>> = {}
  OBVIOUS
<1>2. IsFiniteSet(DOMAIN <<>>)
  BY <1>1, FS_EmptySet
<1> QED BY <1>2 DEF Entry, NewPending

\* One more chunk leaves an entry.
LEMMA ChunkEntry ==
  ASSUME NEW p, Entry(p), NEW n, NEW block
  PROVE  /\ Entry(WithChunk(p, n, block))
         /\ WithChunk(p, n, block) =
              [name |-> p.name, owner |-> p.owner, declared |-> p.declared,
               chunks |-> Put(p.chunks, n, block)]
<1>1. WithChunk(p, n, block) =
        [name |-> p.name, owner |-> p.owner, declared |-> p.declared,
         chunks |-> Put(p.chunks, n, block)]
  BY DEF WithChunk, Entry
<1>2. IsFiniteSet(DOMAIN Put(p.chunks, n, block))
  BY PutIsFinite DEF Entry
<1> QED BY <1>1, <1>2 DEF Entry

\* A new name leaves an entry, and what is stored.
LEMMA RenamedEntry ==
  ASSUME NEW p, Entry(p), NEW name, NEW q, q = [p EXCEPT !.name = name]
  PROVE  Entry(q) /\ (Stored(p) => Stored(q))
<1>1. q = [name |-> name, owner |-> p.owner, declared |-> p.declared, chunks |-> p.chunks]
  BY DEF Entry
<1>2. Entry(q)
  BY <1>1 DEF Entry
<1>3. q.declared = p.declared /\ q.chunks = p.chunks
  BY <1>1
<1> QED BY <1>2, <1>3 DEF Stored, Complete, Acceptable, Indexes, Assembled

\* How a step changes the files.
LEMMA FileSteps ==
  ASSUME Typed, [AnyStep]_vars
  PROVE  \/ UNCHANGED <<files, pending, gapped>>
         \/ \E c \in Callers, user \in Users, content \in Contents : \E name :
              CreateFile(c, user, name, content)
         \/ \E c \in Callers : ChunkCall(c) \/ RemovalDone(c)
         \/ RenameFile
<1>1. ASSUME NEW c \in Callers, AddMember(c) \/ RemoveMember(c) \/ RemoveFile(c) \/ ShareFile(c)
      PROVE  UNCHANGED <<files, pending, gapped>>
  <2>1. UNCHANGED canister
    BY <1>1 DEF AddMember, RemoveMember, BothKeys, RemoveFile, ShareFile
  <2>2. \E started : Begin(c, started)
    <3>1. ASSUME NEW user, NEW id, NEW a, NEW b, BothKeys(c, user, id, a, b)
          PROVE  \E started : Begin(c, started)
      BY <3>1 DEF BothKeys
    <3> QED BY <1>1, <3>1 DEF AddMember, RemoveMember, RemoveFile, ShareFile
  <2> QED BY <2>1, <2>2 DEF Begin, canister
<1>2. ASSUME NEW c \in Callers, UploadReturns(c) \/ FileCreated(c) \/ MemberDone(c)
                                \/ RemovalContinues(c) \/ RemovalFails(c) \/ LinkMade(c)
      PROVE  UNCHANGED <<files, pending, gapped>>
  BY <1>2 DEF UploadReturns, FileCreated, MemberDone, SendNext, RemovalContinues, RemovalFails,
              LinkMade, canister
<1>3. ASSUME \/ Answered \/ Rejected \/ UseLink \/ RemoveLink \/ TimePasses \/ Upgrade
             \/ UNCHANGED vars
      PROVE  UNCHANGED <<files, pending, gapped>>
  BY <1>3 DEF Answered, Rejected, UseLink, RemoveLink, TimePasses, Upgrade, canister, vars
<1> QED BY <1>1, <1>2, <1>3 DEF AnyStep

\* What a chunk does to the files: nothing, or one more chunk, which may be the last.
LEMMA PutChunkIs ==
  ASSUME FilesKept, NEW user, NEW id, NEW n, NEW block, PutChunk(user, id, n, block)
  PROVE  LET p == WithChunk(pending[id], n, block)
         IN  \/ UNCHANGED <<files, pending>>
             \/ /\ id \in DOMAIN pending /\ pending[id].owner = user
                /\ n \notin DOMAIN pending[id].chunks
                /\ Entry(p)
                /\ \/ Stored(p) /\ files' = Put(files, id, p) /\ pending' = Without(pending, id)
                   \/ ~ Complete(p) /\ pending' = [pending EXCEPT ![id] = p] /\ files' = files
<1> DEFINE p == WithChunk(pending[id], n, block)
<1>1. CASE UNCHANGED <<files, pending>>
  BY <1>1
<1>2. ASSUME /\ id \in DOMAIN pending /\ pending[id].owner = user
             /\ n \notin DOMAIN pending[id].chunks /\ Acceptable(p)
             /\ IF Finished(p, n) THEN files' = Put(files, id, p) /\ pending' = Without(pending, id)
                ELSE pending' = [pending EXCEPT ![id] = p] /\ UNCHANGED files
      PROVE  /\ Entry(p)
             /\ \/ Stored(p) /\ files' = Put(files, id, p) /\ pending' = Without(pending, id)
                \/ ~ Complete(p) /\ pending' = [pending EXCEPT ![id] = p] /\ files' = files
  <2>1. Entry(p)
    BY <1>2, ChunkEntry DEF FilesKept
  <2> HIDE DEF p
  <2> QED BY <1>2, <2>1 DEF Finished, Stored
<1> HIDE DEF p
<1>3. UNCHANGED <<files, pending>> \/
        /\ id \in DOMAIN pending /\ pending[id].owner = user
        /\ n \notin DOMAIN pending[id].chunks /\ Acceptable(p)
        /\ IF Finished(p, n) THEN files' = Put(files, id, p) /\ pending' = Without(pending, id)
           ELSE pending' = [pending EXCEPT ![id] = p] /\ UNCHANGED files
  BY DEF PutChunk, p
<1> QED BY <1>1, <1>2, <1>3 DEF p

\* A chunk arrives, or its call never does.
LEMMA ChunkCallIs ==
  ASSUME NEW c \in Callers, ChunkCall(c)
  PROVE  /\ call[c] # Idle /\ call[c].op = "chunks" /\ requests' = requests
         /\ NoteGap
         /\ \E n \in call[c].left, threw \in BOOLEAN :
              /\ ChunkDone(c, n, threw)
              /\ \/ PutChunk(call[c].user, call[c].id, n, call[c].content[n + 1])
                 \/ UNCHANGED <<files, pending>> /\ threw
<1>1. call[c] # Idle /\ call[c].op = "chunks" /\ requests' = requests /\ NoteGap
  BY DEF ChunkCall, permissionVars
<1>2. PICK n \in call[c].left :
        \/ /\ PutChunk(call[c].user, call[c].id, n, call[c].content[n + 1])
           /\ \E threw \in BOOLEAN : ChunkDone(c, n, threw)
        \/ UNCHANGED <<files, pending>> /\ ChunkDone(c, n, TRUE)
  BY DEF ChunkCall
<1> QED BY <1>1, <1>2

\* Every step keeps the files.
LEMMA FilesStay ==
  ASSUME Typed, FilesKept, [AnyStep]_vars
  PROVE  FilesKept'
<1> DEFINE Whole == /\ IsFiniteSet(DOMAIN files') /\ DOMAIN files' \subseteq Ids
                    /\ IsFiniteSet(DOMAIN pending') /\ DOMAIN pending' \subseteq Ids
                    /\ \A id \in DOMAIN files' : Entry(files'[id]) /\ Stored(files'[id])
                    /\ \A id \in DOMAIN pending' : Entry(pending'[id])
                    /\ ~ gapped' => Gapless(files') /\ DOMAIN files' \cap DOMAIN pending' = {}
<1>1. Ids' = Ids
  BY SameSets, SameWorkload
<1>2. ASSUME UNCHANGED <<files, pending, gapped>>
      PROVE  Whole
  BY <1>2 DEF FilesKept
<1>3. ASSUME NEW c \in Callers, NEW user \in Users, NEW content \in Contents,
             NEW name, CreateFile(c, user, name, content)
      PROVE  Whole
  <2> DEFINE id == NextFileId
             p == NewPending(user, name, content)
  <2>1. pending' = Put(pending, id, p) /\ files' = files /\ gapped' = gapped
        /\ id < workload.maxFiles
    BY <1>3 DEF CreateFile
  <2>2. id = Cardinality(DOMAIN files) /\ id \in Nat
    BY FS_CardinalityType DEF NextFileId, NextId, FilesKept
  <2>3. id \in Ids
    BY <2>1, <2>2, WorkloadTyped DEF Ids
  <2>4. Entry(p)
    BY NewEntry, WorkloadTyped
  <2>5. Gapless(files) => id \notin DOMAIN files
    BY <2>2 DEF Gapless
  <2> HIDE DEF id, p
  <2>6. /\ IsFiniteSet(DOMAIN pending') /\ DOMAIN pending' = DOMAIN pending \cup {id}
        /\ \A i \in DOMAIN pending' : Entry(pending'[i])
    <3>1. IsFiniteSet(DOMAIN pending) /\ \A i \in DOMAIN pending : Entry(pending[i])
      BY DEF FilesKept
    <3>2. /\ IsFiniteSet(DOMAIN pending') /\ DOMAIN pending' = DOMAIN pending \cup {id}
          /\ pending'[id] = p /\ \A i \in DOMAIN pending : i # id => pending'[i] = pending[i]
      <4>1. /\ IsFiniteSet(DOMAIN Put(pending, id, p)) /\ DOMAIN Put(pending, id, p) = DOMAIN pending \cup {id}
            /\ Put(pending, id, p)[id] = p
            /\ \A i \in DOMAIN pending : i # id => Put(pending, id, p)[i] = pending[i]
        BY <3>1, FS_AddElement DEF Put
      <4> QED BY <2>1, <4>1
    <3> QED BY <2>4, <3>1, <3>2
  <2> QED BY <2>1, <2>3, <2>5, <2>6 DEF FilesKept
<1>4. ASSUME NEW c \in Callers, ChunkCall(c)
      PROVE  Whole
  <2>1. PICK n \in call[c].left :
          \/ PutChunk(call[c].user, call[c].id, n, call[c].content[n + 1])
          \/ UNCHANGED <<files, pending>>
    BY <1>4, ChunkCallIs
  <2> DEFINE id == call[c].id
             p == WithChunk(pending[id], n, call[c].content[n + 1])
  <2>2. \/ UNCHANGED <<files, pending>>
        \/ /\ id \in DOMAIN pending /\ Entry(p)
           /\ \/ Stored(p) /\ files' = Put(files, id, p) /\ pending' = Without(pending, id)
              \/ pending' = [pending EXCEPT ![id] = p] /\ files' = files
    BY <2>1, PutChunkIs
  <2> HIDE DEF id, p
  <2>3. ~ gapped' => ~ gapped /\ Gapless(files')
    BY <1>4, ChunkCallIs DEF NoteGap, Gapless
  <2>4. CASE UNCHANGED <<files, pending>>
    BY <2>3, <2>4 DEF FilesKept
  <2>5. ASSUME id \in DOMAIN pending, Entry(p), Stored(p),
               files' = Put(files, id, p), pending' = Without(pending, id)
        PROVE  Whole
    <3>1. /\ IsFiniteSet(DOMAIN files') /\ DOMAIN files' = DOMAIN files \cup {id}
          /\ \A i \in DOMAIN files' : Entry(files'[i]) /\ Stored(files'[i])
      <4>1. IsFiniteSet(DOMAIN files) /\ \A i \in DOMAIN files : Entry(files[i]) /\ Stored(files[i])
        BY DEF FilesKept
      <4>2. /\ IsFiniteSet(DOMAIN files') /\ DOMAIN files' = DOMAIN files \cup {id}
            /\ files'[id] = p /\ \A i \in DOMAIN files : i # id => files'[i] = files[i]
        <5>1. /\ IsFiniteSet(DOMAIN Put(files, id, p)) /\ DOMAIN Put(files, id, p) = DOMAIN files \cup {id}
              /\ Put(files, id, p)[id] = p
              /\ \A i \in DOMAIN files : i # id => Put(files, id, p)[i] = files[i]
          BY <4>1, FS_AddElement DEF Put
        <5> QED BY <2>5, <5>1
      <4> QED BY <2>5, <4>1, <4>2
    <3>2. /\ IsFiniteSet(DOMAIN pending') /\ DOMAIN pending' = DOMAIN pending \ {id}
          /\ \A i \in DOMAIN pending' : Entry(pending'[i])
      <4>1. IsFiniteSet(DOMAIN pending) /\ \A i \in DOMAIN pending : Entry(pending[i])
        BY DEF FilesKept
      <4>2. /\ IsFiniteSet(DOMAIN pending') /\ DOMAIN pending' = DOMAIN pending \ {id}
            /\ \A i \in DOMAIN pending : i # id => pending'[i] = pending[i]
        BY <2>5, <4>1, WithoutIsFinite
      <4> QED BY <4>1, <4>2
    <3> QED BY <2>3, <2>5, <3>1, <3>2 DEF FilesKept
  <2>6. ASSUME id \in DOMAIN pending, Entry(p), files' = files,
               pending' = [pending EXCEPT ![id] = p]
        PROVE  Whole
    <3>1. DOMAIN pending' = DOMAIN pending /\ \A i \in DOMAIN pending' : Entry(pending'[i])
      BY <2>6 DEF FilesKept
    <3> QED BY <2>3, <2>6, <3>1 DEF FilesKept
  <2> HIDE DEF Whole
  <2> QED BY <2>2, <2>4, <2>5, <2>6
<1>5. ASSUME NEW c \in Callers, RemovalDone(c)
      PROVE  Whole
  <2>1. files' = Without(files, call[c].id) /\ pending' = pending /\ NoteGap
    BY <1>5 DEF RemovalDone
  <2>2. ~ gapped' => ~ gapped /\ Gapless(files')
    BY <2>1 DEF NoteGap, Gapless
  <2>3. /\ IsFiniteSet(DOMAIN files') /\ DOMAIN files' = DOMAIN files \ {call[c].id}
        /\ \A i \in DOMAIN files' : Entry(files'[i]) /\ Stored(files'[i])
    <3>1. IsFiniteSet(DOMAIN files) /\ \A i \in DOMAIN files : Entry(files[i]) /\ Stored(files[i])
      BY DEF FilesKept
    <3>2. /\ IsFiniteSet(DOMAIN files') /\ DOMAIN files' = DOMAIN files \ {call[c].id}
          /\ \A i \in DOMAIN files : i # call[c].id => files'[i] = files[i]
      BY <2>1, <3>1, WithoutIsFinite
    <3> QED BY <3>1, <3>2
  <2> QED BY <2>1, <2>2, <2>3 DEF FilesKept
<1>6. ASSUME RenameFile
      PROVE  Whole
  <2>1. PICK id \in DOMAIN files, name \in workload.names : files' = [files EXCEPT ![id].name = name]
    BY <1>6 DEF RenameFile
  <2>2. pending' = pending /\ gapped' = gapped
    BY <1>6 DEF RenameFile
  <2>3. DOMAIN files' = DOMAIN files
        /\ \A i \in DOMAIN files' :
             files'[i] = IF i = id THEN [files[id] EXCEPT !.name = name] ELSE files[i]
    BY <2>1
  <2>4. Entry(files'[id]) /\ Stored(files'[id])
    <3>1. Entry(files[id]) /\ Stored(files[id]) /\ id \in DOMAIN files'
      BY <2>1, <2>3 DEF FilesKept
    <3>2. files'[id] = [files[id] EXCEPT !.name = name]
      BY <2>3, <3>1
    <3> QED BY <3>1, <3>2, RenamedEntry
  <2>5. \A i \in DOMAIN files' : Entry(files'[i]) /\ Stored(files'[i])
    BY <2>3, <2>4 DEF FilesKept
  <2> QED BY <2>2, <2>3, <2>5 DEF FilesKept, Gapless
<1> HIDE DEF Whole
<1>7. Whole
  BY <1>2, <1>3, <1>4, <1>5, <1>6, FileSteps
<1> QED BY <1>1, <1>7 DEF Whole, FilesKept, Entry, Stored, Complete, Acceptable, Indexes, Assembled, Gapless

\* While the ids have no gap no step changes a stored file, its name aside.
LEMMA NothingReplaced ==
  ASSUME Typed, FilesKept, [AnyStep]_vars, ~ gapped, NEW at \in DOMAIN files, at \in DOMAIN files'
  PROVE  [files'[at] EXCEPT !.name = files[at].name] = files[at]
<1>1. ASSUME files'[at] = files[at]
      PROVE  [files'[at] EXCEPT !.name = files[at].name] = files[at]
  BY <1>1 DEF FilesKept, Entry
<1>2. ASSUME NEW c \in Callers, ChunkCall(c)
      PROVE  files'[at] = files[at]
  <2>1. PICK n \in call[c].left :
          \/ PutChunk(call[c].user, call[c].id, n, call[c].content[n + 1])
          \/ UNCHANGED <<files, pending>>
    BY <1>2, ChunkCallIs
  <2> DEFINE p == WithChunk(pending[call[c].id], n, call[c].content[n + 1])
  <2>2. files' = files \/ (call[c].id \in DOMAIN pending /\ files' = Put(files, call[c].id, p))
    BY <2>1, PutChunkIs
  <2> HIDE DEF p
  <2>3. ASSUME call[c].id \in DOMAIN pending, files' = Put(files, call[c].id, p)
        PROVE  files'[at] = files[at]
    <3>1. IsFiniteSet(DOMAIN files) /\ at # call[c].id
      BY <2>3 DEF FilesKept
    <3>2. Put(files, call[c].id, p)[at] = files[at]
      BY <3>1 DEF Put
    <3> QED BY <2>3, <3>2
  <2> QED BY <2>2, <2>3
<1>3. ASSUME NEW c \in Callers, RemovalDone(c)
      PROVE  files'[at] = files[at]
  <2>1. files' = Without(files, call[c].id) /\ IsFiniteSet(DOMAIN files)
    BY <1>3 DEF RemovalDone, FilesKept
  <2>2. DOMAIN files' = DOMAIN files \ {call[c].id}
        /\ \A i \in DOMAIN files : i # call[c].id => files'[i] = files[i]
    BY <2>1, WithoutIsFinite
  <2> QED BY <2>2
<1>4. ASSUME RenameFile
      PROVE  [files'[at] EXCEPT !.name = files[at].name] = files[at]
  <2>1. PICK id \in DOMAIN files, name \in workload.names : files' = [files EXCEPT ![id].name = name]
    BY <1>4 DEF RenameFile
  <2>2. CASE at = id
    <3>1. files'[at] = [files[at] EXCEPT !.name = name]
      BY <2>1, <2>2
    <3> DEFINE f == files[at]
               g == [f EXCEPT !.name = name]
    <3>3. f = [name |-> f.name, owner |-> f.owner, declared |-> f.declared, chunks |-> f.chunks]
      BY DEF FilesKept, Entry
    <3> HIDE DEF f
    <3>4. g =
            [name |-> name, owner |-> f.owner, declared |-> f.declared, chunks |-> f.chunks]
      BY <3>3
    <3> HIDE DEF g
    <3>5. [g EXCEPT !.name = f.name] =
            [name |-> f.name, owner |-> f.owner, declared |-> f.declared, chunks |-> f.chunks]
      BY <3>4
    <3> QED BY <3>1, <3>3, <3>5 DEF f, g
  <2>3. CASE at # id
    BY <1>1, <2>1, <2>3
  <2> QED BY <2>2, <2>3
<1>5. ASSUME NEW c \in Callers, NEW user, NEW name, NEW content, CreateFile(c, user, name, content)
      PROVE  files'[at] = files[at]
  BY <1>5 DEF CreateFile
<1> QED BY <1>1, <1>2, <1>3, <1>4, <1>5, FileSteps

\* What a stored file holds: its chunks are those of the content that was announced.
LEMMA StoredIs ==
  ASSUME FilesKept, NEW id \in DOMAIN files
  PROVE  /\ DOMAIN files[id].chunks = Indexes(files[id])
         /\ Assembled(files[id]) = files[id].declared
<1> DEFINE D == DOMAIN files[id].chunks
           k == Cardinality(D)
<1>1. Indexes(files[id]) \subseteq D /\ Assembled(files[id]) = files[id].declared
  BY DEF FilesKept, Stored, Acceptable
<1>2. IsFiniteSet(D) /\ k \in Nat
  BY FS_CardinalityType DEF FilesKept, Entry
<1>3. Cardinality(0 .. k - 1) = k
  BY <1>2, FS_Interval
<1>4. D = Indexes(files[id])
  BY <1>1, <1>2, <1>3, FS_Subset DEF Indexes
<1> QED BY <1>1, <1>4

-----------------------------------------------------------------------------
\* Uploads.

\* What an upload that a step leaves alone keeps.
Goes(d) == Uploads(d)' =>
  /\ Uploads(d) /\ call'[d].user = call[d].user /\ call'[d].id = call[d].id
  /\ ~ call'[d].disturbed =>
       /\ ~ call[d].disturbed
       /\ call'[d].op = call[d].op /\ call'[d].content = call[d].content
       /\ call'[d].left = call[d].left /\ call'[d].failed = call[d].failed

\* A step leaves what is stored and pending under an id.
Leaves(id) ==
  /\ id \in DOMAIN pending' <=> id \in DOMAIN pending
  /\ id \in DOMAIN pending => pending'[id] = pending[id]
  /\ id \in DOMAIN files => id \in DOMAIN files' /\ files'[id].chunks = files[id].chunks

\* An upload goes on while a step leaves it and its file alone.
LEMMA UploadGoesOn ==
  ASSUME NEW d \in Callers, UploadKept(d), Goes(d), Intact(d)' => Leaves(call[d].id)
  PROVE  UploadKept(d)'
<1> SUFFICES ASSUME Intact(d)'
             PROVE  \/ /\ call'[d].op = "chunks"
                       /\ call'[d].left \subseteq 0 .. Len(call'[d].content) - 1 /\ Arriving(d)'
                    \/ /\ call'[d].op = "create"
                       /\ call'[d].id \in DOMAIN pending'
                       /\ pending'[call'[d].id] =
                            NewPending(call'[d].user, pending'[call'[d].id].name, call'[d].content)
  BY DEF UploadKept, NewPending
<1>1. /\ Intact(d) /\ call'[d].user = call[d].user /\ call'[d].id = call[d].id
      /\ call'[d].op = call[d].op /\ call'[d].content = call[d].content
      /\ call'[d].left = call[d].left
  BY DEF Intact, Goes
<1>2. Leaves(call[d].id)
  OBVIOUS
<1>3. CASE call[d].op = "chunks" /\ call[d].left \subseteq 0 .. Len(call[d].content) - 1 /\ Arriving(d)
  <2>1. Arriving(d)'
    BY <1>1, <1>2, <1>3 DEF Arriving, Leaves
  <2> QED BY <1>1, <1>3, <2>1
<1>4. CASE /\ call[d].op = "create"
           /\ call[d].id \in DOMAIN pending
           /\ pending[call[d].id] = NewPending(call[d].user, pending[call[d].id].name, call[d].content)
  BY <1>1, <1>2, <1>4 DEF Leaves
<1> QED BY <1>1, <1>3, <1>4 DEF UploadKept

\* Uploads stay apart while no step changes the id or the user of one, or ends its disturbance.
LEMMA StayApart ==
  ASSUME NEW c \in Callers, NEW d \in Callers, Apart(c, d),
         Uploads(c)' => /\ Uploads(c) /\ call'[c].user = call[c].user /\ call'[c].id = call[c].id
                        /\ ~ call'[c].disturbed => ~ call[c].disturbed,
         Uploads(d)' => Uploads(d) /\ call'[d].user = call[d].user /\ call'[d].id = call[d].id
  PROVE  Apart(c, d)'
BY DEF Apart

\* A part of the indexes of a content is all of them when it has as many.
LEMMA ChunkCount ==
  ASSUME NEW n \in Nat, NEW left \in SUBSET (0 .. n - 1)
  PROVE  /\ IsFiniteSet((0 .. n - 1) \ left)
         /\ Cardinality((0 .. n - 1) \ left) = n <=> left = {}
<1>1. IsFiniteSet(0 .. n - 1) /\ Cardinality(0 .. n - 1) = n
  BY FS_Interval
<1>2. (0 .. n - 1) \ left \in SUBSET (0 .. n - 1)
  OBVIOUS
<1>3. IsFiniteSet((0 .. n - 1) \ left)
      /\ (Cardinality(0 .. n - 1) = Cardinality((0 .. n - 1) \ left) => 0 .. n - 1 = (0 .. n - 1) \ left)
  BY <1>1, <1>2, FS_Subset
<1>4. left = {} => (0 .. n - 1) \ left = 0 .. n - 1
  OBVIOUS
<1> QED BY <1>1, <1>3, <1>4

\* A step goes on with every upload, but for the one that it creates or makes progress with.
LEMMA UploadSteps ==
  ASSUME Typed, [AnyStep]_vars, NEW d \in Callers
  PROVE  \/ Goes(d)
         \/ \E user \in Users, content \in Contents : \E name :
              CreateFile(d, user, name, content)
         \/ ChunkCall(d) \/ FileCreated(d)
<1> DEFINE Goal == \/ Goes(d)
                   \/ \E user \in Users, content \in Contents : \E name :
                        CreateFile(d, user, name, content)
                   \/ ChunkCall(d) \/ FileCreated(d)
<1>1. call \in [Callers -> {Idle} \cup Calls] /\ Idle.op = "none"
  BY Called DEF Typed, CallsTyped
<1>2. ASSUME call'[d] = call[d] PROVE Goal
  BY <1>2 DEF Goes, Uploads
<1>3. ASSUME NEW c \in Callers, NEW mine, call' = [call EXCEPT ![c] = mine],
             mine.op \notin {"create", "chunks"}
      PROVE  Goal
  <2>1. CASE d = c
    BY <1>1, <1>3, <2>1 DEF Goes, Uploads
  <2>2. CASE d # c
    BY <1>1, <1>2, <1>3, <2>2
  <2> QED BY <2>1, <2>2
<1>4. ASSUME NEW c \in Callers, call' = [call EXCEPT ![c] = Idle]
      PROVE  Goal
  BY <1>1, <1>3, <1>4
<1>d. ASSUME call[d] # Idle, call'[d] = [call[d] EXCEPT !.disturbed = TRUE]
      PROVE  Goal
  <2>1. call[d] \in Calls
    BY <1>d, CallOf
  <2> QED BY <1>d, <2>1 DEF Goes, Uploads, Calls
<1>5. ASSUME NEW c \in Callers, NEW user \in Users, NEW name,
             NEW content \in Contents, CreateFile(c, user, name, content)
      PROVE  Goal
  <2>1. PICK id, disturbed : call' = [e \in Callers |->
          IF e = c THEN [Started("create", user, id, 2) EXCEPT !.content = content, !.disturbed = disturbed]
          ELSE IF e \in Uploading(id) THEN [call[e] EXCEPT !.disturbed = TRUE] ELSE call[e]]
    BY <1>5 DEF CreateFile
  <2>2. CASE d = c
    BY <1>5, <2>2
  <2>3. CASE d # c /\ d \in Uploading(id)
    BY <1>d, <2>1, <2>3 DEF Uploading, Working
  <2>4. CASE d # c /\ d \notin Uploading(id)
    BY <1>2, <2>1, <2>4
  <2> QED BY <2>2, <2>3, <2>4
<1>6. ASSUME NEW c \in Callers, AddMember(c) \/ RemoveMember(c) \/ RemoveFile(c) \/ ShareFile(c)
      PROVE  Goal
  <2>1. ASSUME NEW user, NEW id, NEW a, NEW b, BothKeys(c, user, id, a, b)
        PROVE  Goal
    <3> DEFINE mine == [Started("member", user, id, 2) EXCEPT !.todo = <<>>]
    <3>1. call' = [call EXCEPT ![c] = mine]
      BY <2>1 DEF BothKeys, Begin, Together
    <3>2. mine.op = "member"
      BY DEF Started
    <3> HIDE DEF mine
    <3> QED BY <1>3, <3>1, <3>2
  <2>2. ASSUME NEW user, NEW id, Begin(c, Started("remove", user, id, 1))
        PROVE  Goal
    <3>1. call' = [call EXCEPT ![c] = Started("remove", user, id, 1)]
      BY <2>2 DEF Begin
    <3>2. Started("remove", user, id, 1).op = "remove"
      BY DEF Started
    <3> QED BY <1>3, <3>1, <3>2
  <2>3. ASSUME NEW user, NEW id, Begin(c, [Started("share", user, id, 0) EXCEPT !.links = shares[id]])
        PROVE  Goal
    <3> DEFINE mine == [Started("share", user, id, 0) EXCEPT !.links = shares[id]]
    <3>1. call' = [call EXCEPT ![c] = mine]
      BY <2>3 DEF Begin
    <3>2. mine.op = "share"
      BY DEF Started
    <3> HIDE DEF mine
    <3> QED BY <1>3, <3>1, <3>2
  <2> HIDE DEF Goal
  <2> QED BY <1>6, <2>1, <2>2, <2>3 DEF AddMember, RemoveMember, RemoveFile, ShareFile
<1>7. ASSUME NEW c \in Callers, ChunkCall(c) PROVE Goal
  <2>1. CASE d = c
    BY <1>7, <2>1
  <2>2. CASE d # c
    <3>1. call'[d] = call[d]
      BY <1>1, <1>7, <2>2 DEF ChunkCall, ChunkDone
    <3> QED BY <1>2, <3>1
  <2> QED BY <2>1, <2>2
<1>8. ASSUME NEW c \in Callers, UploadReturns(c) \/ RemovalFails(c) \/ LinkMade(c) PROVE Goal
  BY <1>4, <1>8 DEF UploadReturns, RemovalFails, LinkMade
<1>9. ASSUME NEW c \in Callers, FileCreated(c) PROVE Goal
  <2>1. CASE d = c
    BY <1>9, <2>1
  <2>2. CASE d # c
    <3>1. call'[d] = call[d]
      BY <1>1, <1>9, <2>2 DEF FileCreated
    <3> QED BY <1>2, <3>1
  <2> QED BY <2>1, <2>2
<1>10. ASSUME NEW c \in Callers, call[c].op \in {"member", "remove"}, NEW todo, SendNext(c, todo)
       PROVE  Goal
  <2>1. call[c] \in Calls
    BY <1>10, CallOf
  <2>2. call' = [call EXCEPT ![c].wait = 1, ![c].todo = Tail(todo)]
    BY <1>10 DEF SendNext
  <2>3. CASE c = d
    BY <1>1, <1>10, <2>1, <2>2, <2>3 DEF Calls, Goes, Uploads
  <2>4. CASE c # d
    BY <1>1, <1>2, <2>2, <2>4
  <2> QED BY <2>3, <2>4
<1>11. ASSUME NEW c \in Callers, MemberDone(c) PROVE Goal
  BY <1>4, <1>10, <1>11 DEF MemberDone, HasAnswers
<1>12. ASSUME NEW c \in Callers, RemovalContinues(c) PROVE Goal
  <2>1. ASSUME NEW todo, call[c].op = "remove",
               call' = [call EXCEPT ![c].wait = 1, ![c].todo = Tail(todo), ![c].listed = TRUE]
        PROVE  Goal
    <3>1. call[c] \in Calls
      BY <2>1, CallOf
    <3>2. CASE c = d
      BY <1>1, <2>1, <3>1, <3>2 DEF Calls, Goes, Uploads
    <3>3. CASE c # d
      BY <1>1, <1>2, <2>1, <3>3
    <3> QED BY <3>2, <3>3
  <2>2. call[c].op = "remove"
    BY <1>12 DEF RemovalContinues, HasAnswers
  <2> QED BY <1>10, <1>12, <2>1, <2>2 DEF RemovalContinues
<1>13. ASSUME NEW c \in Callers, RemovalDone(c) PROVE Goal
  <2>1. call' = [e \in Callers |-> IF e = c THEN Idle
                  ELSE IF e \in Working(call[c].id) THEN [call[e] EXCEPT !.disturbed = TRUE] ELSE call[e]]
    BY <1>13 DEF RemovalDone
  <2>2. CASE d = c
    BY <1>1, <2>1, <2>2 DEF Goes, Uploads
  <2>3. CASE d # c /\ d \in Working(call[c].id)
    BY <1>d, <2>1, <2>3 DEF Working
  <2>4. CASE d # c /\ d \notin Working(call[c].id)
    BY <1>2, <2>1, <2>4
  <2> QED BY <2>2, <2>3, <2>4
<1>14. ASSUME Answered \/ Rejected PROVE Goal
  <2> DEFINE r == Head(requests)
             c == r.from
  <2>1. \/ call' = [call EXCEPT ![c].wait = @ - 1, ![c].ok = @ /\ AnswerTo(r).ok, ![c].keys = AnswerTo(r).keys]
        \/ call' = [call EXCEPT ![c].wait = @ - 1, ![c].ok = FALSE]
    BY <1>14 DEF Answered, Rejected, Handle, Reject
  <2>2. call[c] \in Calls /\ c \in Callers
    BY <1>14, RequestOfCall DEF Answered, Rejected, Handle, Reject
  <2> HIDE DEF c, r
  <2>3. CASE c = d
    <3>1. \A f \in {"op", "user", "id", "disturbed", "content", "left", "failed"} : call'[d][f] = call[d][f]
      BY <1>1, <2>1, <2>2, <2>3 DEF Calls
    <3>2. call[d] # Idle
      BY <2>2, <2>3, Called
    <3>3. /\ call'[d].op = call[d].op /\ call'[d].user = call[d].user /\ call'[d].id = call[d].id
          /\ call'[d].disturbed = call[d].disturbed /\ call'[d].content = call[d].content
          /\ call'[d].left = call[d].left /\ call'[d].failed = call[d].failed
      BY <3>1
    <3> QED BY <3>2, <3>3 DEF Goes, Uploads
  <2>4. CASE c # d
    BY <1>1, <1>2, <2>1, <2>4
  <2> QED BY <2>3, <2>4
<1>15. ASSUME UseLink \/ RemoveLink \/ TimePasses \/ RenameFile \/ Upgrade \/ UNCHANGED vars
       PROVE  Goal
  BY <1>2, <1>15 DEF UseLink, RemoveLink, TimePasses, RenameFile, Upgrade, vars
<1> HIDE DEF Goal
<1>16. Goal
  BY <1>5, <1>6, <1>7, <1>8, <1>9, <1>11, <1>12, <1>13, <1>14, <1>15 DEF AnyStep
<1> QED BY <1>16 DEF Goal

\* A new file of an id, or its removal, disturbs every other upload of it.
LEMMA Disturbs ==
  ASSUME Typed, NEW c \in Callers, NEW d \in Callers \ {c}, Uploads(d)', Goes(d)
  PROVE  /\ \A user, name, content :
              CreateFile(c, user, name, content) /\ call[d].id = NextFileId => call'[d].disturbed
         /\ RemovalDone(c) /\ call[d].id = call[c].id => call'[d].disturbed
<1>1. Uploads(d) /\ call[d] \in Calls
  BY CallOf DEF Goes, Uploads
<1>2. ASSUME NEW user, NEW name, NEW content, CreateFile(c, user, name, content), call[d].id = NextFileId
      PROVE  call'[d].disturbed
  <2>1. d \in Uploading(NextFileId)
    BY <1>1, <1>2 DEF Uploading, Working, Uploads
  <2>2. call'[d] = [call[d] EXCEPT !.disturbed = TRUE]
    BY <1>2, <2>1 DEF CreateFile
  <2> QED BY <1>1, <2>2 DEF Calls
<1>3. ASSUME RemovalDone(c), call[d].id = call[c].id
      PROVE  call'[d].disturbed
  <2>1. d \in Working(call[c].id)
    BY <1>1, <1>3 DEF Working, Uploads
  <2>2. call'[d] = [call[d] EXCEPT !.disturbed = TRUE]
    BY <1>3, <2>1 DEF RemovalDone
  <2> QED BY <1>1, <2>2 DEF Calls
<1> QED BY <1>2, <1>3

\* Names do not matter to uploads, and a renamed file keeps its blocks.
LEMMA LeavesTheOthers ==
  ASSUME Typed, FilesKept, UploadsKept, [AnyStep]_vars, NEW d \in Callers, Goes(d), Intact(d)'
  PROVE  Leaves(call[d].id)
<1> DEFINE id == call[d].id
<1>1. /\ Intact(d) /\ call[d].op = call'[d].op /\ call[d] \in Calls
      /\ ~ call'[d].disturbed /\ Uploads(d)'
  BY CallOf DEF Intact, Goes, Uploads
<1>2. CASE UNCHANGED <<files, pending>>
  BY <1>2 DEF Leaves
<1>3. ASSUME NEW c \in Callers, NEW user, NEW name, NEW content, CreateFile(c, user, name, content)
      PROVE  Leaves(id)
  <2>1. c # d
    BY <1>1, <1>3 DEF CreateFile, Intact, Uploads
  <2>2. id # NextFileId
    BY <1>1, <1>3, <2>1, Disturbs
  <2>3. files' = files /\ pending' = Put(pending, NextFileId, NewPending(user, name, content))
    BY <1>3 DEF CreateFile
  <2> HIDE DEF id
  <2> QED BY <2>2, <2>3 DEF Leaves, Put
<1>4. ASSUME NEW c \in Callers, ChunkCall(c), UNCHANGED <<files, pending>> => Leaves(id)
      PROVE  Leaves(id)
  <2>1. PICK n \in call[c].left, threw \in BOOLEAN :
          /\ ChunkDone(c, n, threw)
          /\ \/ PutChunk(call[c].user, call[c].id, n, call[c].content[n + 1])
             \/ UNCHANGED <<files, pending>>
    BY <1>4, ChunkCallIs
  <2> DEFINE at == call[c].id
             p == WithChunk(pending[at], n, call[c].content[n + 1])
  <2>2. \/ UNCHANGED <<files, pending>>
        \/ /\ at \in DOMAIN pending /\ pending[at].owner = call[c].user
           /\ \/ files' = Put(files, at, p) /\ pending' = Without(pending, at)
              \/ pending' = [pending EXCEPT ![at] = p] /\ files' = files
    BY <2>1, PutChunkIs
  <2> HIDE DEF p
  <2>3. ASSUME at \in DOMAIN pending, pending[at].owner = call[c].user, c # d
        PROVE  id # at
    <3>1. Uploads(c)
      BY <1>4, ChunkCallIs DEF Uploads
    <3>2. id = at => call[c].user # call[d].user
      BY <1>1, <2>3, <3>1 DEF UploadsKept, Apart, Intact
    <3>3. id = at => pending[at].owner = call[d].user
      <4> SUFFICES ASSUME id = at PROVE pending[id].owner = call[d].user
        OBVIOUS
      <4>1. UploadKept(d)
        BY DEF UploadsKept
      <4>2. CASE call[d].op = "chunks" /\ Arriving(d)
        BY <2>3, <4>2 DEF Arriving
      <4>3. CASE pending[id] = NewPending(call[d].user, pending[id].name, call[d].content)
        BY <4>3 DEF NewPending
      <4> QED BY <1>1, <4>1, <4>2, <4>3 DEF UploadKept
    <3> QED BY <2>3, <3>2, <3>3
  <2> HIDE DEF id, at
  <2>4. ASSUME id # at, files' = Put(files, at, p), pending' = Without(pending, at)
        PROVE  Leaves(id)
    BY <2>4 DEF Leaves, Put, Without
  <2>5. ASSUME id # at, pending' = [pending EXCEPT ![at] = p], files' = files
        PROVE  Leaves(id)
    BY <2>5 DEF Leaves
  <2>6. CASE c # d
    BY <1>4, <2>2, <2>3, <2>4, <2>5, <2>6
  <2>7. CASE c = d
    <3>1. call[d].op = "chunks" /\ call[d].left = call'[d].left
      BY <1>1, <1>4, <2>7, ChunkCallIs DEF Goes
    <3>2. call'[d].left = call[d].left \ {n}
      BY <2>1, <2>7, <1>1 DEF ChunkDone, Typed, CallsTyped, Calls
    <3> QED BY <2>1, <2>7, <3>1, <3>2
  <2> QED BY <2>6, <2>7
<1>5. ASSUME NEW c \in Callers, RemovalDone(c)
      PROVE  Leaves(id)
  <2>1. c # d
    BY <1>1, <1>5 DEF RemovalDone, HasAnswers, Intact, Uploads
  <2>2. id # call[c].id
    BY <1>1, <1>5, <2>1, Disturbs
  <2>3. files' = Without(files, call[c].id) /\ pending' = pending
    BY <1>5 DEF RemovalDone
  <2> HIDE DEF id
  <2> QED BY <2>2, <2>3 DEF Leaves, Without
<1>6. ASSUME RenameFile
      PROVE  Leaves(id)
  <2>1. PICK at \in DOMAIN files, name \in workload.names : files' = [files EXCEPT ![at].name = name]
    BY <1>6 DEF RenameFile
  <2>2. pending' = pending
    BY <1>6 DEF RenameFile
  <2>3. files'[at].chunks = files[at].chunks
    BY <2>1 DEF FilesKept, Entry
  <2> HIDE DEF id
  <2> QED BY <2>1, <2>2, <2>3 DEF Leaves
<1> QED BY <1>2, <1>3, <1>4, <1>5, <1>6, FileSteps

\* An upload that starts is one of a pending file without chunks.
LEMMA CreatedKept ==
  ASSUME Typed, FilesKept, NEW c \in Callers, NEW user \in Users, NEW name,
         NEW content \in Contents, CreateFile(c, user, name, content)
  PROVE  /\ UploadKept(c)'
         /\ call'[c].user = user /\ call'[c].id = NextFileId
         /\ ~ call'[c].disturbed => \A e \in Uploading(NextFileId) : call[e].user # user
<1> DEFINE id == NextFileId
           disturbed == \E e \in Uploading(id) : call[e].user = user
           mine == [Started("create", user, id, 2) EXCEPT !.content = content, !.disturbed = disturbed]
<1>1. /\ call'[c] = mine
      /\ pending' = Put(pending, id, NewPending(user, name, content))
  BY DEF CreateFile
<1>2. /\ mine.op = "create" /\ mine.user = user /\ mine.id = id /\ mine.content = content
      /\ mine.disturbed = disturbed
  BY DEF Started
<1> HIDE DEF mine, id
<1>3. id \in DOMAIN pending' /\ pending'[id] = NewPending(user, name, content)
  BY <1>1 DEF Put
<1>4. NewPending(user, name, content).name = name
  BY DEF NewPending
<1>5. UploadKept(c)'
  <2>1. call'[c].op = "create" /\ call'[c].id = id /\ call'[c].user = user /\ call'[c].content = content
    BY <1>1, <1>2
  <2>2. pending'[call'[c].id] = NewPending(call'[c].user, pending'[call'[c].id].name, call'[c].content)
    BY <1>3, <1>4, <2>1
  <2> QED BY <1>3, <2>1, <2>2 DEF UploadKept, NewPending
<1> QED BY <1>1, <1>2, <1>5 DEF id

\* An upload whose file was created has all its chunks left.
LEMMA FileCreatedKept ==
  ASSUME Typed, FilesKept, NEW c \in Callers, UploadKept(c), FileCreated(c)
  PROVE  /\ UploadKept(c)'
         /\ Uploads(c)' => /\ Uploads(c) /\ call'[c].user = call[c].user /\ call'[c].id = call[c].id
                           /\ call'[c].disturbed = call[c].disturbed
<1>1. /\ call[c].op = "create" /\ call[c] # Idle /\ call[c] \in Calls
      /\ call'[c] = PutChunks(c) \/ call'[c] = Idle
      /\ UNCHANGED <<files, pending>>
  BY CallOf DEF FileCreated, HasAnswers, Typed, CallsTyped, canister
<1>2. CASE call'[c] = Idle
  BY <1>1, <1>2 DEF UploadKept, Intact, Uploads
<1>3. CASE call'[c] = PutChunks(c)
  <2> DEFINE content == call[c].content
             id == call[c].id
  <2>1. /\ call'[c].op = "chunks" /\ call'[c].left = 0 .. Len(content) - 1
        /\ call'[c].user = call[c].user /\ call'[c].id = id /\ call'[c].content = content
        /\ call'[c].disturbed = call[c].disturbed /\ call'[c].failed = call[c].failed
    BY <1>1, <1>3 DEF PutChunks, Calls
  <2>2. ASSUME Intact(c)'
        PROVE  call'[c].left \subseteq 0 .. Len(call'[c].content) - 1 /\ Arriving(c)'
    <3>1. Intact(c)
      BY <1>1, <2>1, <2>2 DEF Intact, Uploads
    <3>2. /\ id \in DOMAIN pending
          /\ pending[id] = NewPending(call[c].user, pending[id].name, content)
      BY <1>1, <3>1 DEF UploadKept
    <3>3. /\ pending[id].owner = call[c].user /\ pending[id].declared = content
          /\ pending[id].chunks = <<>>
      BY <3>2 DEF NewPending
    <3>4. DOMAIN pending[id].chunks = {}
      BY <3>3
    <3>5. 0 .. Len(content) - 1 # {}
      <4>1. Len(content) \in Nat /\ Len(content) # 0
        BY <1>1, <3>1 DEF Calls, Intact
      <4> QED BY <4>1
    <3> HIDE DEF content, id
    <3>6. Arriving(c)'
      BY <1>1, <2>1, <3>2, <3>3, <3>4, <3>5 DEF Arriving
    <3> QED BY <2>1, <3>6
  <2> QED BY <1>1, <2>1, <2>2 DEF UploadKept, Uploads
<1> QED BY <1>1, <1>2, <1>3

\* An intact upload whose chunk is answered has that chunk stored.
LEMMA ChunkKept ==
  ASSUME Typed, FilesKept, NEW c \in Callers, UploadKept(c), ChunkCall(c)
  PROVE  /\ UploadKept(c)'
         /\ Uploads(c) /\ call'[c].user = call[c].user /\ call'[c].id = call[c].id
         /\ call'[c].disturbed = call[c].disturbed
<1> DEFINE content == call[c].content
           id == call[c].id
           left == call[c].left
<1>1. /\ call[c].op = "chunks" /\ call[c] # Idle /\ call[c] \in Calls
      /\ content \in Seq(STRING) /\ call \in [Callers -> {Idle} \cup Calls]
  BY CallOf, ChunkCallIs DEF Calls, Typed, CallsTyped
<1>2. PICK n \in left, threw \in BOOLEAN :
        /\ ChunkDone(c, n, threw)
        /\ \/ PutChunk(call[c].user, id, n, content[n + 1])
           \/ UNCHANGED <<files, pending>> /\ threw
  BY ChunkCallIs
<1>3. /\ call'[c] # Idle
      /\ call'[c].op = "chunks" /\ call'[c].user = call[c].user /\ call'[c].id = id
      /\ call'[c].disturbed = call[c].disturbed /\ call'[c].content = content
      /\ call'[c].left = left \ {n} /\ call'[c].failed = (call[c].failed \/ threw)
  <2>1. call'[c] = [call[c] EXCEPT !.left = left \ {n}, !.failed = call[c].failed \/ threw]
    BY <1>1, <1>2 DEF ChunkDone
  <2>2. call'[c].op = "chunks"
    BY <1>1, <2>1 DEF Calls
  <2> QED BY <1>1, <2>1, <2>2, Called DEF Calls
<1>4. ASSUME Intact(c)'
      PROVE  left \ {n} \subseteq 0 .. Len(content) - 1 /\ Arriving(c)'
  <2>1. Intact(c) /\ ~ threw /\ PutChunk(call[c].user, id, n, content[n + 1])
    BY <1>1, <1>2, <1>3, <1>4 DEF Intact, Uploads
  <2>2. left \subseteq 0 .. Len(content) - 1 /\ Arriving(c)
    BY <1>1, <2>1 DEF UploadKept
  <2>3. /\ id \in DOMAIN pending
        /\ pending[id].owner = call[c].user /\ pending[id].declared = content
        /\ DOMAIN pending[id].chunks = (0 .. Len(content) - 1) \ left
        /\ \A m \in DOMAIN pending[id].chunks : pending[id].chunks[m] = content[m + 1]
    BY <1>2, <2>2 DEF Arriving
  <2> DEFINE p == pending[id]
             q == WithChunk(p, n, content[n + 1])
  <2>4. Entry(p)
    BY <2>3 DEF FilesKept
  <2>a. /\ p.owner = call[c].user /\ p.declared = content
        /\ DOMAIN p.chunks = (0 .. Len(content) - 1) \ left
        /\ \A m \in DOMAIN p.chunks : p.chunks[m] = content[m + 1]
        /\ left \in SUBSET (0 .. Len(content) - 1) /\ n \in left
    BY <1>2, <2>2, <2>3
  <2> HIDE DEF p, content, left
  <2>5. /\ n \notin DOMAIN p.chunks
        /\ q.owner = p.owner /\ q.declared = content
        /\ DOMAIN q.chunks = (0 .. Len(content) - 1) \ (left \ {n})
        /\ \A m \in DOMAIN q.chunks : q.chunks[m] = content[m + 1]
        /\ Complete(q) <=> left \ {n} = {}
        /\ Acceptable(q)
    <3>a. content \in Seq(STRING) /\ q = WithChunk(p, n, content[n + 1])
      BY <1>1
    <3> HIDE DEF q
    <3> DEFINE size == Len(content)
    <3>1. /\ q.owner = p.owner /\ q.declared = content
          /\ q.chunks = Put(p.chunks, n, content[n + 1])
      BY <2>4, <2>a, <3>a, ChunkEntry
    <3>2. size \in Nat /\ n \in 0 .. size - 1
      BY <2>a, <3>a
    <3>3. DOMAIN q.chunks = DOMAIN p.chunks \cup {n}
      BY <3>1 DEF Put
    <3>4. DOMAIN q.chunks = (0 .. size - 1) \ (left \ {n})
      BY <2>a, <3>2, <3>3
    <3>5. \A m \in DOMAIN q.chunks : q.chunks[m] = content[m + 1]
      BY <2>a, <3>1 DEF Put
    <3>6. Complete(q) <=> left \ {n} = {}
      <4>1. left \ {n} \in SUBSET (0 .. size - 1)
        BY <2>a
      <4>2. Cardinality((0 .. size - 1) \ (left \ {n})) = size <=> left \ {n} = {}
        BY <3>2, <4>1, ChunkCount
      <4> QED BY <3>1, <3>4, <4>2 DEF Complete
    <3>7. Acceptable(q)
      <4> SUFFICES ASSUME Complete(q)
                   PROVE  Indexes(q) \subseteq DOMAIN q.chunks /\ Assembled(q) = q.declared
        BY DEF Acceptable
      <4>1. DOMAIN q.chunks = 0 .. size - 1
        BY <3>4, <3>6
      <4>2. Cardinality(DOMAIN q.chunks) = size
        BY <3>1 DEF Complete
      <4>3. Assembled(q) = [i \in 1 .. size |-> q.chunks[i - 1]]
        BY <4>2 DEF Assembled
      <4>4. content = [i \in 1 .. size |-> content[i]]
        BY <3>a
      <4>5. \A i \in 1 .. size : q.chunks[i - 1] = content[i]
        <5> TAKE i \in 1 .. size
        <5>1. i - 1 \in 0 .. size - 1 /\ (i - 1) + 1 = i
          BY <3>2
        <5> QED BY <3>5, <4>1, <5>1
      <4>6. [i \in 1 .. size |-> q.chunks[i - 1]] = [i \in 1 .. size |-> content[i]]
        BY <4>5
      <4> QED BY <3>1, <4>1, <4>2, <4>3, <4>4, <4>6 DEF Indexes
    <3>8. n \notin DOMAIN p.chunks
      BY <2>a
    <3> QED BY <3>1, <3>4, <3>5, <3>6, <3>7, <3>8
  <2>6. IF Complete(q) THEN files' = Put(files, id, q) /\ pending' = Without(pending, id)
        ELSE pending' = [pending EXCEPT ![id] = q] /\ UNCHANGED files
    BY <2>1, <2>3, <2>5 DEF PutChunk, Finished, p
  <2> HIDE DEF q, id
  <2>7. CASE left \ {n} = {}
    <3>1. id \in DOMAIN files' /\ files'[id] = q /\ id \notin DOMAIN pending'
      BY <2>5, <2>6, <2>7 DEF Put, Without
    <3>2. DOMAIN q.chunks = 0 .. Len(content) - 1
      BY <2>5, <2>7
    <3>3. Arriving(c)'
      BY <1>3, <2>5, <2>7, <3>1, <3>2 DEF Arriving
    <3> QED BY <2>7, <3>3
  <2>8. CASE left \ {n} # {}
    <3>1. id \in DOMAIN pending' /\ pending'[id] = q
      BY <2>3, <2>5, <2>6, <2>8 DEF p
    <3>2. Arriving(c)'
      BY <1>3, <2>3, <2>5, <2>8, <3>1 DEF Arriving, p
    <3> QED BY <2>2, <3>2
  <2> QED BY <2>7, <2>8
<1>5. UploadKept(c)'
  BY <1>3, <1>4 DEF UploadKept
<1> QED BY <1>1, <1>3, <1>5 DEF Uploads

\* A new file leaves the other uploads alone, or disturbs them.
LEMMA CreateGoes ==
  ASSUME Typed, NEW c \in Callers, NEW d \in Callers \ {c}, NEW user, NEW name, NEW content,
         CreateFile(c, user, name, content)
  PROVE  Goes(d)
<1>1. call'[d] = IF d \in Uploading(NextFileId) THEN [call[d] EXCEPT !.disturbed = TRUE] ELSE call[d]
  BY DEF CreateFile
<1>2. CASE d \in Uploading(NextFileId)
  <2>1. call[d] \in Calls /\ call[d] # Idle
    BY <1>2, CallOf DEF Uploading, Working
  <2> QED BY <1>1, <1>2, <2>1 DEF Goes, Uploads, Calls
<1>3. CASE d \notin Uploading(NextFileId)
  BY <1>1, <1>3 DEF Goes, Uploads
<1> QED BY <1>2, <1>3

\* Every step keeps the uploads.
LEMMA UploadsStay ==
  ASSUME Typed, FilesKept, UploadsKept, [AnyStep]_vars
  PROVE  UploadsKept'
<1>1. ASSUME NEW d \in Callers
      PROVE  UploadKept(d)'
  <2>1. UploadKept(d)
    BY DEF UploadsKept
  <2>2. CASE Goes(d)
    <3>1. Intact(d)' => Leaves(call[d].id)
      BY <2>2, LeavesTheOthers
    <3> QED BY <2>1, <2>2, <3>1, UploadGoesOn
  <2>3. CASE ~ Goes(d)
    BY <2>1, <2>3, UploadSteps, CreatedKept, ChunkKept, FileCreatedKept
  <2> QED BY <2>2, <2>3
<1>2. ASSUME NEW c \in Callers, NEW d \in Callers \ {c}
      PROVE  Apart(c, d)'
  <2>1. Apart(c, d)
    BY DEF UploadsKept
  <2> DEFINE Same(e) == Uploads(e)' => /\ Uploads(e) /\ call'[e].user = call[e].user /\ call'[e].id = call[e].id
                                       /\ ~ call'[e].disturbed => ~ call[e].disturbed
             New(e) == \E user \in Users, content \in Contents : \E name :
                         CreateFile(e, user, name, content)
  <2>2. ASSUME NEW e \in Callers, ~ New(e)
        PROVE  Same(e)
    <3>1. UploadKept(e)
      BY DEF UploadsKept
    <3> QED BY <2>2, <3>1, UploadSteps, ChunkKept, FileCreatedKept DEF Goes
  <2>3. CASE ~ New(c) /\ ~ New(d)
    BY <2>1, <2>2, <2>3, StayApart
  <2>4. ASSUME NEW e \in Callers, NEW f \in Callers \ {e}, New(e), Uploads(f)'
        PROVE  /\ Goes(f) /\ Uploads(f) /\ call'[f].id = call[f].id /\ call'[f].user = call[f].user
               /\ call'[e].id = NextFileId
               /\ call[f].id = NextFileId =>
                    call'[f].disturbed /\ (~ call'[e].disturbed => call'[f].user # call'[e].user)
    <3>1. PICK user \in Users, content \in Contents : \E name :
                 CreateFile(e, user, name, content)
      BY <2>4
    <3>2. PICK name : CreateFile(e, user, name, content)
      BY <3>1
    <3>3. Goes(f)
      BY <3>2, CreateGoes
    <3>4. Uploads(f) /\ call'[f].id = call[f].id /\ call'[f].user = call[f].user
      BY <2>4, <3>3 DEF Goes
    <3>5. call[f].id = NextFileId => f \in Uploading(NextFileId) /\ call'[f].disturbed
      BY <2>4, <3>2, <3>3, <3>4, Disturbs DEF Uploading, Working, Uploads
    <3>6. /\ call'[e].user = user /\ call'[e].id = NextFileId
          /\ ~ call'[e].disturbed => \A g \in Uploading(NextFileId) : call[g].user # user
      BY <3>2, CreatedKept
    <3> QED BY <3>3, <3>4, <3>5, <3>6
  <2> HIDE DEF New
  <2>5. CASE New(c)
    BY <2>4, <2>5 DEF Apart
  <2>6. CASE New(d)
    BY <2>4, <2>6 DEF Apart
  <2> QED BY <2>3, <2>5, <2>6
<1> QED BY <1>1, <1>2 DEF UploadsKept

\* An upload the SDK reports as done is stored, if nothing came between its calls.
LEMMA ReportedStored ==
  ASSUME Typed, FilesKept, UploadsKept, [AnyStep]_vars, NEW c \in Callers,
         call[c] # Idle, call[c].op = "chunks", ~ call[c].failed, ~ call[c].disturbed,
         call[c].left = {}, call[c].content # <<>>, call'[c] = Idle
  PROVE  /\ call[c].id \in DOMAIN files'
         /\ LET blocks == files'[call[c].id].chunks
            IN  \A n \in 1 .. Len(call[c].content) :
                  n - 1 \in DOMAIN blocks /\ blocks[n - 1] = call[c].content[n]
<1> DEFINE id == call[c].id
           content == call[c].content
<1>1. /\ id \in DOMAIN files /\ DOMAIN files[id].chunks = 0 .. Len(content) - 1
      /\ \A n \in DOMAIN files[id].chunks : files[id].chunks[n] = content[n + 1]
  <2>1. UploadKept(c) /\ Intact(c)
    BY DEF UploadsKept, Intact, Uploads
  <2>2. Arriving(c)
    BY <2>1 DEF UploadKept
  <2> QED BY <2>2 DEF Arriving
<1>2. content \in Seq(STRING) /\ call \in [Callers -> {Idle} \cup Calls]
  BY CallOf DEF Calls, Typed, CallsTyped
<1>3. files' = files
  <2>1. ASSUME NEW d \in Callers, ChunkCall(d) \/ RemovalDone(d)
        PROVE  FALSE
    <3>1. CASE RemovalDone(d)
      <4>1. d # c /\ call'[c] = IF c \in Working(call[d].id) THEN [call[c] EXCEPT !.disturbed = TRUE]
                                ELSE call[c]
        BY <3>1 DEF RemovalDone, HasAnswers
      <4>2. call'[c].op = "chunks"
        BY <4>1, CallOf DEF Calls
      <4> QED BY <4>2, Called
    <3>2. CASE ChunkCall(d)
      <4>1. PICK n \in call[d].left, threw \in BOOLEAN : ChunkDone(d, n, threw)
        BY <3>2, ChunkCallIs
      <4>2. d # c
        BY <4>1
      <4>3. call'[c] = call[c]
        BY <1>2, <4>1, <4>2 DEF ChunkDone
      <4> QED BY <4>3
    <3> QED BY <2>1, <3>1, <3>2
  <2>2. ASSUME RenameFile
        PROVE  FALSE
    BY <2>2 DEF RenameFile
  <2>3. ASSUME NEW d, NEW user, NEW name, NEW stored, CreateFile(d, user, name, stored)
        PROVE  files' = files
    BY <2>3 DEF CreateFile
  <2> QED BY <2>1, <2>2, <2>3, FileSteps
<1>4. \A n \in 1 .. Len(content) : n - 1 \in 0 .. Len(content) - 1 /\ (n - 1) + 1 = n
  BY <1>2
<1> QED BY <1>1, <1>3, <1>4

-----------------------------------------------------------------------------
\* Theorems.

IInv == Typed /\ FilesKept /\ LinksKept /\ UploadsKept

\* The invariant holds at first.
LEMMA InitiallyKept ==
  ASSUME Init
  PROVE  IInv
<1>1. /\ workload \in Workloads /\ files = <<>> /\ pending = <<>> /\ shares = [id \in Ids |-> {}]
      /\ permissionsKnown = TRUE /\ late = FALSE /\ call = [c \in Callers |-> Idle]
      /\ issued = {} /\ gapped = FALSE /\ torn = {}
      /\ trie = EmptyTrie /\ requests = <<>>
  BY DEF Init, PermissionsInit
<1>2. DOMAIN files = {} /\ DOMAIN pending = {} /\ IsFiniteSet({})
  BY <1>1, FS_EmptySet
<1>3. Idle.op = "none"
  BY Called
<1>4. CallsTyped
  <2>1. requests \in Seq(Requests)
    BY <1>1
  <2>2. \A c \in Callers : From(requests, c) = {}
    BY <1>1 DEF From
  <2>3. \A c \in Callers : WaitOf(c) = 0
    BY <1>1 DEF WaitOf
  <2> QED BY <1>1, <2>1, <2>2, <2>3 DEF CallsTyped, Awaited
<1>5. Owned
  BY <1>1, <1>3 DEF Owned
<1>6. RestTyped
  <2>1. DOMAIN trie = {<<>>} /\ trie[<<>>] = NoValue
    BY <1>1 DEF EmptyTrie
  <2>2. IsFiniteSet({<<>>}) /\ {<<>>} \subseteq Keys
    <3>1. <<>> \in Keys
      BY DEF Keys
    <3> QED BY <3>1, FS_Singleton
  <2> QED BY <1>1, <2>1, <2>2 DEF RestTyped
<1>7. FilesKept
  <2>1. Cardinality({}) = 0
    BY FS_EmptySet
  <2>2. Gapless(files)
    BY <1>2, <2>1 DEF Gapless
  <2> QED BY <1>2, <2>2 DEF FilesKept
<1>8. LinksKept /\ UploadsKept
  BY <1>1 DEF LinksKept, UploadsKept, UploadKept, Intact, Uploads, Apart
<1> QED BY <1>1, <1>4, <1>5, <1>6, <1>7, <1>8 DEF IInv, Typed

\* Every step keeps the invariant.
LEMMA Kept ==
  ASSUME IInv, [AnyStep]_vars
  PROVE  IInv'
BY StaysTyped, FilesStay, LinksStay, UploadsStay DEF IInv

\* The invariant holds of every state of the canister: calls and requests match, files are whole,
\* links are those that were made, and the chunks of intact uploads arrive.
THEOREM Invariance == Spec => []IInv
<1>1. Init => IInv
  BY InitiallyKept
<1>2. IInv /\ [Next]_vars => IInv'
  BY Kept, NextIsAny DEF IInv
<1> QED BY <1>1, <1>2, PTL DEF Spec

\* A call that waits for n answers made n requests that are not answered.
LEMMA AwaitedCounts ==
  ASSUME NEW c, NEW n, Awaited(requests, c, n)
  PROVE  n = Cardinality(From(requests, c))
<1>1. CASE n = 0 /\ From(requests, c) = {}
  BY <1>1, FS_EmptySet
<1>2. CASE n = 1 /\ \E i \in 1 .. Len(requests) : From(requests, c) = {i}
  BY <1>2, FS_Singleton
<1>3. CASE n = 2 /\ \E i, j \in 1 .. Len(requests) : i # j /\ From(requests, c) = {i, j}
  <2>1. PICK i, j \in 1 .. Len(requests) : i # j /\ From(requests, c) = {i, j}
    BY <1>3
  <2>2. IsFiniteSet({i}) /\ Cardinality({i}) = 1
    BY FS_Singleton
  <2>3. From(requests, c) = {i} \cup {j} /\ j \notin {i}
    BY <2>1
  <2>4. Cardinality({i} \cup {j}) = Cardinality({i}) + 1
    BY <2>2, <2>3, FS_AddElement
  <2> QED BY <1>3, <2>2, <2>3, <2>4
<1> QED BY <1>1, <1>2, <1>3 DEF Awaited

\* The invariant says of what kind the values of the variables are, and what calls wait for.
LEMMA KeptIsTyped ==
  ASSUME IInv
  PROVE  TypeOK
<1>1. /\ permissionsKnown \in BOOLEAN /\ late \in BOOLEAN /\ gapped \in BOOLEAN
      /\ torn \subseteq Ids /\ issued \subseteq Tokens
      /\ \A path \in DOMAIN trie : trie[path] \in {NoValue, "Owner", "Editor", "Viewer"}
  BY DEF IInv, Typed, RestTyped, Roles
<1>2. /\ DOMAIN shares = Ids
      /\ \A id \in Ids : \A link \in shares[id] :
           link.token \in issued /\ link.limit \in Limits /\ link.expires \in BOOLEAN /\ link.uses \in Nat
  BY DEF IInv, Typed, RestTyped, Links, LinksKept
<1>3. /\ DOMAIN files \cup DOMAIN pending \subseteq Ids
      /\ \A id \in DOMAIN files : files[id].owner \in Users /\ files[id].declared \in Contents
      /\ \A id \in DOMAIN pending : pending[id].owner \in Users /\ pending[id].declared \in Contents
  BY DEF IInv, FilesKept, Entry
<1>4. requests \in Seq(Requests) /\ \A c \in Callers : Awaited(requests, c, WaitOf(c))
  BY DEF IInv, Typed, CallsTyped
<1>5. ASSUME NEW i \in DOMAIN requests
      PROVE  /\ requests[i].method \in {"set", "delete", "subkeys"}
             /\ requests[i].from \in Callers /\ call[requests[i].from] # Idle
  <2>1. requests[i] \in Requests /\ i \in 1 .. Len(requests)
    BY <1>4
  <2>2. requests[i].method \in {"set", "delete", "subkeys"} /\ requests[i].from \in Callers
    BY <2>1 DEF Requests
  <2>3. call[requests[i].from] # Idle
    BY <2>1, <2>2, NothingAwaited DEF From, IInv
  <2> QED BY <2>2, <2>3
<1>6. ASSUME NEW c \in Callers, call[c] # Idle
      PROVE  call[c].user \in Users /\ call[c].id \in Ids /\ call[c].wait = Cardinality(Asked(c))
  <2>1. call[c].user \in Users /\ call[c].id \in Ids
    BY <1>6, CallOf DEF IInv, Calls
  <2>2. Asked(c) = From(requests, c)
    BY <1>4 DEF Asked, From
  <2>3. Awaited(requests, c, call[c].wait)
    BY <1>4, <1>6 DEF WaitOf
  <2> QED BY <2>1, <2>2, <2>3, AwaitedCounts
<1> QED BY <1>1, <1>2, <1>3, <1>5, <1>6 DEF TypeOK

\* Files, links, roles and calls have values of their kind, and every call waits for exactly the
\* answers to its requests, whatever the clients do (join! in create_file, add_member and
\* remove_member, the loop of remove_file).
THEOREM TypesHold == Spec => []TypeOK
BY KeptIsTyped, Invariance, PTL

\* What is stored is what was announced, however uploads of one id interleave and whatever
\* order their chunks arrive in (put_chunk of the storage canister).
THEOREM FilesAreIntact == Spec => []StoredFilesIntact
<1>1. IInv => StoredFilesIntact
  BY StoredIs DEF IInv, StoredFilesIntact
<1> QED BY <1>1, Invariance, PTL

\* While no removal has left a gap in the ids, no upload takes the place of a stored file
\* (create_file numbers the files by their count).
THEOREM NothingIsReplaced == Spec => NothingReplacedWithoutGap
<1>1. ASSUME IInv, [Next]_vars
      PROVE  \A id \in DOMAIN files : ~ gapped /\ id \in DOMAIN files' =>
               [files'[id] EXCEPT !.name = files[id].name] = files[id]
  BY <1>1, NothingReplaced, NextIsAny DEF IInv
<1>2. IInv /\ [Next]_vars =>
        [\A id \in DOMAIN files : ~ gapped /\ id \in DOMAIN files' =>
           [files'[id] EXCEPT !.name = files[id].name] = files[id]]_vars
  BY <1>1
<1> QED BY <1>2, Invariance, PTL DEF Spec, NothingReplacedWithoutGap

\* An upload that StorageDriver.create reports as done, and that met neither another upload of its
\* id by the same user nor a removal, is stored with every block in its place.
THEOREM ReportsAreTrue == Spec => ReportedUploadsStored
<1> DEFINE Step == \A c \in Callers :
       /\ call[c] # Idle /\ call[c].op = "chunks" /\ ~ call[c].failed /\ ~ call[c].disturbed
       /\ call[c].left = {} /\ call[c].content # <<>> /\ call'[c] = Idle
       => /\ call[c].id \in DOMAIN files'
          /\ LET blocks == files'[call[c].id].chunks
             IN  \A n \in 1 .. Len(call[c].content) :
                   n - 1 \in DOMAIN blocks /\ blocks[n - 1] = call[c].content[n]
<1>1. ASSUME IInv, [Next]_vars
      PROVE  Step
  BY <1>1, ReportedStored, NextIsAny DEF IInv
<1> HIDE DEF Step
<1>2. IInv /\ [Next]_vars => [Step]_vars
  BY <1>1
<1> QED BY <1>2, Invariance, PTL DEF Spec, ReportedUploadsStored, Step

\* A link that was removed does not come back, no use of it is forgotten and none is beyond its
\* limit, though share_file reads the links after a wait.
THEOREM LinksAge == Spec => LinksOnlyAge
<1> DEFINE Step == \A id \in Ids, token \in issued :
       LET old == LinkNamed(shares[id], token)
           new == LinkNamed(shares'[id], token)
       IN  /\ old = NoLink => new = NoLink
           /\ old # NoLink /\ new # NoLink => new.uses >= old.uses
           /\ new # NoLink /\ new.limit # 0 => new.uses <= new.limit
<1>1. ASSUME IInv, [Next]_vars
      PROVE  Step
  BY <1>1, AgeStep, NextIsAny DEF IInv
<1> HIDE DEF Step
<1>2. IInv /\ [Next]_vars => [Step]_vars
  BY <1>1
<1> QED BY <1>2, Invariance, PTL DEF Spec, LinksOnlyAge, Step

-----------------------------------------------------------------------------
\* Uploads alone.

\* A step of the canister when its clients only upload, as those that use it through the SDK do.
UploadStep ==
  \/ \E c \in Callers :
       \/ \E user \in Users, content \in Contents : \E name : CreateFile(c, user, name, content)
       \/ ChunkCall(c) \/ UploadReturns(c) \/ FileCreated(c)
  \/ Answered \/ Rejected

\* All that is pending has the id the next file gets.
UploadsOnly ==
  /\ ~ gapped /\ DOMAIN pending \subseteq {NextId(files)}
  /\ \A c \in Callers : call[c] # Idle => call[c].op \in {"create", "chunks"}

\* A step of an upload is one of the steps the invariant was proved for.
LEMMA UploadStepIsAny == [UploadStep]_vars => [AnyStep]_vars
BY DEF UploadStep, AnyStep

\* While there are only uploads, every file stays as it is.
LEMMA UploadsOnlyStay ==
  ASSUME IInv, UploadsOnly, [UploadStep]_vars
  PROVE  /\ UploadsOnly'
         /\ \A id \in DOMAIN files : id \in DOMAIN files' /\ files'[id] = files[id]
<1>1. [AnyStep]_vars
  BY UploadStepIsAny
<1>2. Gapless(files) /\ IsFiniteSet(DOMAIN files)
  BY DEF IInv, FilesKept, UploadsOnly
<1>3. NextId(files) \in Nat /\ DOMAIN files = 0 .. NextId(files) - 1
  BY <1>2, FS_CardinalityType DEF Gapless, NextId
<1>4. ASSUME NEW c \in Callers, NEW user \in Users, NEW content \in Contents, NEW name,
             CreateFile(c, user, name, content)
      PROVE  UploadsOnly'
  <2>1. /\ files' = files /\ gapped' = gapped
        /\ pending' = Put(pending, NextId(files), NewPending(user, name, content))
    BY <1>4 DEF CreateFile, NextFileId
  <2>2. NextId(files') = NextId(files)
    BY <2>1
  <2>3. DOMAIN pending' \subseteq {NextId(files)}
    BY <2>1 DEF Put, UploadsOnly
  <2>4. \A d \in Callers : call'[d] # Idle => call'[d].op \in {"create", "chunks"}
    <3> TAKE d \in Callers
    <3> DEFINE id == NextFileId
               mine == [Started("create", user, id, 2) EXCEPT !.content = content,
                          !.disturbed = \E e \in Uploading(id) : call[e].user = user]
    <3>1. call'[d] = IF d = c THEN mine
                     ELSE IF d \in Uploading(id) THEN [call[d] EXCEPT !.disturbed = TRUE]
                     ELSE call[d]
      BY <1>4 DEF CreateFile
    <3>2. mine.op = "create"
      BY Zenon DEF Started
    <3> HIDE DEF mine
    <3>3. [call[d] EXCEPT !.disturbed = TRUE].op = call[d].op \/ call[d] = Idle
      BY CallOf DEF Calls, IInv
    <3>4. d \in Uploading(id) => call[d] # Idle
      BY DEF Uploading, Working
    <3> QED BY <3>1, <3>2, <3>3, <3>4 DEF UploadsOnly
  <2> QED BY <2>1, <2>2, <2>3, <2>4 DEF UploadsOnly
<1>5. ASSUME NEW c \in Callers, ChunkCall(c)
      PROVE  /\ UploadsOnly'
             /\ \A id \in DOMAIN files : id \in DOMAIN files' /\ files'[id] = files[id]
  <2>1. PICK n \in call[c].left, threw \in BOOLEAN :
          /\ ChunkDone(c, n, threw)
          /\ \/ PutChunk(call[c].user, call[c].id, n, call[c].content[n + 1])
             \/ UNCHANGED <<files, pending>>
    BY <1>5, ChunkCallIs
  <2> DEFINE p == WithChunk(pending[call[c].id], n, call[c].content[n + 1])
             at == call[c].id
  <2>2. \/ UNCHANGED <<files, pending>>
        \/ /\ at \in DOMAIN pending
           /\ \/ files' = Put(files, at, p) /\ pending' = Without(pending, at)
              \/ pending' = [pending EXCEPT ![at] = p] /\ files' = files
    BY <2>1, PutChunkIs DEF IInv
  <2>3. NoteGap
    BY <1>5, ChunkCallIs
  <2> HIDE DEF p, at
  <2>4. \A d \in Callers : call'[d] # Idle => call'[d].op \in {"create", "chunks"}
    <3> TAKE d \in Callers
    <3>1. call \in [Callers -> {Idle} \cup Calls] /\ call[c] # Idle /\ call[c].op = "chunks"
      BY <1>5, ChunkCallIs DEF IInv, Typed, CallsTyped
    <3>2. call[c] \in Calls
      BY <3>1
    <3>3. CASE d = c
      <4>1. call'[c].op = call[c].op
        BY <2>1, <3>1, <3>2 DEF ChunkDone, Calls
      <4> QED BY <3>1, <3>3, <4>1
    <3>4. CASE d # c
      <4>1. call'[d] = call[d]
        BY <2>1, <3>1, <3>4 DEF ChunkDone
      <4> QED BY <4>1 DEF UploadsOnly
    <3> QED BY <3>3, <3>4
  <2>5. CASE UNCHANGED <<files, pending>>
    <3>1. ~ gapped'
      BY <1>2, <2>3, <2>5 DEF NoteGap, Gapless, UploadsOnly
    <3> QED BY <2>4, <2>5, <3>1 DEF UploadsOnly, NextId
  <2>6. CASE at \in DOMAIN pending /\ pending' = [pending EXCEPT ![at] = p] /\ files' = files
    <3>1. ~ gapped'
      BY <1>2, <2>3, <2>6 DEF NoteGap, Gapless, UploadsOnly
    <3>2. DOMAIN pending' = DOMAIN pending
      BY <2>6
    <3> QED BY <2>4, <2>6, <3>1, <3>2 DEF UploadsOnly, NextId
  <2>7. CASE at \in DOMAIN pending /\ files' = Put(files, at, p) /\ pending' = Without(pending, at)
    <3>1. at = NextId(files) /\ at \notin DOMAIN files
      BY <1>3, <2>7 DEF UploadsOnly
    <3>2. /\ DOMAIN files' = DOMAIN files \cup {at}
          /\ \A id \in DOMAIN files : files'[id] = files[id]
      BY <2>7, <3>1 DEF Put
    <3>3. DOMAIN files' = 0 .. at
      BY <1>3, <3>1, <3>2
    <3>4. Cardinality(DOMAIN files') = at + 1
      BY <1>2, <1>3, <3>1, <3>2, FS_AddElement DEF NextId
    <3>7. DOMAIN files' = 0 .. Cardinality(DOMAIN files') - 1
      BY <1>3, <3>1, <3>3, <3>4
    <3>5. ~ gapped'
      BY <2>3, <3>7, Zenon DEF NoteGap, UploadsOnly
    <3>6. DOMAIN pending' = {}
      BY <2>7, <3>1 DEF Without, UploadsOnly
    <3> QED BY <2>4, <3>2, <3>5, <3>6 DEF UploadsOnly
  <2> QED BY <2>2, <2>5, <2>6, <2>7
<1>6. ASSUME \/ \E c \in Callers : UploadReturns(c) \/ FileCreated(c)
             \/ Answered \/ Rejected \/ UNCHANGED vars
      PROVE  /\ UNCHANGED <<files, pending, gapped>>
             /\ \A d \in Callers : call'[d] # Idle => call'[d].op \in {"create", "chunks"}
  <2>1. UNCHANGED <<files, pending, gapped>>
    BY <1>6 DEF UploadReturns, FileCreated, Answered, Rejected, vars, canister
  <2>2. call \in [Callers -> {Idle} \cup Calls]
    BY DEF IInv, Typed, CallsTyped
  <2>3. ASSUME NEW c \in Callers, UploadReturns(c) \/ FileCreated(c), NEW d \in Callers, call'[d] # Idle
        PROVE  call'[d].op \in {"create", "chunks"}
    <3>1. \/ call' = [call EXCEPT ![c] = Idle]
          \/ call[c] # Idle /\ call' = [call EXCEPT ![c] = PutChunks(c)]
      BY <2>3 DEF UploadReturns, FileCreated, HasAnswers
    <3>2. call[c] # Idle => PutChunks(c).op = "chunks"
      BY CallOf DEF PutChunks, Calls, IInv
    <3>3. d # c => call'[d] = call[d]
      BY <2>2, <3>1
    <3>4. d = c => call'[d] = PutChunks(c) /\ call[c] # Idle
      BY <2>2, <2>3, <3>1
    <3> QED BY <2>3, <3>2, <3>3, <3>4 DEF UploadsOnly
  <2>4. ASSUME Answered \/ Rejected, NEW d \in Callers, call'[d] # Idle
        PROVE  call'[d].op \in {"create", "chunks"}
    <3> DEFINE r == Head(requests)
               c == r.from
    <3>1. \/ call' = [call EXCEPT ![c].wait = @ - 1, ![c].ok = @ /\ AnswerTo(r).ok, ![c].keys = AnswerTo(r).keys]
          \/ call' = [call EXCEPT ![c].wait = @ - 1, ![c].ok = FALSE]
      BY <2>4 DEF Answered, Rejected, Handle, Reject
    <3>2. call[c] \in Calls /\ c \in Callers
      BY <2>4, RequestOfCall DEF Answered, Rejected, Handle, Reject, IInv
    <3> HIDE DEF c, r
    <3>3. CASE d = c
      <4>1. call'[d].op = call[d].op
        BY <2>2, <3>1, <3>2, <3>3 DEF Calls
      <4>2. call[d] # Idle
        BY <3>2, <3>3, Called
      <4> QED BY <4>1, <4>2 DEF UploadsOnly
    <3>4. CASE d # c
      <4>1. call'[d] = call[d]
        BY <2>2, <3>1, <3>4
      <4> QED BY <2>4, <4>1 DEF UploadsOnly
    <3> QED BY <3>3, <3>4
  <2> QED BY <1>6, <2>1, <2>3, <2>4 DEF vars, UploadsOnly
<1>7. ASSUME UNCHANGED <<files, pending, gapped>>,
             \A d \in Callers : call'[d] # Idle => call'[d].op \in {"create", "chunks"}
      PROVE  UploadsOnly'
  BY <1>7 DEF UploadsOnly, NextId
<1>8. ASSUME NEW c \in Callers, NEW user \in Users, NEW content \in Contents, NEW name,
             CreateFile(c, user, name, content)
      PROVE  files' = files
  BY <1>8 DEF CreateFile
<1> QED BY <1>4, <1>5, <1>6, <1>7, <1>8 DEF UploadStep

\* A reported upload is stored as what it announced.
LEMMA ReportedIs ==
  ASSUME IInv, NEW c \in Callers,
         call[c] # Idle, call[c].op = "chunks", ~ call[c].failed, ~ call[c].disturbed,
         call[c].left = {}, call[c].content # <<>>
  PROVE  call[c].id \in DOMAIN files /\ files[call[c].id].declared = call[c].content
<1> DEFINE id == call[c].id
           content == call[c].content
<1>1. /\ id \in DOMAIN files /\ DOMAIN files[id].chunks = 0 .. Len(content) - 1
      /\ \A n \in DOMAIN files[id].chunks : files[id].chunks[n] = content[n + 1]
  <2>1. UploadKept(c) /\ Intact(c)
    BY DEF UploadsKept, Intact, Uploads, IInv
  <2>2. Arriving(c)
    BY <2>1 DEF UploadKept
  <2> QED BY <2>2 DEF Arriving
<1>2. content \in Seq(STRING)
  BY CallOf DEF Calls, IInv
<1>3. Assembled(files[id]) = files[id].declared
  BY <1>1, StoredIs DEF IInv
<1>4. Cardinality(DOMAIN files[id].chunks) = Len(content)
  <2>1. Len(content) \in Nat
    BY <1>2
  <2>2. Cardinality(0 .. Len(content) - 1) = Len(content)
    <3>1. PICK n \in Nat : n = Len(content)
      BY <2>1
    <3>2. Cardinality(0 .. n - 1) = n
      BY FS_Interval
    <3> QED BY <3>1, <3>2
  <2> QED BY <1>1, <2>2
<1>5. Assembled(files[id]) = [i \in 1 .. Len(content) |-> content[i]]
  <2>1. Assembled(files[id]) = [i \in 1 .. Len(content) |-> files[id].chunks[i - 1]]
    BY <1>4 DEF Assembled
  <2>2. \A i \in 1 .. Len(content) : files[id].chunks[i - 1] = content[i]
    BY <1>1, <1>2
  <2> QED BY <2>1, <2>2
<1>6. content = [i \in 1 .. Len(content) |-> content[i]]
  BY <1>2
<1> QED BY <1>1, <1>3, <1>5, <1>6

\* What a call is about does not change.
Same(d) ==
  /\ call'[d] = Idle <=> call[d] = Idle
  /\ call[d] # Idle => /\ call'[d].content = call[d].content /\ call'[d].id = call[d].id
                       /\ call'[d].disturbed = call[d].disturbed

\* A call that did not change is the same call after the step.
LEMMA SameCall == \A d \in Callers : call'[d] = call[d] => Same(d)
BY DEF Same

\* Chunks and answers leave the calls as they are in that.
LEMMA CallsGoOn ==
  ASSUME IInv, (\E c \in Callers : ChunkCall(c)) \/ Answered \/ Rejected
  PROVE  \A d \in Callers : Same(d)
<1>1. call \in [Callers -> {Idle} \cup Calls]
  BY DEF IInv, Typed, CallsTyped
<1>2. ASSUME NEW c \in Callers, ChunkCall(c), NEW d \in Callers PROVE Same(d)
  <2>1. PICK n, threw : ChunkDone(c, n, threw) /\ call[c] # Idle
    BY <1>2, ChunkCallIs
  <2>2. CASE d # c
    BY <1>1, <2>1, <2>2 DEF ChunkDone, Same
  <2>3. CASE d = c
    <3>1. call[c] \in Calls
      BY <1>1, <2>1
    <3>2. /\ call'[c].op = call[c].op /\ call'[c].content = call[c].content
          /\ call'[c].id = call[c].id /\ call'[c].disturbed = call[c].disturbed
      BY <1>1, <2>1, <3>1 DEF ChunkDone, Calls
    <3>3. call'[c] # Idle
      BY <3>1, <3>2, Called
    <3> QED BY <2>1, <2>3, <3>2, <3>3 DEF Same
  <2> QED BY <2>2, <2>3
<1>3. ASSUME Answered \/ Rejected, NEW d \in Callers PROVE Same(d)
  <2> DEFINE r == Head(requests)
             c == r.from
  <2>1. \/ call' = [call EXCEPT ![c].wait = @ - 1, ![c].ok = @ /\ AnswerTo(r).ok, ![c].keys = AnswerTo(r).keys]
        \/ call' = [call EXCEPT ![c].wait = @ - 1, ![c].ok = FALSE]
    BY <1>3 DEF Answered, Rejected, Handle, Reject
  <2>2. call[c] \in Calls /\ c \in Callers
    BY <1>3, RequestOfCall DEF Answered, Rejected, Handle, Reject, IInv
  <2> HIDE DEF c, r
  <2>3. CASE d = c
    <3>1. /\ call'[c].op = call[c].op /\ call'[c].content = call[c].content
          /\ call'[c].id = call[c].id /\ call'[c].disturbed = call[c].disturbed
      BY <1>1, <2>1, <2>2 DEF Calls
    <3>2. call'[c] # Idle /\ call[c] # Idle
      BY <2>2, <3>1, Called
    <3> QED BY <2>3, <3>1, <3>2 DEF Same
  <2>4. CASE d # c
    BY <1>1, <2>1, <2>4 DEF Same
  <2> QED BY <2>3, <2>4
<1> QED BY <1>2, <1>3

\* A call that ends, or goes on with its chunks.
LEMMA CallEnds ==
  ASSUME IInv, NEW c \in Callers, FileCreated(c) \/ UploadReturns(c)
  PROVE  /\ \A d \in Callers \ {c} : call'[d] = call[d]
         /\ call[c] # Idle /\ (call'[c] = Idle \/ Same(c))
         /\ UploadReturns(c) => call'[c] = Idle /\ call[c].op = "chunks" /\ call[c].left = {}
         /\ FileCreated(c) => call[c].op = "create"
<1>1. call \in [Callers -> {Idle} \cup Calls]
  BY DEF IInv, Typed, CallsTyped
<1>2. call[c] \in Calls /\ call[c] # Idle
  BY <1>1 DEF FileCreated, UploadReturns, HasAnswers
<1>3. \/ call' = [call EXCEPT ![c] = Idle]
      \/ call' = [call EXCEPT ![c] = PutChunks(c)]
  BY DEF FileCreated, UploadReturns
<1>4. /\ PutChunks(c).op = "chunks" /\ PutChunks(c).content = call[c].content
      /\ PutChunks(c).id = call[c].id /\ PutChunks(c).disturbed = call[c].disturbed
  BY <1>2 DEF PutChunks, Calls
<1>5. PutChunks(c) # Idle
  BY <1>4, Called
<1>6. \A d \in Callers \ {c} : call'[d] = call[d]
  BY <1>1, <1>3
<1>7. call'[c] = Idle \/ call'[c] = PutChunks(c)
  BY <1>1, <1>3
<1>8. call'[c] = Idle \/ Same(c)
  BY <1>2, <1>4, <1>5, <1>7 DEF Same
<1>9. UploadReturns(c) => call'[c] = Idle /\ call[c].op = "chunks" /\ call[c].left = {}
  BY <1>1 DEF UploadReturns, HasAnswers
<1>10. FileCreated(c) => call[c].op = "create"
  BY DEF FileCreated, HasAnswers
<1> QED BY <1>2, <1>6, <1>8, <1>9, <1>10

\* A call that starts, and what it does to those that work on the same id.
LEMMA CallStarts ==
  ASSUME IInv, NEW c \in Callers, NEW user, NEW name, NEW content, CreateFile(c, user, name, content)
  PROVE  /\ call[c] = Idle /\ call'[c] # Idle /\ call'[c].content = content
         /\ call'[c].id = NextId(files)
         /\ call'[c].disturbed => \E e \in Callers \ {c} : call[e] # Idle /\ call[e].id = call'[c].id
         /\ \A d \in Callers \ {c} :
              /\ call'[d] = Idle <=> call[d] = Idle
              /\ call[d] # Idle =>
                   /\ call'[d].content = call[d].content /\ call'[d].id = call[d].id
                   /\ call'[d].disturbed => call[d].disturbed \/ call[d].id = call'[c].id
<1> DEFINE id == NextFileId
           disturbed == \E e \in Uploading(id) : call[e].user = user
           mine == [Started("create", user, id, 2) EXCEPT !.content = content, !.disturbed = disturbed]
<1>1. call \in [Callers -> {Idle} \cup Calls] /\ call[c] = Idle
  BY DEF IInv, Typed, CallsTyped, CreateFile
<1>2. call' = [d \in Callers |->
       IF d = c THEN mine
       ELSE IF d \in Uploading(id) THEN [call[d] EXCEPT !.disturbed = TRUE]
       ELSE call[d]]
  BY DEF CreateFile
<1>3. mine.op = "create" /\ mine.content = content /\ mine.id = id /\ mine.disturbed = disturbed
  BY Zenon DEF Started
<1>4. disturbed => \E e \in Callers \ {c} : call[e] # Idle /\ call[e].id = id
  BY <1>1 DEF Uploading, Working
<1> HIDE DEF mine, disturbed
<1>5. mine # Idle
  BY <1>3, Called
<1>6. call'[c] = mine /\ id = NextId(files)
  BY <1>2 DEF NextFileId
<1>7. ASSUME NEW d \in Callers \ {c}
      PROVE  /\ call'[d] = Idle <=> call[d] = Idle
             /\ call[d] # Idle =>
                   /\ call'[d].content = call[d].content /\ call'[d].id = call[d].id
                   /\ call'[d].disturbed => call[d].disturbed \/ call[d].id = id
  <2>1. CASE d \in Uploading(id)
    <3>1. call[d] # Idle /\ call[d].id = id /\ call[d] \in Calls
      BY <1>1, <2>1 DEF Uploading, Working
    <3>2. call'[d] = [call[d] EXCEPT !.disturbed = TRUE]
      BY <1>2, <2>1
    <3>3. /\ call'[d].op = call[d].op /\ call'[d].content = call[d].content /\ call'[d].id = call[d].id
      BY <3>1, <3>2 DEF Calls
    <3>4. call'[d] # Idle
      BY <3>1, <3>3, Called
    <3> QED BY <3>1, <3>3, <3>4
  <2>2. CASE d \notin Uploading(id)
    <3>1. call'[d] = call[d]
      BY <1>2, <2>2
    <3> QED BY <3>1
  <2> QED BY <2>1, <2>2
<1> QED BY <1>1, <1>3, <1>4, <1>5, <1>6, <1>7

\* The next file gets an id of its own.
LEMMA NextIsFresh ==
  ASSUME IInv, UploadsOnly
  PROVE  NextId(files) \notin DOMAIN files
<1>1. Gapless(files) /\ IsFiniteSet(DOMAIN files)
  BY DEF IInv, FilesKept, UploadsOnly
<1>2. NextId(files) \in Nat /\ DOMAIN files = 0 .. NextId(files) - 1
  BY <1>1, FS_CardinalityType DEF Gapless, NextId
<1> QED BY <1>2

\* What an entry was announced as.
Label(p) == <<p.name, p.declared>>

\* A call that does not create a file brings no new entry: what is stored was pending.
LEMMA EntriesGoOn ==
  ASSUME IInv,
         \/ \E c \in Callers : ChunkCall(c) \/ UploadReturns(c) \/ FileCreated(c)
         \/ Answered \/ Rejected
         \/ UNCHANGED vars
  PROVE  /\ \A id \in DOMAIN pending' : id \in DOMAIN pending /\ Label(pending'[id]) = Label(pending[id])
         /\ \A id \in DOMAIN files' :
              \/ id \in DOMAIN files /\ files'[id] = files[id]
              \/ id \in DOMAIN pending /\ Label(files'[id]) = Label(pending[id])
<1>1. ASSUME NEW c \in Callers, ChunkCall(c), ~ UNCHANGED <<files, pending>>
      PROVE  /\ \A id \in DOMAIN pending' : id \in DOMAIN pending /\ Label(pending'[id]) = Label(pending[id])
             /\ \A id \in DOMAIN files' :
                  \/ id \in DOMAIN files /\ files'[id] = files[id]
                  \/ id \in DOMAIN pending /\ Label(files'[id]) = Label(pending[id])
  <2>1. PICK n : PutChunk(call[c].user, call[c].id, n, call[c].content[n + 1])
    BY <1>1, ChunkCallIs
  <2>2. PICK user, id, block : PutChunk(user, id, n, block)
    BY <2>1
  <2>3. PICK p : p = WithChunk(pending[id], n, block)
    OBVIOUS
  <2>4. /\ id \in DOMAIN pending /\ Entry(p)
        /\ \/ files' = Put(files, id, p) /\ pending' = Without(pending, id)
           \/ pending' = [pending EXCEPT ![id] = p] /\ files' = files
    <3>1. FilesKept
      BY DEF IInv
    <3> QED BY <1>1, <2>2, <2>3, <3>1, PutChunkIs
  <2>5. Label(p) = Label(pending[id])
    <3>1. Entry(pending[id])
      BY <2>4 DEF IInv, FilesKept
    <3> QED BY <2>3, <3>1 DEF WithChunk, Label, Entry
  <2>6. CASE files' = Put(files, id, p) /\ pending' = Without(pending, id)
    BY <2>4, <2>5, <2>6 DEF Put, Without
  <2>7. CASE pending' = [pending EXCEPT ![id] = p] /\ files' = files
    BY <2>4, <2>5, <2>7
  <2> QED BY <2>4, <2>6, <2>7
<1>2. CASE UNCHANGED <<files, pending>>
  BY <1>2
<1>3. ASSUME NEW c \in Callers, UploadReturns(c) \/ FileCreated(c) PROVE UNCHANGED <<files, pending>>
  BY <1>3 DEF UploadReturns, FileCreated, canister
<1>4. ASSUME Answered \/ Rejected \/ UNCHANGED vars PROVE UNCHANGED <<files, pending>>
  BY <1>4 DEF Answered, Rejected, canister, vars
<1> QED BY <1>1, <1>2, <1>3, <1>4

================================================================================
