# A verification of the KBC shipment platform

TLA+ models of the parts of this repository whose correctness depends on more than one step: the escrow that holds the
down payment of a shipment, the canister that moves shipments through their phases, keeps orders, registries and
sessions and drives the escrow, the storage canister with its permissions, and the demo script of the SDK that uses all
of them. TLC checks them on small instances; TLAPS proves the safety properties that hold for instances of any size.

## The system

| Part | State | Operations | Talks to |
|---|---|---|---|
| `DownPayment.sol` | payers and their deposits, locked, released and refunded amounts, fees, administrators | deposit, withdraw, lockFunds, releaseFunds, refundFunds, fee updates, administrators | the ERC-20 token |
| `DownPaymentManager.sol` | counter, escrows by number and by shipment, default fees | registerDownPayment, fee updates that loop over the escrows | deploys and administers every `DownPayment` |
| `ShipmentService.ts` | one record per shipment: documents and their verdicts, sample/details/quality verdicts, price, funds status, address of the escrow | creation, details, evaluations, documents, determineDownPaymentAddress, depositFunds, lockFunds, unlockFunds | manager and escrow through `rpc.ts`; created by the order service |
| `rpc.ts`, `ecdsa.ts` | the account of the canister on the chain (its nonce lives on the chain) | eth_call, eth_getTransactionCount, eth_sendRawTransaction, threshold signing | the EVM RPC canister |
| `OrderService.ts` | orders, signatures, the shipment of an order | create, update, sign (the last signature creates the shipment), delete | shipment and material services |
| registries (categories, materials, offers, asset operations, standards) | maps keyed by a running number, lists of ids by company or sector | create, update, delete | each other |
| `CertificationService.ts` | certificates in lists per kind and subject, a record per certificate | register, update, evaluate | registries, enumerations |
| `AuthenticationService.ts`, `DelegationService.ts`, decorators | a session per principal | authenticate, logout, role and party guards | provider of identities |
| organizations, business relations, enumerations | maps, sets and lists of values by sector | create, update, remove | authentication |
| permission canister (Rust) | a trie from paths to roles | set, get, delete, list of subkeys | called by the storage canister |
| storage canister (Rust) | files, pending files with their chunks, share links | create_file, put_chunk, members, remove, rename, share | permission canister |
| SDK (`src/src`) | none of its own | conversions, calls of the canisters, concurrent upload and download of chunks, documents kept in two canisters, the demo script | canisters and contracts |

What is hard about it:

- On the Internet Computer a handler runs alone up to its next `await`. There its effects are committed and other
  handlers run; `StableBTreeMap.get` returned a *copy*, and handlers insert that copy at their end. Every handler that
  talks to the chain can therefore overwrite what others did meanwhile; the last signature of an order is such a handler.
- The canister waits for a transaction to be *sent*, not mined. It may revert, be replaced or be refused for its nonce
  while the record already says that it happened. Replies get lost.
- All shipments share the one account of the canister and its nonce, which is read as the number of *mined*
  transactions.
- In the contract, deposits, releases and refunds reduce different counters, shares are percentages rounded down, and
  the array of payers is maintained by swap-and-pop.
- Numbers given as the length of a map collide after deletions and across awaits (orders, shipments, registries, files).
- Files arrive in chunks, concurrently, under an id that another upload may have too; a member's role is kept in two
  places by two calls to another canister; the id of that canister does not survive an upgrade.
- The SDK makes calls concurrently and goes on with the others when one throws. A document is a file in one canister
  and a record with its URL in another, written by separate calls; what was sent in one unit may be read in another.

`PROJECT.json` lists each of these at the line where it bites, with the properties that cover it.

What makes each part correct: the escrow stays solvent, keeps its books, creates no tokens, offers only what it can pay
and freezes its terms while funds are locked; a shipment's record is always one that its phases allow, it only advances,
approvals are final, and money moves only after the approvals it depends on; an order's signatures are of its terms and
a confirmed order stands, with a shipment of its own; who acts for a company proved it; numbers identify one entry and
lists name what exists; a stored file is what was announced and both halves of a role agree; the demo ends, and
completes when nothing disturbs it.

## Modules

| Module | What it is |
|---|---|
| `Tally` | the total of a ledger, as a cardinality, so that no recursion is needed and the finite-set theorems apply |
| `Escrow` | abstract: a pot of tokens, a part of it locked; what the contract promises |
| `DownPayment` | the contract: one action per external function, reverts are disabled actions |
| `ShipmentRecord` | a shipment's record and, for each handler, what it does to the copy it read |
| `Evm` | the canister's account and the chain: nonce, pending transaction, mining, faults; the shipment's escrow is `Escrow` |
| `Shipment` | the handlers cut at their awaits, composed from the two |
| `Trie`, `Permissions` | the tree of roles, and the canister that keeps it with the calls on their way to it |
| `Storage` | the storage canister, the uploads of the SDK, composed with `Permissions` |
| `Documents` | documents of shipments and certificates, kept by the SDK as files of `Storage` and URLs |
| `Entities` | the conversions between the SDK's entities and the records of the canister |
| `Registry` | maps numbered by their length |
| `Sessions`, `Organizations`, `Enumerations`, `Standards`, `Catalogue`, `Certificates`, `Orders` | one service or group of services each, in the order in which they read each other's state |
| `Manager` | `DownPaymentManager.sol` |
| `Platform` | all services and the manager in one behaviour |
| `PopulateDemo` | the demo script, and the SDK services it uses, as a sequence of groups of calls |
| `Demo` | the script running against `Platform`, `ShipmentRecord` and `Storage` |
| `MCDownPayment`, `MCShipment`, `MCStorage`, `MCPlatform`, `MCDemo` | instances |
| `DownPaymentProofs`, `ShipmentProofs`, `PlatformProofs`, `StorageProofs`, `DocumentsProofs`, `EntitiesProofs` | theorems about each part |
| `DemoProofs`, `AgreementProofs` | theorems about the script with all parts |

### The contract

`DownPayment` keeps the variables of the contract under their names. A transaction is atomic, so a function is one
action; its `require`s and the underflow checks of Solidity 0.8 are its guards. The token is two ledgers: `custody`, what
the contract holds, and `balanceOf`, everybody else. The payer's allowance is not limited: only its balance is. The
loop of `refundFunds` reads nothing that it changes except the locked amount, so its effect is the sum over the payers:
`RefundShare` and `RefundFees` count an account once per entry in the array, and the check that the locked amount never
underflows half-way is the guard on the sum. The accounts are those other than the contract and the zero address.

`_releasableAmount` and `_totalRefundableAmount` are never written and are left out, as is the duration, which no
operation depends on. Amounts are naturals: `MaxDeposited` stands for the supply of the token, far below 2^256, and the
products in the code (an amount times 100) do not overflow.

`DownPayment` implements `Escrow` under the mapping *held* = `getBalance`, *locked* = the locked amount, *paid* = released
plus refunded. `Shipment` uses `Escrow`, not the contract: what the canister depends on is checked here once.

### The shipment

`ShipmentRecord` has one operator per handler on the record `r` it read and the record `s` it inserts. `Shipment` turns
the handlers without an `await` into one action each (`Details`, `SampleVerdict`, `DetailsVerdict`, `QualityVerdict`,
`Upload`, `Reupload`, `DocumentVerdict`), and the others into a first step that checks and suspends the call with its
copy (`DetermineDownPaymentAddress`, `DepositFunds`, `LockFunds`, `UnlockFunds`, `ReleasingVerdict`) and one step per
answer (`AddressAnswered`, `LockedAnswered`, `DepositedAnswered`, `NonceAnswered`, `SendAnswered`, or `AwaitFails`). The
last one inserts the copy.

- `Init` is the state just after `createShipment` inserted the record: its registration was sent, and is pending or got
  lost. `createShipment` itself is in `Orders`.
- The awaits of the public key, the signature and the caller's address change nothing another handler sees and are
  merged with the await that follows.
- A nonce is only compared with the next one to be mined: `current` holds the calls whose nonce is that one. Mining
  empties it. Since the nonce is the number of mined transactions, at most one transaction of the account can be
  pending.
- A handler that inserts the record unchanged (`unlockFunds` when it does not release) is a stutter and left out.
- A document has the URL it was uploaded under, which `addDocument` and `updateDocument` write and no handler reads
  (`Urls` has one where only the record is of interest; `Documents` and `Demo` give it those of the SDK). The fields of
  the details other than the price are left out; the price decides what is locked.
- Which role may call a handler is decided by the decorators and does not depend on the state modelled here, except that
  the party matters for documents (uploader and judge), where both are modelled. `Demo` has the guards.
- `Faults` names what the environment may do besides failing any await: *lost reply* (sent, but the reply is an
  error), *replaced* (a transaction with the same nonce replaces the pending one), *no gas* (`InsufficientFunds`, which
  the code takes for success), *shared account* (another shipment's transaction uses the nonce).
- `peak` and `stale` are history variables: the furthest phase reached, and the calls whose copy is out of date. No guard
  reads them.

### Storage and permissions

`Trie` has one operator per method of the tree: a node is the path that leads to it. `Permissions` is the canister with
the queue of requests to it; between two canisters requests are delivered in order, each is answered, and one may be
rejected by the system, upon which the client of the storage canister traps (`Rejected`). `Storage` cuts each handler at
its calls: `CreateFile` makes both calls before it waits and ends in `FileCreated`; `AddMember` and `RemoveMember` end in
`MemberDone`; `RemoveFile` goes on in `RemovalContinues` for each key it has to delete and ends in `RemovalDone` or
`RemovalFails`; `ShareFile` waits for randomness and ends in `LinkMade`; `RenameFile` asks nobody. An upload is a client of the SDK: after
`FileCreated` it puts all its chunks (`ChunkCall`), in any order and among those of others, and `UploadReturns`. An answer
may be lost; an `Err` is an answer, as it is for the SDK.

- A file is the blocks of its content, one block per chunk, and its hash is the content. That two contents have one hash
  does not happen.
- The guards of the storage canister are commented out in the source, so that everyone may call everything.
- `Upgrade` forgets the id of the permission canister. A canister is stopped, and its calls finished, before.
- A link's expiry is one bit (`late`), its token one that was not issued before.
- `gapped` and `torn` are history: the ids had a gap; a removal overlapped with other calls on the file, or failed
  half-way. They bound what two properties claim, and no guard reads them.
- `workload` chooses at the start which methods the clients of a behaviour use.

`Documents` extends `Storage`. A client is in one operation at a time: `todo` are its calls left (uploads, the record of
the URL, reads), which the operations of the two SDK services put together (`AddDocument`, `RegisterCompanyCertificate`,
`UpdateDocument`, `GetDocument`, ...). The record of the shipment is that of `ShipmentRecord`; of a certificate the URL
and the filename are kept. A read takes the first file of a name (`ListFiles`), asks for all its chunks at once
(`GetFileChunk`) and puts together what came back (`ReadReturns`).

- A URL is the kind of the document, a stem and an extension. The metadata's URL is the document's with its extension
  replaced: files that differ in the extension only share their metadata.
- A caller asks for a document it saw in the record. `retrieveDocument` (`RetrieveDocument`) reads the record again when
  it is called and searches it for the id through all types (`Holding`): its break leaves the inner loop only, so that
  the last type that has the id wins (`DocumentInfo`). Ids of different types do collide. The URL is the one found then,
  and both files are read under it, whatever the record says later.
- `updateDocument` of a shipment points a document to any URL (`Redirected`), where no file need be.
- `updateDocument` of a certificate compares what the user calls the file (`filename`) with the recorded filename, while
  the URL is made of another argument (`resourceSpec.name`): a file of the same filename is not uploaded and its content
  is dropped, one of another may get a URL that is in use. Of two files with one URL the one with the lower id is read,
  mostly the older; the newer is not shown and no property says that it is.
- The metadata are stood for by the document's type. All documents are of one order and one company. The limits on the
  concurrency of the pool (20 up, 10 down) are larger than the number of blocks and left out.
- `given` is history: the contents given under each URL and the document each was for, URLs pointed to included. So are
  `astray` (another file took the id while it was read) and `mistaken` (a document of another type had the id as well).

`Entities` has what the drivers send and the builders read, as operators without state: a variant is a record with one
field, a date its `getTime()`. `Demo` sends and reads through it what the script depends on: the deadlines of the orders,
the phase, the documents of the shipment by type.

### The services

A handler of the canister without an await is one step, which is what the modules from `Sessions` to `Certificates`
consist of, apart from `authenticate`: `Authenticate` reads the time and waits, `AddressAnswered` checks the proof and
makes the session. In `Orders`, the last signature (`SignOrder`) takes the number of the next shipment and suspends with
its copy of the order in `signing`; `RegistrationAnswered` inserts both, or nothing when sending threw. `Platform`
composes them with `Manager` by interleaving: `OnlyIn` says that a step of one service leaves the variables of the
others alone.

- Each controller is an operator (`OrderController`, ...) with the decorators of its methods as guards, for any caller.
- A proof is who made each of its signatures: a signature over other data recovers another signer. The check for
  revocation is commented out in the code.
- Terms of an order are its parties, its deadline (for the four), its lines, and one value for what is only stored.
  `NoChanges` compares the columns of the lines, each sorted, as the code does.
- A certificate's dates and notes are checked for their form only and left out.
- The industrial sector of an organization matters only through the values listed for it. A sector the canister does not
  know has none: `"OTHER"`.
- An escrow of `Manager` is its fees and whether it has something locked; `EscrowUsed` toggles that. A call that
  reverts, its own or one it makes in a loop, changes nothing and is a disabled action.
- `scenario` is fixed at the start: which controllers are used, what is already recorded, who is logged in, and which
  proofs and terms are used as inputs. It is how one run covers twelve of them without their product.
- Any editor may change or delete the data of another organization (`OrganizationController.ts:67-100`); they are reduced
  to the sector here, and `OwnersDecide` claims nothing of them, only to whom a company shows itself.
- History, which no guard reads: `attempts` (who presented what and when), `gapped` (registries whose ids had a gap),
  `overlapped` and `contested` (orders two waiting calls were about, shipment ids two waiting calls took), `orphaned`
  (operations another company deleted), `missed` (escrows with something locked during a fee update).

### The demo

`PopulateDemo` translates `scripts/populate-demo.ts`: `Main` is the sequence of what the script awaits, and each member a
call or, for `Promise.all`, several threads of calls. `Demo` executes it. A call is handled by the action of the canister
it goes to, under its decorators (`Handled`); it is refused exactly when that is not possible (`RefusedCall`). The calls
that wait inside the canister (`authenticate`, the last signature, uploads) are cut as in their modules. The first error
ends the script; threads under way go on. Uploads are those of an instance of `Storage`, whose slots are the threads.
Every file has the name the code gives it: the script uploads one sample under one `transactions` URL for all documents
of the order (`DocumentUrl`), and their metadata under the one `-metadata.json` that goes with it (`MetadataUrl`), so
that the storage canister has several files of each name and a reader of any of the documents finds the metadata of the
one with the lowest id. The record keeps the URL.

- *losses*: a call or its answer gets lost, and it throws.
- *time*: sessions expire while the script runs.
- *app*: the exporter signs the other order of the script by hand at the same time (`SignedElsewhere`).
- `shared` is history: file ids two uploads of the script worked on.

## Runs

| Run | Instance | Shows |
|---|---|---|
| `dp_accounts` | two payers (100 and 80 tokens), amounts 60 and 70, fee 10 plus 5 % | type, solvency, payers, books, conservation, offers, refunds |
| `dp_terms` | amounts 50 and 100, base fee 0 or 60, percentage 100 or a refused 101, two administrators | frozen terms, refinement of `Escrow` |
| `dp_residue` | as `dp_accounts` | violated: a refund of everything locked leaves nothing locked |
| `shipment_funds` | two calls, lost replies and replaced transactions, one required document in phase 4 | stages in order, money after approval, phases advance |
| `shipment_turns` | one call, every fault but lost replies, prices 0 and 1, a generic document, both verdicts | type, the price is locked or paid once |
| `shipment_documents` | two parties, a sample in phase 1, a note in phase 2, a generic document, both verdicts | one document per type, approvals stand |
| `shipment_stale` | one call, no fault | violated: an approval is final |
| `shipment_lock` | one call, no fault | violated: a shipment that says LOCKED has its price locked |
| `shipment_review` | as `shipment_documents` | violated: nobody approves its own document |
| `storage` | two users, two calls, uploads or operations at a time, contents of one and two blocks, thirteen workloads | stored files are what was announced, roles are mirrored, nothing replaced without a gap, reported uploads are stored, links only age, readers see what was uploaded for the document they asked for |
| `platform` | two companies with a user each, twelve scenarios | sessions rest on genuine proofs, owners decide, lists and records agree, signatures match terms, confirmed orders stand with a shipment of their own, fees reach escrows |
| `demo` | the whole script; three threads; undisturbed, with losses and expiring sessions, beside a user, or without the standards of `populate.sh` | it ends; undisturbed, it completes; steps in their phases; documents and metadata are stored under the recorded URLs; approvals stand |

### Bounds

Contract. Amounts 60 and 70 of 130 give 46 % and 53 %, so that the roundings matter; two payers are the smallest number
with a swap in the array, and each can withdraw everything and come back. The fees of `dp_terms` reach the case where
fees eat the whole payment.

Shipment. In `shipment_funds` two calls are the smallest number that race; every handler that awaits can be either of
them, at any await, and the environment may interfere between any two steps. A transaction of another shipment does to a
call what one of the second call does, so that the shared account is left to `shipment_turns`; so is a transaction
refused for lack of gas, since one refused for its nonce ends the same way. Phases 1 to 3 require no document there,
since a document's only effect on them is to delay them, while the one of phase 4 lets the verdict that releases the
funds happen. `Cap`, the bound on the escrow, admits one deposit of the price. In `shipment_documents` three types make
the numbering collide (the number of types uploaded so far).

Storage. Two calls overlap in every order of their steps. A content of two blocks and one of one are the smallest whose
chunks can mix under one id and add up. Two ids let a gap appear and be filled. One rejected call, at any point, tears a
pair. `MaxUses` is above the limit of a link. The workloads pair the methods that touch the same state: uploads
with uploads, uploads with removals, members with removals, members with a rejected call, uploads and members around an
upgrade, removals with a rejected call and an upgrade, links. Links are
kept by id and never read files or roles. Six workloads are of `Documents`, under two names that differ in their
extension: two operations at a time on documents and a certificate; four in a row on a shipment, which is the number
where an invoice, a generic document and the invoice again make two documents share an id, and one of them is read; three
in a row on a certificate of each kind, among them an update with the same or another filename and URL; and a certificate
with renaming, with other uploads, and with removals. Where contents are of one block, chunks are not what the workload is
about.

Platform. Two entries per registry (`MaxEntries`, `MaxOrders`, `MaxShipments`, `MaxCertificates`, `MaxEscrows`) are the
smallest number where a removal leaves a gap and the next entry takes an id in use; three standards listed per sector
(`MaxListed`) let a standard be shared by two sectors and be removed from one. Two waiting calls (`Slots`) overlap. Times
up to `Horizon` 2, with sessions of 2, contain the moments before, at and after each expiry. Two attempts of
authentication (`MaxAttempts`) overlap; the proofs are genuine, expired on either side, or signed or issued by somebody
else. `PercentageFees` has a fee that is refused. Where `OwnersDecide` could break (`Presentations`, `Trading`,
`Certifying`, `Recertifying`) both users may act and log out, so that one acts while the other's company has no session;
without the party guard, the uploader guard or the expiry of sessions the run fails. `Describing` has categories that
change under materials and a user who may only look on.

Demo. Nine files are all the uploads of the script, each of one block, since the interleaving of chunks is `storage`'s
question. The script passes exactly one order through signing, one registration per last signature; one call to the
permission canister is rejected at most, losses are not limited. Losses and the user beside are in different scenarios.
`SignedElsewhere` happens only until the script has its shipment: later its ids cannot meet the script's.

Slots for calls and parties are interchangeable and reduced by symmetry in `MCShipment` and `MCStorage`, where all
properties are safety properties. Deadlock is not checked: a contract whose tokens are spent, a shipment that was
judged, a script that ended and workloads at their bounds have no more steps to take.

### Fairness and liveness

Only `demo` assumes fairness: weak fairness of `Progress`, the steps of the script and of the calls it made. The event
loop of the script runs what is ready, and the Internet Computer answers every call, if only with an error. Nothing is
assumed of the time, of losses, or of the user beside the script. `DemoEnds` then says that the script comes to an end
whatever gets lost, `DemoCompletes` that it gets to its end with no call refused when nothing disturbs it, in every order
of its concurrent calls.

No liveness is claimed of the rest: every handler runs on request, nothing retries, and no code makes a transaction be
mined.

## What the runs found

- `dp_residue`: `refundFunds` rounds every payer's percentage down, so some of the amount stays locked; the fees stay
  frozen with it. The test of the contract expects zero, with a single payer.
- `shipment_stale`: `determineDownPaymentAddress` inserts the copy it read before its call. A document uploaded and
  approved meanwhile is gone. `depositFunds` and `lockFunds` do the same. `PhaseAdvances` and `ApprovalsStand` say that
  nothing else loses an approval of a document that is not generic.
- `shipment_lock`: `lockFunds` records LOCKED after sending. A payer that withdraws first makes it revert; the record
  cannot be locked again.
- `shipment_review`: among generic documents the uploader check looks at the first one.

What holds under every interleaving and fault of the model: `StagesInOrder`, since a copy is itself a record that its
phases allow and what is added to it was checked on it, and `MoneyFollowsApproval`. An earlier form of `StagesInOrder`
held in the run and not for other requirements than the run's, which the proof of it showed; it now says what handlers
taking turns could have left. Several properties hold only with an
exception, which they name because the code leaves it open:

- `ConfirmedOrdersStand`, `EntriesStand`: a removal leaves a gap in the ids, after which the next entry replaces an
  existing one. Two last signatures of one order may overlap, and the second confirmation replaces the first.
- `ConfirmedOwnShipment`, `PhasesAsPlanned`, `AgreementsStand`: two last signatures that wait at the same time take the
  same shipment id, and the second insertion replaces the first shipment.
- `RecordedDocumentsStored`: two concurrent uploads of the script that get one file id share what is stored under it,
  and nobody notices, because an `Err` of `put_chunk` is not looked at. It says that each file is stored, and that no
  other content has the document's URL, not that a reader gets the metadata of the right one: they share a name.
- `ReportedUploadsStored`: a file without content is never stored, although its upload is reported as done; ids that two
  uploads worked on, and gaps, are excepted.
- `ReadersSeeUploads`: chunks that got lost on the way to a reader are missing in what it is shown, without notice. When
  documents of two types have the id, the one read may be the other one; under a URL given twice, the older file is read.
- `MembersMirrored`: a removal that overlaps with other calls on the file, or fails half-way, may leave half a role.
- `ListedOperationsExist`: another company may delete an operation; the list of its owner keeps the id.
- `FeesReachEscrows`: an escrow with something locked keeps the older recipient. The base and percentage fees agree only
  because their updates revert as soon as there is an escrow.
- The script ends in phase 3: it never locks funds, so that phase 4 is out of its reach.

## Proofs

All are for any number of accounts, users, companies, files and calls, any amounts, requirements and bounds, under the
named assumptions on the constants; TLC evaluates the assumptions on the instances it checks. The invariants the proofs
are by induction on were given to TLC first.

**`DownPaymentProofs`**, for any accounts, amounts and fees with `AccountsAssumption` (finitely many accounts, among them
the deployer, the payee and the fee recipient) and `AmountsAssumption` (amounts are naturals, the first percentage fee at
most 100). `Invariance`: the conjunction `IInv` of `TypeOK`, `Solvent`, `PayersAreDepositors`, `BooksBalance` and
`TokensConserved` is inductive. None of them is alone: that a withdrawal does not underflow needs the payer's percentage
to be at most 100, hence that the deposits add up to the total; that a refund does not exceed what is locked needs the
array to list each payer once; conservation needs both. From it `TypeCorrect`, `AlwaysSolvent`, `PayersStayDepositors`,
`BooksStayBalanced`, `Conservation`; with an argument on the shares `OffersFit` and `RefundsFit`; the action property
`FeesStayFrozen`; and `Refinement`, that the contract implements `Escrow`, step by step. One lemma per operation, one
step per part it disturbs; the lemmas at the beginning supply the facts on totals. The widths of the EVM are not modelled.

**`ShipmentProofs`**, for any calls, parties, document types and requirements. The record of a shipment *and the copy of
every suspended call* is `Sound`: its stages are ones its phases allow and it has one document per type. That is why an
old copy may be inserted without breaking `StagesInOrder` and `OneDocumentPerType` although it loses an approval.
`ChainOK` (what the account can have pending) and `MoneyFollowsApproval` complete the invariant; `InvariantHolds`,
`TypesHold`, `StagesStayInOrder`, `DocumentsStayUnique`, `MoneyKeepsToApproval` follow. `PhaseOnlyAdvances` and
`ApprovalsOnlyGoStale` need `FreshCalls` besides: a call whose copy is not stale inserts everything the record holds.
`PriceReservedOnce` is proved under the conditions of the run that checks it, one call at a time and no lost reply
(`OneCall`, `NoReplyLost`), which its statement names; its invariant `Turns` ties the funds status of the record to what
the chain has done, is about to do, or refused.

**`PlatformProofs`**, for any users, companies, scenarios and bounds, with all services in the same behaviour.
`StepOfSessions`, `StepOfOrders` and `StepOfManager` reduce a step of the platform to one of a service.
`SessionsStayBacked`: the invariant adds that a login waiting for its answer is one of the attempts.
`SignaturesAlwaysMatch`: the copies of waiting calls are included, and are signed by both sides. `ConfirmedAlwaysStand`:
the waiting calls are related with each other and with the orders, and without a gap the next number is free.
`FeesAlwaysReach`: the escrows are numbered from 1 to the counter. The exceptions of the properties (gaps, orders that
were contested, missed escrows) are part of what is proved.

Its second half is about the registries. `StandardsStayListed` (invariant `StandardsKept`:
a standard listed in any sector exists), `EntriesAlwaysStand` and `OperationsStayListed` (the numbers in use, the owners
and the gaps of the registries), `RecordsAlwaysFind` (`CertificatesKept`: the certificates are numbered 1 to n, and a
number is in exactly the list that its record names), `ConfirmedKeepTheirShipment` (`ShipmentsKept`, `ShipmentsApart`:
how shipments and the calls about to make one are numbered) and `OwnersAlwaysDecide` (`RolesRanked`,
`SessionsFromAttempts`, `MaterialsKept`). `PlatformTyped` is the type invariant of all services together; its invariant
`Typed` has one part per service (`Presented`, `OrganizationsKept`, `EnumerationsKept`, `CatalogueKept`, `SoundOrders`,
`OrdersKept`, `FeesFollow`, `ManagerKept`). That `removeValue` takes out one value rests on lists having each value once
(`Filtered`). `RecordedAssumption`, `ScenarioAssumption` and `KindsAssumption` say what a scenario may have recorded at
its start.

**`StorageProofs`**, for any files, uploads, calls, contents and tries that `Permissions` starts from. `IInv` matches
the suspended calls with the requests that are outstanding (`Awaited`) and the uploads with their ids (`Owned`), keeps
the stored files (`FilesKept`), the links (`LinksKept`) and the uploads under way (`UploadsKept`: every block of an
undisturbed upload is stored or on its way, and no other upload is under its id). `TypesHold` includes that every link
was made by `share_file` and that every call waits for exactly the answers to its requests: `Awaited` speaks of the
requests of a call by their order, and `AwaitedCounts` counts them. From `IInv` follow also
`FilesAreIntact`, `NothingIsReplaced`, `ReportsAreTrue` and `LinksAge`. The step lemmas are about `AnyStep`, in which any
user may begin an upload of any content at any time: `Next` is a special case (`NextIsAny`), and so are the steps of
other clients.

**`DocumentsProofs`**, in its first half that both halves of a role agree (`MembersMirrored`), for any number of calls
and requests on their way (`RolesStayMirrored`). The invariant says what every request will do: it names a role or the
file of the call that made it (`RequestsNamed`); the two requests for a role follow each other, so that between their
answers exactly the second is the oldest one (`Halves`); and a removal that nothing overlaps agrees with what it was
told (`Listing`) and still has to delete whatever is there (`Deleting`). Every step of `Next` is one of eight kinds as
far as roles go (`RoleSteps`), and each kind has a lemma. Files in `torn` are exempt, as in the property: for them it
may be false.

Its second half is about the SDK as the client of that canister. A step of `Documents` is a step of the canister or
leaves it alone (`CanisterSteps`), so that the theorems on the canister hold of it too (`DocumentsTyped`,
`DocumentsIntact`, `DocumentsMirrored`, `DocumentsNotReplaced`, `DocumentsReported`, `DocumentsLinksAge`).
`ReadersSeeWhatWasGiven` is `ReadersSeeUploads`: what a reader is shown is in the order of one of the contents that were
given under the URL, and is all of it when no chunk was refused or lost; and the URL was given for the document asked for,
unless another type had its id. Its invariant `DocumentsInv` says that what is stored, uploaded or left to upload was
given under its name (`Announced`), that every URL of the record was given for a document of its type, as was the metadata's, that
every certificate's URL was given for it (`Recorded`), that the steps left of an operation are those its document's URLs
allow (`StepsKept`), and that a read under way has chunks of one content and waits for the others, unless another file
took the id meanwhile. `MergedInOrder` says that putting the chunks together by their ranks restores the order of the
content.

**`EntitiesProofs`**, about the conversions, for any times, types and documents: what one direction sends the other
reads for variants, deadlines, documents and certificates (`VariantsReadBack`, `DeadlinesReadBack`, `DeadlinesSentBack`,
`DocumentsReadBack`, `CertificatesReadBack`). Two theorems state where the code's directions do not agree:
`ShipmentDatesMultiplied` (a shipment's dates are sent in milliseconds and read as seconds) and `IssueDateInTwoUnits`
(a certificate's issue date is sent in one unit and read in the other).

**`DemoProofs`**, about the script running against all parts, for any users, companies, threads and contents with
`ScriptAssumption` (the script's users are users, its concurrent calls have threads) and `StoragesAssumption` (what it
uploads is among the contents), and for every scenario: losses at any call, sessions that expire, and a user beside it.
`DemoInvariance`: `DemoKept` is inductive. It relates every thread's rest of the script to the stage (`ScriptKept`),
the calls that wait to the next call of their thread (`CallsKept`), and the results to what the canisters returned:
ids of files (`IdsKept`), the contents under them (`UploadedKept`), the documents of the record (`Orderly`,
`DocumentsUploaded`). The uploads are those of an instance of `StorageProofs`, whose invariant is part of `StorageKept`,
so that the lemmas about the canister serve here too. From it `DemoTyped` and `RecordedAreStored`.

**`AgreementProofs`**, about the script's shipment. `AgreementsDoStand`: as long as no two last signatures took the same
shipment id, at most one waits and its id is free (`SigningApart`), so that only the script's calls reach its shipment;
and those judge nothing a second time, because a document, the sample and the details each have one place in the script
(`RecordPlanned`, `FreshRecord`, `ShipmentKnown`). `PhasesGoAsPlanned`: the calls that were answered have left their
approvals in the record, and a document is judged under the id its type has there (`RecordApproved`). The script goes to
the next stage only when no thread threw, so that at each look at the phase all approvals before it are there and none
after it.

Every safety property of the passing runs is stated by a theorem. Only model-checked:

- Liveness under fairness (`DemoEnds`, `DemoCompletes`), which is beyond the prover. Where a guard is an ENABLED
  (`RefusedCall`), the proofs use what the action changes and not when it is enabled.
- The refutations (`dp_residue`, `shipment_stale`, `shipment_lock`, `shipment_review`): each is a behaviour TLC finds.

## Not modelled

- The email service (HTTP outcalls, no state), the imported identity registry and credential contracts, the test token,
  and cryptography: signatures, hashes and addresses are values that do not collide.
- A fee update of one escrow made by its own administrator is in `DownPayment`; `Manager` has the ones it makes itself.
- Methods no controller offers (the update of a standard); the listing queries of the
  storage canister other than the reads of `Documents`.
- SDK operations that are one call of a driver and that the demo does not use, and fields of entities that are copied
  as they are. `Entities` has those where something is converted.
- Numbers of JavaScript above 2^53.

## What is next

- The driver of the contracts (`DownPaymentDriver`).
- The listing queries of the canisters, once something depends on their order.
