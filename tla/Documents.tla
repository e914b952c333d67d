------------------------------ MODULE Documents ------------------------------
(***************************************************************************)
(* The documents of shipments and certificates, as the SDK keeps them: a   *)
(* file in the storage canister, a second one with the metadata when the   *)
(* document is a shipment's, and the URL of the file in the record the     *)
(* entity canister has of the document.  ShipmentService and               *)
(* CertificationService of the SDK do this in several calls, over          *)
(* FileDriver and StorageDriver; a document of a shipment is found by its  *)
(* id, then read by the name of its file, which is the URL.                *)
(*                                                                         *)
(* The part of a URL before the name is the kind of the document: all are  *)
(* of one shipment and one company.  The record of the shipment is that of *)
(* ShipmentRecord; the verdicts on documents are left to it and to         *)
(* Certificates, and here any call of the entity canister may be refused.  *)
(***************************************************************************)
EXTENDS Storage

CONSTANTS
  Names,                \* names of the users' files, [stem, extension]
  Filenames,            \* what the users call a certificate's file, "" for nothing
  ShipmentTypes,        \* types of documents of the shipment
  Generic,              \* the type of which it may hold many
  Certificates          \* certificates, each with its document

\* The metadata of a document are stood for by its type.
ASSUME DocumentsAssumption == {<<type>> : type \in ShipmentTypes} \subseteq Contents

VARIABLES
  record,               \* the record of the shipment, of which documents change
  certificates,         \* the document of each certificate: [externalUrl, filename]
  job,                  \* the operation each client is in: the document it is about, the
                        \* steps left, the read under way and what was read
  begun,                \* number of operations begun (bounded by the workload)
  given                 \* history: what was uploaded, or pointed to, under each URL

documentVars == <<record, certificates, job, begun, given>>
allVars == <<vars, documentVars>>

\* The URLs of documents and of their metadata.
Urls ==
  [kind : {"transactions", "company", "scope", "materials"}, stem : {name.stem : name \in Names},
   extension : {name.extension : name \in Names} \cup {"-metadata.json"}]

Shipment == INSTANCE ShipmentRecord WITH
  DocumentTypes <- ShipmentTypes, Required <- [phase \in 1 .. 4 |-> {}],
  SampleApprovalRequired <- FALSE, Parties <- Users, Prices <- {0}

NoRead == [id |-> "none"]
NoJob == [document |-> "none", todo |-> <<>>, read |-> NoRead, parts |-> <<>>, mistaken |-> FALSE]

DocumentsInit ==
  /\ Init
  /\ record = Shipment!NewRecord /\ certificates = <<>>
  /\ begun = 0 /\ given = {} /\ job = [c \in Callers |-> NoJob]

-----------------------------------------------------------------------------
\* Names and steps.

Url(kind, name) == [kind |-> kind, stem |-> name.stem, extension |-> name.extension]

\* The extension is cut off (removeFileExtension) before the ending of the metadata
\* is added.
MetadataUrl(url) == [url EXCEPT !.extension = "-metadata.json"]

Given(document, url, content) == [document |-> document, url |-> url, content |-> content]
GivenAs(url) == {g.content : g \in {h \in given : h.url = url}}

Upload(document, url, content) == [op |-> "upload", given |-> Given(document, url, content)]
Add(type, url) == [op |-> "add", type |-> type, url |-> url]
Redirect(id, url) == [op |-> "redirect", id |-> id, url |-> url]
Certify(certificate, url, filename) ==
  [op |-> "certify", certificate |-> certificate, document |-> [externalUrl |-> url, filename |-> filename]]
Search(id) == [op |-> "search", id |-> id]
Read(url) == [op |-> "read", url |-> url]

\* The client c begins an operation on the document with these steps.
Begins(c, document, todo) ==
  /\ job[c] = NoJob /\ call[c] = Idle
  /\ begun < workload.maxOperations
  /\ Cardinality({d \in Callers : job[d] # NoJob}) < workload.together
  /\ begun' = begun + 1
  /\ job' = [job EXCEPT ![c] = [NoJob EXCEPT !.document = document, !.todo = todo]]
  /\ UNCHANGED <<vars, record, certificates, given>>

-----------------------------------------------------------------------------
\* The operations of the services, up to their first call.

\* ShipmentService.addDocument: the metadata name the type.
AddDocument(c, type, name, content) ==
  LET url == Url("transactions", name)
  IN  /\ "shipment" \in workload.methods
      /\ Begins(c, type, <<Upload(type, url, content), Upload(type, MetadataUrl(url), <<type>>),
                           Add(type, url)>>)

\* The documents the record names, by type and id.
Entries == UNION {{[type |-> t.type, id |-> d.id] : d \in ToSet(t.docs)} : t \in ToSet(record.documents)}

\* ShipmentService.updateDocument: the URL is the caller's affair.
UpdateUrl(c, entry, name) ==
  Begins(c, entry.type, <<Redirect(entry.id, Url("transactions", name))>>)

\* ShipmentService.getDocument, for a document the caller saw in the record.
GetDocument(c, entry) == Begins(c, entry.type, <<Search(entry.id)>>)

AddDocumentToExtStorage(certificate, url, filename, content) ==
  <<Upload(certificate, url, content), Certify(certificate, url, filename)>>

\* registerCompanyCertificate, registerScopeCertificate, registerMaterialCertificate: every
\* registration makes a certificate of its own.
Register(c, kind, certificate, name, filename, content) ==
  /\ kind \in workload.methods
  /\ certificate \notin DOMAIN certificates
  /\ \A g \in given : g.document # certificate
  /\ \A d \in Callers : job[d].document # certificate
  /\ Begins(c, certificate, AddDocumentToExtStorage(certificate, Url(kind, name), filename, content))

RegisterCompanyCertificate(c, certificate, name, filename, content) ==
  Register(c, "company", certificate, name, filename, content)
RegisterScopeCertificate(c, certificate, name, filename, content) ==
  Register(c, "scope", certificate, name, filename, content)
RegisterMaterialCertificate(c, certificate, name, filename, content) ==
  Register(c, "materials", certificate, name, filename, content)

\* CertificationService.updateDocument: the file is uploaded when it is called something else
\* than before, whatever its name in the URL is; else the content is dropped.
UpdateDocument(c, certificate, name, filename, content) ==
  /\ certificate \in DOMAIN certificates
  /\ LET old == certificates[certificate]
     IN  Begins(c, certificate,
           IF filename # "" /\ filename # old.filename
           THEN AddDocumentToExtStorage(certificate, Url(old.externalUrl.kind, name), filename, content)
           ELSE <<Certify(certificate, old.externalUrl, old.filename)>>)

\* CertificationService.getDocument.
GetCertificateDocument(c, certificate) ==
  /\ certificate \in DOMAIN certificates
  /\ Begins(c, certificate, <<Read(certificates[certificate].externalUrl)>>)

-----------------------------------------------------------------------------
\* The steps.

Step(c) == Head(job[c].todo)
Due(c, op) == call[c] = Idle /\ job[c].todo # <<>> /\ Step(c).op = op
Ends(c) == job' = [job EXCEPT ![c] = NoJob]

StartUpload(c) == \E user \in workload.users :
  /\ Due(c, "upload")
  /\ CreateFile(c, user, Step(c).given.url, Step(c).given.content)
  /\ given' = given \cup {Step(c).given}
  /\ job' = [job EXCEPT ![c].todo = Tail(@)]
  /\ UNCHANGED <<record, certificates, begun>>

\* An upload that throws ends the operation.
UploadEnds(c) ==
  /\ job[c] # NoJob
  /\ \/ UploadReturns(c) /\ IF call[c].failed THEN Ends(c) ELSE UNCHANGED job
     \/ FileCreated(c) /\ call'[c] = Idle /\ Ends(c)
  /\ UNCHANGED <<record, certificates, begun, given>>

\* The calls of the entity canister, which come last, may be refused or get lost.
Added(c) ==
  /\ Due(c, "add") /\ Ends(c)
  /\ \/ \E user \in workload.users :
          Shipment!AddDocument(record, record', Step(c).type, user, Step(c).url)
     \/ UNCHANGED record
  /\ UNCHANGED <<vars, certificates, begun, given>>

\* A document is pointed to a URL and, without a word of it, to the metadata there.
Redirected(c) ==
  LET id == Step(c).id
      url == Step(c).url
      type == record.documents[Shipment!PlaceOfId(record, id)].type
  IN
  /\ Due(c, "redirect") /\ Ends(c)
  /\ \/ /\ \E user \in workload.users : Shipment!UpdateDocument(record, record', id, user, url)
        /\ given' = given \cup {Given(type, url, <<>>), Given(type, MetadataUrl(url), <<>>)}
     \/ UNCHANGED <<record, given>>
  /\ UNCHANGED <<vars, certificates, begun>>

Certified(c) ==
  /\ Due(c, "certify") /\ Ends(c)
  /\ certificates' \in {certificates, Put(certificates, Step(c).certificate, Step(c).document)}
  /\ UNCHANGED <<vars, record, begun, given>>

\* Where the documents with an id are: the ids are not those of one type.
Holding(id) == {i \in DOMAIN record.documents :
  \E k \in DOMAIN record.documents[i].docs : record.documents[i].docs[k].id = id}

\* Mutant of DocumentInfo: the search does not compare the ids.
LastDocument(id) == Last(record.documents).docs[1]

\* The search goes through all types, since its break only leaves the documents of one.
DocumentInfo(id) ==
  LET docs == record.documents[Max(Holding(id))].docs
  IN  docs[Shipment!PlaceInTuple(docs, id)]

\* ShipmentService.retrieveDocument reads the record again, searches it for the id, and reads
\* the metadata before the file.  mistaken: a document of another type has the id as well.
RetrieveDocument(c) ==
  LET id == Step(c).id
      url == DocumentInfo(id).externalUrl
  IN
  /\ Due(c, "search")
  /\ \/ Ends(c)
     \/ /\ Holding(id) # {}
        /\ job' = [job EXCEPT
             ![c].todo = <<Read(MetadataUrl(url)), Read(url)>>,
             ![c].mistaken = \E i \in Holding(id) : record.documents[i].type # job[c].document]
  /\ UNCHANGED <<vars, record, certificates, begun, given>>

\* FileDriver.read takes the first of the files with the name; the canister lists
\* them by their ids.
Found(named) == CHOOSE id \in named : \A other \in named : id <= other

ListFiles(c) ==
  LET named == {id \in DOMAIN files : files[id].name = Step(c).url}
  IN
  /\ Due(c, "read") /\ job[c].read = NoRead
  /\ \/ named = {} /\ Ends(c)
     \/ /\ named # {}
        /\ job' = [job EXCEPT ![c].read =
             [id |-> Found(named), left |-> Indexes(files[Found(named)]), got |-> <<>>,
              refused |-> FALSE, dropped |-> FALSE, astray |-> FALSE]]
  /\ UNCHANGED <<vars, record, certificates, begun, given>>

Reading(c) == job[c].read # NoRead

\* StorageDriver.getFile asks for all chunks at once.  A call that throws, as it does
\* when the file is gone, is dropped; an Err spoils the result.
GetFileChunk(c) == Reading(c) /\ \E n \in job[c].read.left :
  LET id == job[c].read.id
      stored == id \in DOMAIN files
      asked == [job[c].read EXCEPT !.left = @ \ {n}]
      Has(read) == job' = [job EXCEPT ![c].read = read]
  IN
  /\ \/ /\ stored /\ n \in DOMAIN files[id].chunks
        /\ Has([asked EXCEPT !.got = Append(@, [index |-> n, block |-> files[id].chunks[n]])])
     \/ /\ stored /\ n \notin DOMAIN files[id].chunks
        /\ Has([asked EXCEPT !.refused = TRUE])
     \/ Has([asked EXCEPT !.dropped = TRUE])
  /\ UNCHANGED <<vars, record, certificates, begun, given>>

\* Mutant of Merged: the chunks are in the order they arrived in.
MergedAsArrived(got) == [i \in DOMAIN got |-> got[i].block]

\* The chunks in the order of their indexes.
Merged(got) ==
  LET Before(i) == {j \in DOMAIN got : got[j].index < got[i].index}
  IN  [k \in DOMAIN got |->
         got[CHOOSE i \in DOMAIN got : Cardinality(Before(i)) = k - 1].block]

ReadReturns(c) ==
  LET part == [url |-> Step(c).url, content |-> Merged(job[c].read.got),
               dropped |-> job[c].read.dropped, astray |-> job[c].read.astray]
  IN
  /\ Reading(c) /\ job[c].read.left = {}
  /\ \/ /\ ~ job[c].read.refused /\ job[c].read.got # <<>>
        /\ job' = [job EXCEPT ![c].todo = Tail(@), ![c].read = NoRead, ![c].parts = Append(@, part)]
     \/ (job[c].read.refused \/ job[c].read.got = <<>>) /\ Ends(c)
  /\ UNCHANGED <<vars, record, certificates, begun, given>>

\* The caller gets all that was read.
DocumentReturned(c) ==
  /\ job[c].todo = <<>> /\ job[c].parts # <<>> /\ Ends(c)
  /\ UNCHANGED <<vars, record, certificates, begun, given>>

\* Chunks, what the canisters do, and removeFile and renameFile of the SDK.  A read goes
\* astray when another file takes the id of the one it reads.
Elsewhere ==
  LET renamed == {id \in DOMAIN files \cap DOMAIN files' : files'[id].name # files[id].name}
      announced == {id \in DOMAIN pending' : id \notin DOMAIN pending
                      \/ [pending'[id] EXCEPT !.chunks = <<>>] # [pending[id] EXCEPT !.chunks = <<>>]}
      moved == {files'[id] : id \in renamed} \cup {pending'[id] : id \in announced}
      replaced == {id \in DOMAIN files' :
                     id \notin DOMAIN files \/ files'[id].chunks # files[id].chunks}
  IN
  /\ Next
  /\ \A c \in Callers : job[c] # NoJob => (call'[c] = Idle <=> call[c] = Idle)
  /\ job' = [c \in Callers |->
       IF Reading(c) /\ job[c].read.id \in replaced
       THEN [job[c] EXCEPT !.read.astray = TRUE] ELSE job[c]]
  /\ given' = given \cup {Given("other", file.name, file.declared) : file \in moved}
  /\ UNCHANGED <<record, certificates, begun>>

DocumentsNext ==
  \/ Elsewhere
  \/ \E c \in Callers :
       \/ \E name \in Names :
            \/ \E type \in ShipmentTypes, content \in workload.contents :
                 AddDocument(c, type, name, content)
            \/ \E entry \in Entries : UpdateUrl(c, entry, name)
            \/ \E certificate \in Certificates, filename \in Filenames, content \in workload.contents :
                 \/ RegisterCompanyCertificate(c, certificate, name, filename, content)
                 \/ RegisterScopeCertificate(c, certificate, name, filename, content)
                 \/ RegisterMaterialCertificate(c, certificate, name, filename, content)
                 \/ UpdateDocument(c, certificate, name, filename, content)
       \/ \E entry \in Entries : GetDocument(c, entry)
       \/ \E certificate \in Certificates : GetCertificateDocument(c, certificate)
       \/ StartUpload(c) \/ UploadEnds(c) \/ Added(c) \/ Redirected(c) \/ Certified(c)
       \/ RetrieveDocument(c) \/ ListFiles(c) \/ GetFileChunk(c) \/ ReadReturns(c) \/ DocumentReturned(c)

DocumentsSpec == DocumentsInit /\ [][DocumentsNext]_allVars

-----------------------------------------------------------------------------
\* Properties.

\* All of part is in whole, in the same order.
InOrder(part, whole) == \E place \in [DOMAIN part -> DOMAIN whole] :
  \A i \in DOMAIN part :
    /\ part[i] = whole[place[i]]
    /\ \A j \in DOMAIN part : i < j => place[i] < place[j]

\* What is read for a document is one of the contents uploaded under the URL, or what is left of
\* one, in order, when calls for its chunks got lost or the file was removed meanwhile: never
\* blocks of two contents, never blocks in the order they came in.  And the URL is one the document
\* was uploaded under, or pointed to, unless one of another type had the id: so a reader sees the
\* document that was asked for wherever nothing else was given its URL.
ReadersSeeUploads == \A c \in Callers : \A i \in DOMAIN job[c].parts :
  LET part == job[c].parts[i]
  IN
  /\ ~ part.astray => \E content \in GivenAs(part.url) :
       IF part.dropped THEN InOrder(part.content, content) ELSE part.content = content
  /\ job[c].mistaken \/ \E g \in given : g.url = part.url /\ g.document = job[c].document
===============================================================================
