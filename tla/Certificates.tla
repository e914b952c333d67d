------------------------------ MODULE Certificates ------------------------------
(***************************************************************************)
(* CertificationService: certificates of companies, scopes and materials,  *)
(* in one list per kind and subject, and one record per certificate that   *)
(* says which list it is in.  Issuer, dates and notes are left out.        *)
(***************************************************************************)
EXTENDS Catalogue

CONSTANTS
  Documents,
  MaxCertificates       \* bound on the certificates

VARIABLES
  records,              \* _allCertificateRecords: [kind, subject] by id, from 1
  certificates          \* the lists, by [kind, subject]

certificateVars == <<records, certificates>>

Kinds == {"COMPANY", "SCOPE", "MATERIAL"}
Lists == [kind : Kinds, subject : Companies]
NoMaterial == 0 - 1

ValidateAssessmentAssuranceLevel(u, level) == HasOwnValue(u, "assurance level", level)

\* Mutant of NextCertificateId: counts the certificates of the list.
NextInList(list) == Len(certificates[list]) + 1

NextCertificateId(list) == NextId(records) + 1

Register(u, list, standard, level, document, material) ==
  /\ ValidateAssessmentAssuranceLevel(u, level) /\ standard \in DOMAIN standards
  /\ LET id == NextCertificateId(list)
     IN  /\ certificates' = [certificates EXCEPT ![list] = Append(@,
              [id |-> id, uploadedBy |-> GetDelegatorAddress(u),
               standard |-> standards[standard], level |-> level, document |-> document,
               evaluation |-> "NOT_EVALUATED", material |-> material])]
         /\ records' = Put(records, id, list)

RegisterCompanyCertificate(u, subject, standard, level, document) ==
  Register(u, [kind |-> "COMPANY", subject |-> subject], standard, level, document, NoMaterial)

\* The process types are validated by callbacks nobody awaits.
RegisterScopeCertificate(u, subject, standard, level, document) ==
  Register(u, [kind |-> "SCOPE", subject |-> subject], standard, level, document, NoMaterial)

RegisterMaterialCertificate(u, subject, standard, level, document, material) ==
  /\ material \in DOMAIN materials
  /\ Register(u, [kind |-> "MATERIAL", subject |-> subject], standard, level, document, material)

\* The place of a certificate in a list, none when its record leads astray.
PlacesIn(list, id) == {i \in DOMAIN certificates[list] : certificates[list][i].id = id}

\* _getCertificateAndInfoById finds a certificate through its record.
HasCertificate(id) == id \in DOMAIN records /\ PlacesIn(records[id], id) # {}
Place(id) == SelectInSeq(certificates[records[id]], LAMBDA c : c.id = id)
CertificateWith(id) == certificates[records[id]][Place(id)]

\* _updateCertificate
UpdateCertificate(id, certificate) ==
  /\ certificates' = [certificates EXCEPT ![records[id]][Place(id)] = certificate]
  /\ UNCHANGED records

\* What the three updates check.
MayUpdate(u, id, standard, level) ==
  /\ ValidateAssessmentAssuranceLevel(u, level) /\ standard \in DOMAIN standards
  /\ HasCertificate(id) /\ CertificateWith(id).uploadedBy = GetDelegatorAddress(u)

Updated(id, standard, level) ==
  [CertificateWith(id) EXCEPT !.standard = standards[standard], !.level = level]

\* The caller says of which kind the certificate is, and nothing compares it with the
\* record: a material's certificate can be updated as a company's, and back.
UpdateCompanyCertificate(u, id, standard, level) ==
  MayUpdate(u, id, standard, level) /\ UpdateCertificate(id, Updated(id, standard, level))

UpdateScopeCertificate(u, id, standard, level) ==
  MayUpdate(u, id, standard, level) /\ UpdateCertificate(id, Updated(id, standard, level))

UpdateMaterialCertificate(u, id, standard, level, material) ==
  /\ material \in DOMAIN materials /\ MayUpdate(u, id, standard, level)
  /\ UpdateCertificate(id, [Updated(id, standard, level) EXCEPT !.material = material])

\* Anyone may replace the document, and its evaluation stays.
UpdateDocument(id, document) ==
  HasCertificate(id) /\ UpdateCertificate(id, [CertificateWith(id) EXCEPT !.document = document])

EvaluateDocument(id, evaluation) ==
  HasCertificate(id) /\ UpdateCertificate(id, [CertificateWith(id) EXCEPT !.evaluation = evaluation])

CertificationController == \E u \in Users : AtLeast(u, "Editor") /\
  \/ /\ Cardinality(DOMAIN records) < MaxCertificates
     /\ \E subject \in Companies, standard \in DOMAIN standards, level \in Values,
           document \in Documents :
          \/ RegisterCompanyCertificate(u, subject, standard, level, document)
          \/ RegisterScopeCertificate(u, subject, standard, level, document)
          \/ \E material \in DOMAIN materials :
               RegisterMaterialCertificate(u, subject, standard, level, document, material)
  \/ \E id \in DOMAIN records :
       \/ \E standard \in DOMAIN standards, level \in Values :
            \/ UpdateCompanyCertificate(u, id, standard, level)
            \/ UpdateScopeCertificate(u, id, standard, level)
            \/ \E material \in DOMAIN materials :
                 UpdateMaterialCertificate(u, id, standard, level, material)
       \/ \E document \in Documents : UpdateDocument(id, document)
       \/ \E evaluation \in {"APPROVED", "NOT_APPROVED"} : EvaluateDocument(id, evaluation)
================================================================================
