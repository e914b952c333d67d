-------------------------------- MODULE Catalogue --------------------------------
(***************************************************************************)
(* Product categories, materials, offers and asset operations.  A material *)
(* holds a copy of its category, an offer and an operation a copy of their *)
(* materials.  The list of a company's operations is a set of ids: its     *)
(* order and an id that is in it twice only show in what is returned.      *)
(***************************************************************************)
EXTENDS Standards

CONSTANTS
  CategoryNames,
  MaxEntries            \* bound on the entries of a registry and the ids in a list

VARIABLES
  categories, materials, offers,
  operations,           \* _assetOperations
  operationIds,         \* _companyAssetOperationIds: the ids by company
  orphaned              \* history: operations deleted while another company listed them

catalogueVars == <<categories, materials, offers, operations, operationIds, orphaned>>

MayAdd(reg) == Cardinality(DOMAIN reg) < MaxEntries

-----------------------------------------------------------------------------
CreateProductCategory(name) ==
  /\ categories' = Put(categories, NextId(categories), name)
  /\ UNCHANGED <<materials, offers, operations, operationIds, orphaned>>

UpdateProductCategory(id, name) ==
  /\ id \in DOMAIN categories
  /\ categories' = Put(categories, id, name)
  /\ UNCHANGED <<materials, offers, operations, operationIds, orphaned>>

DeleteProductCategory(id) ==
  /\ id \in DOMAIN categories
  /\ categories' = Without(categories, id)
  /\ UNCHANGED <<materials, offers, operations, operationIds, orphaned>>

\* OnlyController: the controllers of the canister are no users of the platform.
ProductCategoryController ==
  \/ MayAdd(categories) /\ \E name \in CategoryNames : CreateProductCategory(name)
  \/ \E id \in DOMAIN categories :
       DeleteProductCategory(id) \/ \E name \in CategoryNames : UpdateProductCategory(id, name)

-----------------------------------------------------------------------------
Material(owner, category, isInput) ==
  [owner |-> owner, category |-> categories[category], isInput |-> isInput]

CreateMaterial(u, category, isInput) ==
  /\ category \in DOMAIN categories
  /\ materials' = Put(materials, NextId(materials),
                      Material(GetDelegatorAddress(u), category, isInput))
  /\ UNCHANGED <<categories, offers, operations, operationIds, orphaned>>

UpdateMaterial(id, category, isInput) ==
  /\ id \in DOMAIN materials /\ category \in DOMAIN categories
  /\ materials' = Put(materials, id, Material(materials[id].owner, category, isInput))
  /\ UNCHANGED <<categories, offers, operations, operationIds, orphaned>>

MaterialController == \E u \in Users, category \in DOMAIN categories, isInput \in BOOLEAN :
  AtLeast(u, "Editor") /\
  \/ MayAdd(materials) /\ CreateMaterial(u, category, isInput)
  \/ \E id \in DOMAIN materials :
       OnlyContractParty(u, {materials[id].owner}) /\ UpdateMaterial(id, category, isInput)

-----------------------------------------------------------------------------
CreateOffer(u, material) ==
  /\ material \in DOMAIN materials /\ ~ materials[material].isInput
  /\ offers' = Put(offers, NextId(offers),
                   [owner |-> GetDelegatorAddress(u), material |-> materials[material]])
  /\ UNCHANGED <<categories, materials, operations, operationIds, orphaned>>

DeleteOffer(id) ==
  /\ offers' = Without(offers, id)
  /\ UNCHANGED <<categories, materials, operations, operationIds, orphaned>>

OfferController == \E u \in Users : AtLeast(u, "Editor") /\
  \/ MayAdd(offers) /\ \E material \in DOMAIN materials : CreateOffer(u, material)
  \/ \E id \in DOMAIN offers : OnlyContractParty(u, {offers[id].owner}) /\ DeleteOffer(id)

-----------------------------------------------------------------------------
\* _validateArgs: the process types are looked up in callbacks whose failures
\* nobody awaits, so that only the materials decide.
ValidateArgs(inputs, output) == inputs \cup {output} \subseteq DOMAIN materials

Operation(inputs, output) ==
  [inputs |-> {materials[m] : m \in inputs}, output |-> materials[output]]

ListedBy(company) ==
  IF company \in DOMAIN operationIds THEN operationIds[company] ELSE {}

CreateAssetOperation(u, inputs, output) ==
  /\ ValidateArgs(inputs, output)
  /\ LET id == NextId(operations)
         company == GetDelegatorAddress(u)
     IN  /\ operationIds' = Put(operationIds, company, ListedBy(company) \cup {id})
         /\ operations' = Put(operations, id, Operation(inputs, output))
         /\ orphaned' = orphaned \ {id}
  /\ UNCHANGED <<categories, materials, offers>>

UpdateAssetOperation(id, inputs, output) ==
  /\ ValidateArgs(inputs, output) /\ id \in DOMAIN operations
  /\ operations' = Put(operations, id, Operation(inputs, output))
  /\ UNCHANGED <<categories, materials, offers, operationIds, orphaned>>

\* Mutant of Unlisted: the list of the company stays.
StillListed(company, id) == ListedBy(company)

Unlisted(company, id) == ListedBy(company) \ {id}

\* Any editor may delete it; only the list of the editor's company is updated.
DeleteAssetOperation(u, id) ==
  /\ id \in DOMAIN operations
  /\ LET company == GetDelegatorAddress(u)
     IN  /\ operationIds' = Put(operationIds, company, Unlisted(company, id))
         /\ orphaned' = orphaned \cup
              {i \in {id} : \E c \in DOMAIN operationIds \ {company} : id \in operationIds[c]}
  /\ operations' = Without(operations, id)
  /\ UNCHANGED <<categories, materials, offers>>

AssetOperationController == \E u \in Users : AtLeast(u, "Editor") /\
  \/ \E inputs \in SUBSET DOMAIN materials, output \in DOMAIN materials :
       \/ /\ MayAdd(operations) /\ Cardinality(ListedBy(GetDelegatorAddress(u))) < MaxEntries
          /\ CreateAssetOperation(u, inputs, output)
       \/ \E id \in DOMAIN operations : UpdateAssetOperation(id, inputs, output)
  \/ \E id \in DOMAIN operations : DeleteAssetOperation(u, id)
================================================================================
