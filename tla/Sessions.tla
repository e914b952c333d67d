-------------------------------- MODULE Sessions --------------------------------
(***************************************************************************)
(* AuthenticationService, DelegationService and the decorators that guard  *)
(* the controllers.  A user (a principal) presents a proof: a company      *)
(* delegates a role to an address, and an issuer vouches for the company.  *)
(* A proof names who made each signature; the time of a login is read      *)
(* before the address of the user is asked for, the session is made after. *)
(***************************************************************************)
EXTENDS Registry

CONSTANTS
  Users, Companies,
  MembershipIssuer,     \* Evm.MEMBERSHIP_ISSUER_ADDRESS
  LoginDuration,
  MaxAttempts,          \* bound on the calls of authenticate
  Horizon               \* bound on the time

ASSUME SessionsAssumption == LoginDuration \in Nat /\ MaxAttempts \in Nat /\ Horizon \in Nat

VARIABLES
  now,
  sessions,             \* _authentications: [company, role, expiration] by user
  logins,               \* calls of authenticate that wait for the address
  attempts              \* history: the calls of authenticate that were made

sessionVars == <<now, sessions, logins, attempts>>

Rank == [Viewer |-> 0, Editor |-> 1, Signer |-> 2]

\* Mutant of HasValidRoleProof: the expiry of the membership is not checked.
HasValidRole(proof, address, at) ==
  /\ proof.delegate = address /\ proof.signer = proof.company
  /\ at <= proof.delegateExpiry
  /\ proof.issuer = MembershipIssuer

\* A signature over other data recovers another signer, so a proof made for
\* another delegate address is refused like one of another signer.
HasValidRoleProof(proof, address, at) ==
  /\ proof.delegate = address /\ proof.signer = proof.company
  /\ at <= proof.delegateExpiry
  /\ proof.issuer = MembershipIssuer
  /\ at <= proof.delegatorExpiry

Authenticate(u, proof) ==
  /\ logins' = logins \cup {[user |-> u, proof |-> proof, at |-> now]}
  /\ attempts' = attempts \cup {[user |-> u, proof |-> proof, at |-> now]}
  /\ UNCHANGED <<now, sessions>>

SessionOf(login) ==
  [company |-> login.proof.company, role |-> login.proof.role,
   expiration |-> login.at + LoginDuration]

\* The identity provider answers with the address of the user, or with an error,
\* upon which authenticate throws, as it does when the proof is refused.
AddressAnswered(login, answered) ==
  /\ login \in logins /\ logins' = logins \ {login}
  /\ sessions' = IF answered /\ HasValidRoleProof(login.proof, login.user, login.at)
                 THEN Put(sessions, login.user, SessionOf(login))
                 ELSE sessions
  /\ UNCHANGED <<now, attempts>>

Logout(u) ==
  /\ u \in DOMAIN sessions
  /\ sessions' = Without(sessions, u)
  /\ UNCHANGED <<now, logins, attempts>>

\* getDelegatorAddress does not look at the expiry: the decorators do.
GetDelegatorAddress(u) == sessions[u].company

IsAuthenticated(u) == u \in DOMAIN sessions /\ sessions[u].expiration > now

\* Mutant of AtLeast: an expired session still has its role.
AtLeastEver(u, role) == u \in DOMAIN sessions /\ Rank[sessions[u].role] >= Rank[role]

AtLeast(u, role) == IsAuthenticated(u) /\ Rank[sessions[u].role] >= Rank[role]

AuthenticationController(proofs) ==
  \/ /\ Cardinality(attempts) < MaxAttempts
     /\ \E u \in Users, proof \in proofs : Authenticate(u, proof)
  \/ \E login \in logins, answered \in BOOLEAN : AddressAnswered(login, answered)
  \/ \E u \in Users : Logout(u)

TimePasses == now < Horizon /\ now' = now + 1 /\ UNCHANGED <<sessions, logins, attempts>>
================================================================================
