------------------------------ MODULE Issuing ------------------------------
(***************************************************************************)
(* Delegation credentials at their source: a record is wrapped and signed, *)
(* perhaps written as a JWT, read back by its receiver, and forwarded by a *)
(* server in the headers of an outbound call.                              *)
(*                                                                         *)
(* Dates are ticks, TicksPerSec to the second; an optional value is a set  *)
(* with at most one member, and a zero or an empty one is what JavaScript  *)
(* takes for absent.                                                       *)
(***************************************************************************)
EXTENDS Integers, FiniteSets

CONSTANTS
    IssuedRecords,  \* the delegations issued, with the options of the call
    SigningDid,     \* the identity of the issuing service
    IssuerKey,      \* key of each DID
    Servers,        \* [did, method]: the servers that forward a delegation
    Sessions,       \* [agent, id]: their sessions, "" for one without an agent or an id
    TicksPerSec,
    ProofLifetime,  \* seconds an outbound proof lives
    IssueTime       \* bound on the clock

VARIABLES
    credentials,   \* [record, options, vc]: what was issued
    forwarded,     \* [record, session, headers, at]: outbound calls
    issueTime

issuingVars == <<credentials, forwarded, issueTime>>

IssuingInit == credentials = {} /\ forwarded = {} /\ issueTime = TicksPerSec

AnyOf(s) == CHOOSE x \in s : TRUE
Truthy(s) == {x \in s : x # 0}
FirstOf(s, t) == IF s # {} THEN s ELSE t
Seconds(ticks) == ticks \div TicksPerSec

-----------------------------------------------------------------------------
(* Issuing.                                                                *)

\* Mutant of wrapDelegationAsVC: the parent is not carried over.
WrapAsRoot(record, options, now) ==
    [id |-> AnyOf(FirstOf(options.id, record.vcId)), issuer |-> record.issuerDid,
     issued |-> AnyOf(FirstOf(options.issued, FirstOf(Truthy(record.createdAt), {now}))),
     expires |-> FirstOf({n * TicksPerSec : n \in Truthy(record.constraints.notAfter)}, options.expires),
     subject |-> record.subjectDid,
     delegation |-> [record EXCEPT !.parentId = {}], status |-> options.status]

\* wrapDelegationAsVC: a notAfter, unless zero, takes the place of the option's date.
wrapDelegationAsVC(record, options, now) ==
    [id |-> AnyOf(FirstOf(options.id, record.vcId)), issuer |-> record.issuerDid,
     issued |-> AnyOf(FirstOf(options.issued, FirstOf(Truthy(record.createdAt), {now}))),
     expires |-> FirstOf({n * TicksPerSec : n \in Truthy(record.constraints.notAfter)}, options.expires),
     subject |-> record.subjectDid, delegation |-> record, status |-> options.status]

\* A credential and its embedded proof.
DelegationCredential(vc, proof) == [vc |-> vc, proof |-> proof]

\* issueDelegationCredential: the service's own key over the credential without proof,
\* whoever the record names as issuer.
issueDelegationCredential(record, options, now) ==
    LET vc == wrapDelegationAsVC(record, options, now)
    IN DelegationCredential(vc, {[type |-> "Ed25519Signature2020", key |-> IssuerKey[SigningDid], over |-> vc]})

\* The record of a new delegation, active unless the caller says otherwise.
DelegationRecord(params, now) ==
    [id |-> params.id, issuerDid |-> params.issuerDid, subjectDid |-> params.subjectDid,
     controller |-> params.controller, parentId |-> params.parentId, constraints |-> params.constraints,
     status |-> AnyOf(FirstOf(params.status, {"active"})),
     vcId |-> FirstOf(params.options.id, {<<"urn", params.id>>}), createdAt |-> {now}]

createAndIssueDelegation(params) ==
    LET record == DelegationRecord(params, issueTime)
    IN /\ \A k \in credentials : k.record.id # params.id
       /\ credentials' = credentials \cup {[record |-> record, options |-> params.options,
                                            vc |-> issueDelegationCredential(record, params.options, issueTime)]}
       /\ UNCHANGED <<forwarded, issueTime>>

-----------------------------------------------------------------------------
(* Reading.                                                                *)

readCredentialProofValue(signed) == signed.proof

isSupportedCredentialProofType(type) == type \in {"Ed25519Signature2020", "DataIntegrityProof"}

\* extractDelegationFromVC: vcId from the credential, or made from the delegation's id.
extractDelegationFromVC(signed) ==
    [id |-> signed.vc.delegation.id, issuerDid |-> signed.vc.delegation.issuerDid,
     subjectDid |-> signed.vc.delegation.subjectDid, controller |-> signed.vc.delegation.controller,
     parentId |-> signed.vc.delegation.parentId, constraints |-> signed.vc.delegation.constraints,
     status |-> signed.vc.delegation.status,
     vcId |-> {signed.vc.id}, createdAt |-> signed.vc.delegation.createdAt]

\* validateDelegationCredential.
validateDelegationCredential(vc) ==
    /\ vc.issuer # "" /\ vc.subject # ""
    /\ vc.delegation.id # "" /\ vc.delegation.issuerDid # "" /\ vc.delegation.subjectDid # ""

\* Expired by its date, to the tick, or by notAfter, to the second.
isDelegationCredentialExpired(vc, now) ==
    \/ \E e \in vc.expires : e < now
    \/ \E n \in vc.delegation.constraints.notAfter : Seconds(now) > n

isDelegationCredentialNotYetValid(vc, now) ==
    \E n \in vc.delegation.constraints.notBefore : Seconds(now) < n

\* createUnsignedVCJWT: the dates in whole seconds, left out if zero.
createUnsignedVCJWT(vc) ==
    [iss |-> vc.issuer, sub |-> vc.subject, jti |-> vc.id, vc |-> vc,
     exp |-> Truthy({Seconds(e) : e \in vc.expires}), iat |-> Truthy({Seconds(vc.issued)})]

\* completeVCJWT: signed by the same service.
completeVCJWT(payload) == [payload |-> payload, key |-> IssuerKey[SigningDid]]

\* validateJwtTimeBounds: no leeway for exp.
validateJwtTimeBounds(payload, now) == \A e \in payload.exp : now < e * TicksPerSec

\* validateBasicProperties: only an active delegation, within its bounds.
validateBasicProperties(vc, now) ==
    /\ validateDelegationCredential(vc)
    /\ ~ isDelegationCredentialExpired(vc, now)
    /\ ~ isDelegationCredentialNotYetValid(vc, now)
    /\ vc.delegation.status = "active"

\* verifySignature: a supported suite, by the key of the issuer named, over this credential.
Accepted(signed, now) ==
    /\ validateBasicProperties(signed.vc, now)
    /\ \E p \in readCredentialProofValue(signed) :
          isSupportedCredentialProofType(p.type) /\ p.key = IssuerKey[signed.vc.issuer] /\ p.over = signed.vc

\* prepareVcJwtCredential and the signature under the key of iss.
AcceptedAsJwt(jwt, now) ==
    /\ validateJwtTimeBounds(jwt.payload, now)
    /\ validateBasicProperties(jwt.payload.vc, now)
    /\ jwt.payload.iss = jwt.payload.vc.issuer
    /\ jwt.key = IssuerKey[jwt.payload.iss]

-----------------------------------------------------------------------------
(* Forwarding.                                                             *)

\* Mutant of buildDelegationProofJWT: the subject of the delegation in place of the agent
\* of the session.
ProofForSubject(server, agent, record, host, now) ==
    [iss |-> server, sub |-> record.subjectDid, delegation |-> record.id, chain |-> AnyOf(record.vcId), aud |-> host,
     iat |-> Seconds(now), exp |-> Seconds(now) + ProofLifetime, key |-> IssuerKey[server]]

\* buildDelegationProofJWT: the server for the agent, to one host, for a minute.
buildDelegationProofJWT(server, agent, record, host, now) ==
    [iss |-> server, sub |-> agent, delegation |-> record.id, chain |-> AnyOf(record.vcId), aud |-> host,
     iat |-> Seconds(now), exp |-> Seconds(now) + ProofLifetime, key |-> IssuerKey[server]]

\* buildOutboundDelegationHeaders: unless the session has no agent or no id, the record
\* no credential, or the server is not a did:key.  Whether the delegation is valid, and
\* the agent's, is not looked at.
buildOutboundDelegationHeaders(k, server, session, host) ==
    LET record == extractDelegationFromVC(k.vc)
        headers == [agent |-> session.agent, chain |-> AnyOf(record.vcId), session |-> session.id,
                    proof |-> buildDelegationProofJWT(server.did, session.agent, record, host, issueTime)]
    IN /\ forwarded = {}
       /\ session.agent # "" /\ session.id # "" /\ record.vcId # {} /\ server.method = "key"
       /\ forwarded' = {[record |-> k.record, session |-> session, headers |-> headers, at |-> issueTime]}
       /\ UNCHANGED <<credentials, issueTime>>

IssueTick ==
    /\ issueTime < IssueTime
    /\ issueTime' = issueTime + 1
    /\ UNCHANGED <<credentials, forwarded>>

IssuingNext ==
    \/ \E params \in IssuedRecords : createAndIssueDelegation(params)
    \/ \E k \in credentials, server \in Servers, session \in Sessions :
          buildOutboundDelegationHeaders(k, server, session, "host")
    \/ IssueTick

-----------------------------------------------------------------------------
(* Property.                                                               *)

Within(record, options, now) ==
    /\ \A n \in record.constraints.notBefore : Seconds(now) >= n
    /\ \A n \in record.constraints.notAfter : n # 0 => now <= n * TicksPerSec
    /\ record.constraints.notAfter = {0} => FALSE
    /\ record.constraints.notAfter = {} => \A e \in options.expires : now <= e

\* What a delegator issued is what everyone after it reads: the record comes back from
\* the credential as it was, parent, controller and bounds included; at each instant a
\* active credential signed by the issuer it names is accepted exactly within those bounds,
\* whichever date carries them, one that names another issuer never is, and as a JWT it
\* is never accepted for longer.  An outbound call names the delegation forwarded and its
\* own credential as they were issued, whatever its place in a chain, the agent of the
\* session in header and proof, also where the delegation is another's, and a proof that
\* lasts its lifetime and no more (wrapDelegationAsVC, extractDelegationFromVC,
\* createUnsignedVCJWT, buildOutboundDelegationHeaders).  The header comment
\* (outbound-headers.ts:9) and SPEC.md 8.2 say otherwise of the chain and of sub.
IssuedFaithfully ==
    /\ \A k \in credentials :
         /\ extractDelegationFromVC(k.vc) = k.record
         /\ Accepted(k.vc, issueTime) <=>
               k.record.issuerDid = SigningDid /\ k.record.status = "active" /\ Within(k.record, k.options, issueTime)
         /\ AcceptedAsJwt(completeVCJWT(createUnsignedVCJWT(k.vc.vc)), issueTime) => Accepted(k.vc, issueTime)
    /\ \A f \in forwarded :
         LET proof == f.headers.proof
             id == AnyOf(f.record.vcId)
         IN /\ f.headers.chain = id /\ proof.chain = id /\ proof.delegation = f.record.id
            /\ f.headers.agent = f.session.agent /\ proof.sub = f.session.agent
            /\ f.headers.session = f.session.id
            /\ proof.exp - Seconds(f.at) = ProofLifetime
=============================================================================
