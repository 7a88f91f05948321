------------------------------- MODULE Admission -------------------------------
(***************************************************************************)
(* How a create request comes to be admitted, in front of the handlers of  *)
(* DualPersistence: its form is validated, then a bearer is introspected   *)
(* by Shared Auth, or, without one, a Turnstile proof is redeemed, then    *)
(* the idempotency-key and origin headers are read, and only then is the   *)
(* submission stored, under the subject that was found.                    *)
(*                                                                         *)
(*   form -> [introspect | siteverify] -> headers -> store_primary ...     *)
(*                                                                         *)
(* A client repeats one form under one key, but each of its requests       *)
(* brings its own credentials: another bearer, or another proof.  Tokens   *)
(* are revoked, and answers of the two authorities are lost, at any time.  *)
(***************************************************************************)
EXTENDS DualPersistence

CONSTANTS
  Payload,     \* forms, the field turnstileToken apart
  Token,       \* bearer tokens
  Grant,       \* what Shared Auth says of a token while it is active
  NoSubject,   \* a sub claim that is missing or that VerifiedSubject refuses
  NoHeader,    \* no Authorization header
  BadHeader,   \* one that bearer_token refuses
  NoProof,     \* no turnstileToken, or one verify refuses by its form
  Foreign      \* a proof solved for another action or hostname

(* A widget solves a proof for each request; a repeated request may bring  *)
(* an old one all the same.                                                *)
Proof == Id

ASSUME DigestAssumption == Digest = Payload \X (Proof \cup {NoProof})
ASSUME GrantAssumption ==
  Grant \in [Token -> [sub : Subject \cup {NoSubject}, audience : BOOLEAN, scope : BOOLEAN]]
ASSUME NoneAssumption ==
  /\ NoSubject \notin Subject
  /\ {NoHeader, BadHeader} \cap Token = {} /\ NoHeader # BadHeader
  /\ {NoProof, Foreign} \cap Proof = {} /\ NoProof # Foreign

(* valid: the contract's validate() accepts the form.  headers: the        *)
(* idempotency key and the origin are in order.                            *)
Request == [bearer : Token \cup {NoHeader, BadHeader},
            proof : Proof \cup {NoProof, Foreign},
            valid : BOOLEAN, headers : BOOLEAN]

VARIABLES
  stage,      \* the call of admission a client's request is at
  request,    \* the latest request of a client that reached a call
  active,     \* tokens not revoked
  redeemed,   \* proofs Turnstile has redeemed
  vouched,    \* whom an authority has vouched for, in which request
  denied      \* requests answered 401, 403 or 422

authorities == <<active, redeemed>>
admission == <<stage, request, authorities, vouched, denied>>
admissionVars == <<vars, admission>>

AdmissionInit ==
  /\ Init
  /\ \A c \in Client :
       /\ input[c].digest[2] = NoProof
       /\ input[c].subject = Anonymous \/ input[c].kind = "referral"
  /\ stage = [c \in Client |-> "none"]
  /\ request = [c \in Client |-> [bearer |-> NoHeader, proof |-> NoProof,
                                  valid |-> FALSE, headers |-> FALSE]]
  /\ active = Token
  /\ redeemed = {}
  /\ vouched = {}
  /\ denied = {}

PayloadOf(x) == x.digest[1]

(* Variant: the digest of the whole form. *)
DigestWithProof(c) == <<PayloadOf(input[c]), request[c].proof>>

(* canonical_digest_without_turnstile: proof refreshed, digest unchanged. *)
CanonicalDigest(c) == <<PayloadOf(input[c]), NoProof>>

-----------------------------------------------------------------------------
(* What Shared Auth and Turnstile stand for, whatever the code concludes.  *)
Entitled(t) ==
  t \in active /\ Grant[t].audience /\ Grant[t].scope /\ Grant[t].sub \in Subject

Redeemable(p) == p \in Proof \ redeemed

Vouch(c, who) == vouched' = vouched \cup {<<FreshId(c), who>>}

-----------------------------------------------------------------------------
(* authorize_introspection, and the subject's own check.  Variant: the     *)
(* audience is not compared.                                               *)
AuthorizesAnyAudience(t) == t \in active /\ Grant[t].scope /\ Grant[t].sub # NoSubject

Authorizes(t) ==
  t \in active /\ Grant[t].audience /\ Grant[t].scope /\ Grant[t].sub # NoSubject

(* A request refused for good. *)
Deny(c) ==
  /\ stage' = [stage EXCEPT ![c] = "none"]
  /\ denied' = denied \cup {FreshId(c)}
  /\ UNCHANGED <<pc, input>>

(* Variant: the headers are looked at beside the store, not before it. *)
AdmitBeforeHeaders(c, subject) ==
  /\ stage' = [stage EXCEPT ![c] = "none"]
  /\ denied' = IF request[c].headers THEN denied ELSE denied \cup {FreshId(c)}
  /\ Goto(c, "idle", "store_primary")
  /\ input' = [input EXCEPT ![c].subject = subject, ![c].digest = CanonicalDigest(c)]

(* submission_context: the headers, and the context the handler stores.    *)
Admit(c, subject) ==
  IF request[c].headers
    THEN /\ stage' = [stage EXCEPT ![c] = "none"]
         /\ Goto(c, "idle", "store_primary")
         /\ input' = [input EXCEPT ![c].subject = subject, ![c].digest = CanonicalDigest(c)]
         /\ UNCHANGED denied
    ELSE Deny(c)

-----------------------------------------------------------------------------
(* What a request meets first: a bearer is introspected and never passed   *)
(* over, and a proof is redeemed only where a bearer is not required.      *)
FirstStage(c, r) ==
  CASE r.valid /\ r.bearer \in Token -> "introspect"
    [] r.valid /\ r.bearer = NoHeader /\ r.proof # NoProof /\ input[c].kind # "referral"
         -> "siteverify"
    [] OTHER -> "none"

(* The credentials a client's next request may bring: without a bearer, a  *)
(* proof the widget has just solved, an old one, or none; with a bearer,   *)
(* a proof just solved, which should make no difference.                   *)
Requests(c) ==
  {r \in Request :
     IF r.bearer = NoHeader
       THEN r.proof \in Proof => r.proof \in {c} \X (1 .. try[c] + 1)
       ELSE r.proof = <<c, try[c] + 1>>}

(* A request in order, as far as its client can tell. *)
Sound(c, r) ==
  /\ r.valid /\ r.headers
  /\ IF r.bearer = NoHeader
       THEN input[c].kind # "referral" /\ r.proof = <<c, try[c] + 1>>
       ELSE r.bearer \in Token /\ Entitled(r.bearer)

(* A client sends its form, or sends it again.  A request not in order     *)
(* counts as one of the faults the model is bounded by.                    *)
Send(c, r) ==
  /\ try[c] < MaxTries /\ pc[c] = "idle" /\ stage[c] = "none"
  /\ IF Sound(c, r) THEN UNCHANGED faults ELSE Fault
  /\ try' = [try EXCEPT ![c] = @ + 1]
  /\ IF FirstStage(c, r) = "none"
       THEN denied' = denied \cup {<<c, try[c] + 1>>} /\ UNCHANGED <<stage, request>>
       ELSE /\ stage' = [stage EXCEPT ![c] = FirstStage(c, r)]
            /\ request' = [request EXCEPT ![c] = r]
            /\ UNCHANGED denied
  /\ UNCHANGED <<primaryDb, mirrorDb, pc, input, storedId, replies, authorities, vouched>>

-----------------------------------------------------------------------------
(* Authenticator::verify is answered. *)
Introspect(c) ==
  LET t == request[c].bearer
  IN /\ stage[c] = "introspect"
     /\ IF Entitled(t) THEN Vouch(c, Grant[t].sub) ELSE UNCHANGED vouched
     /\ IF Authorizes(t) THEN Admit(c, Grant[t].sub) ELSE Deny(c)
     /\ UNCHANGED <<primaryDb, mirrorDb, try, storedId, replies, faults, request, authorities>>

(* Variant: without a decision the request goes on as an anonymous one. *)
FallBackToProof(c) ==
  /\ stage[c] = "introspect"
  /\ Fault
  /\ stage' = [stage EXCEPT ![c] = FirstStage(c, [request[c] EXCEPT !.bearer = NoHeader])]
  /\ UNCHANGED <<primaryDb, mirrorDb, pc, input, try, storedId, replies,
                 request, authorities, vouched, denied>>

(* No decision: no answer, a server error or a broken body is 503, any     *)
(* other status or an unusable body 401; or the handler is dropped.        *)
FailIntrospect(c) ==
  /\ stage[c] = "introspect"
  /\ Fault
  /\ stage' = [stage EXCEPT ![c] = "none"]
  /\ denied' \in {denied, denied \cup {FreshId(c)}}
  /\ UNCHANGED <<primaryDb, mirrorDb, pc, input, try, storedId, replies,
                 request, authorities, vouched>>

-----------------------------------------------------------------------------
(* TurnstileVerifier::verify is answered: a proof is good once. *)
Redeem(c) == redeemed' = redeemed \cup ({request[c].proof} \cap Proof)

Siteverify(c) ==
  LET good == Redeemable(request[c].proof)
  IN /\ stage[c] = "siteverify"
     /\ Redeem(c)
     /\ IF good THEN Vouch(c, Anonymous) /\ Admit(c, Anonymous)
                ELSE UNCHANGED vouched /\ Deny(c)
     /\ UNCHANGED <<primaryDb, mirrorDb, try, storedId, replies, faults, request, active>>

(* Variant: transport ambiguity taken for a success. *)
AdmitUnanswered(c) ==
  /\ stage[c] = "siteverify"
  /\ Fault
  /\ Redeem(c) \/ UNCHANGED redeemed
  /\ Admit(c, Anonymous)
  /\ UNCHANGED <<primaryDb, mirrorDb, try, storedId, replies, request, active, vouched>>

(* No answer, or one that cannot be read (503), a proof that has expired   *)
(* (422), or a dropped handler; the proof may be spent all the same.       *)
FailSiteverify(c) ==
  /\ stage[c] = "siteverify"
  /\ Fault
  /\ stage' = [stage EXCEPT ![c] = "none"]
  /\ Redeem(c) \/ UNCHANGED redeemed
  /\ denied' \in {denied, denied \cup {FreshId(c)}}
  /\ UNCHANGED <<primaryDb, mirrorDb, pc, input, try, storedId, replies,
                 request, active, vouched>>

-----------------------------------------------------------------------------
(* Shared Auth revokes a token, or it expires. *)
Revoke(t) ==
  /\ t \in active
  /\ Fault
  /\ active' = active \ {t}
  /\ UNCHANGED <<primaryDb, mirrorDb, pc, input, try, storedId, replies,
                 stage, request, redeemed, vouched, denied>>

Admitting(c) == Introspect(c) \/ Siteverify(c) \/ FailIntrospect(c) \/ FailSiteverify(c)

(* Past admission a request is handled as in DualPersistence. *)
Persisting(c) == (Handle(c) \/ Misfortune(c)) /\ UNCHANGED admission

AdmissionNext ==
  \/ \E c \in Client :
       \/ \E r \in Requests(c) : Send(c, r)
       \/ Admitting(c)
       \/ Persisting(c)
  \/ \E t \in Token : Revoke(t)

AdmissionSpec == AdmissionInit /\ [][AdmissionNext]_admissionVars

(* A client not yet accepted sends again, with fresh credentials; calls    *)
(* that are neither failed nor dropped return.                             *)
SendSound(c) == \E r \in Requests(c) : Sound(c, r) /\ Send(c, r)

AdmissionFairness ==
  \A c \in Client :
    /\ WF_admissionVars(SendSound(c))
    /\ WF_admissionVars(Introspect(c) \/ Siteverify(c))
    /\ WF_admissionVars(Handle(c) /\ UNCHANGED admission)

FairAdmission == AdmissionSpec /\ AdmissionFairness

-----------------------------------------------------------------------------
(* Nothing is stored, in either database, for somebody no authority has    *)
(* vouched for: a primary row's subject was introspected, or its proof     *)
(* redeemed, for the very request that stored it, and a mirror row's for   *)
(* a request.  Lost answers, revoked tokens and repeated proofs included.  *)
RowsAreVouchedFor ==
  /\ \A row \in primaryRows : <<row.id, row.subject>> \in vouched
  /\ \A row \in mirrorRows : \E id \in Id : <<id, row.subject>> \in vouched

(* A request that brought a bearer is never handled as an anonymous one,   *)
(* nor its proof spent, however its introspection ends.                    *)
NeverDowngraded ==
  \A c \in Client :
    stage[c] = "siteverify" \/ (pc[c] \in Calls /\ input[c].subject = Anonymous)
      => request[c].bearer = NoHeader

(* docs/architecture.md: validation and identity failures mutate nothing.  *)
RefusalsStoreNothing ==
  \A row \in primaryRows \cup mirrorRows : row.id \notin denied

(* The key is bound to another form. *)
Contested(c) ==
  \E row \in primaryRows : SameSlot(row, input[c]) /\ PayloadOf(row) # PayloadOf(input[c])

(* A public client that repeats its form with fresh credentials is         *)
(* accepted once failures stop, unless another form holds its key: a proof *)
(* spent on a lost answer, on bad headers or on a submission that was left *)
(* half stored is no obstacle, and neither is a change of identity.        *)
FreshCredentialsSucceed ==
  \A c \in Client :
    input[c].kind \notin {"application", "referral"} =>
      <>[](pc[c] = "accepted" \/ Contested(c))

-----------------------------------------------------------------------------
AdmissionTypeOK ==
  /\ stage \in [Client -> {"none", "introspect", "siteverify"}]
  /\ request \in [Client -> Request]
  /\ active \subseteq Token
  /\ redeemed \subseteq Proof
  /\ vouched \subseteq Id \X (Subject \cup {Anonymous})
  /\ denied \subseteq Id

(* A request under admission has stored nothing and been told nothing. *)
BeingAdmitted(c) ==
  stage[c] # "none" =>
    /\ pc[c] = "idle" /\ try[c] >= 1
    /\ FreshId(c) \notin denied
    /\ \A row \in primaryRows : row.id # FreshId(c)
    /\ stage[c] = "introspect" => request[c].bearer \in Token
    /\ stage[c] = "siteverify" => request[c].bearer = NoHeader /\ input[c].kind # "referral"

(* A request past admission was vouched for, and is not denied. *)
Admitted(c) ==
  pc[c] \in Calls =>
    /\ <<FreshId(c), input[c].subject>> \in vouched
    /\ FreshId(c) \notin denied
    /\ input[c].subject = Anonymous => request[c].bearer = NoHeader

(* Requests admitted keep the invariant of the handlers, and what is       *)
(* stored was vouched for and is denied to nobody it was stored for.       *)
AdmissionInv ==
  /\ IInv
  /\ AdmissionTypeOK
  /\ \A c \in Client : BeingAdmitted(c) /\ Admitted(c)
  /\ \A id \in denied : id[2] <= try[id[1]]
  /\ RowsAreVouchedFor
  /\ RefusalsStoreNothing
=============================================================================
