---------------------------- MODULE AdmissionProofs ----------------------------
(***************************************************************************)
(* Proofs about Admission, for every set of clients, forms, tokens and     *)
(* grants and every bound.  Admission leaves the databases alone, so the   *)
(* handlers keep the invariant of DualPersistence although a client's      *)
(* identity changes from one request to the next; and a row is only ever   *)
(* added by a request past admission, for the subject found there.         *)
(***************************************************************************)
EXTENDS Admission, DualPersistenceProofs

LEMMA FreshIdTyped ==
  ASSUME IInv, NEW c \in Client, try[c] >= 1
  PROVE  FreshId(c) \in Id
BY DEF IInv, TypeOK, FreshId, Id

(* A decision that stores nothing and says nothing keeps IInv. *)
LEMMA SilencePreservesIInv ==
  ASSUME IInv, faults' \in 0 .. MaxFaults,
         UNCHANGED <<primaryDb, mirrorDb, pc, input, try, storedId, replies>>
  PROVE  IInv'
<1>1. TypeOK' /\ IdsAreSpent' /\ HandlerInv' /\ RepliesInv'
  BY DEF IInv, TypeOK, DatabaseTypeOK, IdsAreSpent, HandlerInv, Backed, FreshId, RepliesInv,
     Truthful, primaryDb, mirrorDb
<1>2. DatabaseInv'
  BY DEF IInv, DatabaseInv, KeysBindOnce, IdsAreUnique, MirrorFollowsPrimary, OutboxComplete,
     AcknowledgementIsTrue, StatusesAgree, Stored, primaryDb, mirrorDb
<1>. QED
  BY <1>1, <1>2 DEF IInv

(* Ids are drawn anew with each request. *)
LEMMA NextIdIsUnused ==
  ASSUME IInv, NEW c \in Client
  PROVE  \A row \in primaryRows : row.id # <<c, try[c] + 1>>
<1>. SUFFICES ASSUME NEW row \in primaryRows, row.id = <<c, try[c] + 1>> PROVE FALSE
  OBVIOUS
<1>1. PICK d \in Client : \E n \in 1 .. try[d] : row.id = <<d, n>>
  BY DEF IInv, IdsAreSpent
<1>. QED
  BY <1>1 DEF IInv, TypeOK

LEMMA SendPreservesIInv ==
  ASSUME IInv, NEW c \in Client, NEW r, Send(c, r)
  PROVE  IInv'
<1>1. /\ try[c] \in Nat /\ try[c] < MaxTries /\ pc[c] = "idle"
      /\ try' = [try EXCEPT ![c] = try[c] + 1]
      /\ UNCHANGED <<primaryDb, mirrorDb, pc, input, storedId, replies>>
      /\ faults' \in 0 .. MaxFaults
  BY FaultsAssumption DEF Send, Fault, IInv, TypeOK
<1>2. TypeOK'
  BY <1>1, TriesAssumption DEF IInv, TypeOK, DatabaseTypeOK, primaryDb, mirrorDb
<1>3. IdsAreSpent'
  <2>1. SUFFICES ASSUME NEW row \in primaryRows
                 PROVE  \E d \in Client : \E n \in 1 .. try'[d] : row.id = <<d, n>>
    BY <1>1 DEF IdsAreSpent, primaryDb
  <2>2. PICK d \in Client : \E n \in 1 .. try[d] : row.id = <<d, n>>
    BY DEF IInv, IdsAreSpent
  <2>3. 1 .. try[d] \subseteq 1 .. try'[d]
    BY <1>1 DEF IInv, TypeOK
  <2>. QED
    BY <2>2, <2>3
<1>4. HandlerInv'
  <2>1. SUFFICES ASSUME NEW d \in Client PROVE Backed(d)'
    BY DEF HandlerInv
  <2>2. CASE d = c
    BY <1>1, <2>2 DEF Backed
  <2>3. CASE d # c
    BY <1>1, <2>3 DEF Backed, FreshId, IInv, TypeOK, HandlerInv, primaryDb, mirrorDb
  <2>. QED
    BY <2>2, <2>3
<1>5. RepliesInv' /\ DatabaseInv'
  BY <1>1 DEF IInv, RepliesInv, Truthful, DatabaseInv, KeysBindOnce, IdsAreUnique,
     MirrorFollowsPrimary, OutboxComplete, AcknowledgementIsTrue, StatusesAgree, Stored,
     primaryDb, mirrorDb
<1>. QED
  BY <1>2, <1>3, <1>4, <1>5 DEF IInv

(* An admitted request starts the handler of its own submission. *)
Starts(c, subject) ==
  /\ pc' = [pc EXCEPT ![c] = "store_primary"]
  /\ input' = [input EXCEPT ![c].subject = subject, ![c].digest = CanonicalDigest(c)]

LEMMA CanonicalSubmission ==
  ASSUME NEW c \in Client, NEW subject \in Subject \cup {Anonymous}, IInv, Starts(c, subject),
         input[c].kind = "referral" => subject \in Subject
  PROVE  /\ input'[c] \in Submission /\ input'[c].subject = subject
         /\ input' \in [Client -> Submission]
         /\ \A d \in Client : d # c => input'[d] = input[d]
<1>1. input \in [Client -> Submission] /\ input[c] \in Submission
  BY DEF IInv, TypeOK
<1>2. CanonicalDigest(c) \in Digest
  BY <1>1, DigestAssumption DEF CanonicalDigest, PayloadOf, Submission
<1>3. input'[c] = [input[c] EXCEPT !.subject = subject, !.digest = CanonicalDigest(c)]
  BY <1>1 DEF Starts
<1>4. input'[c] \in Submission /\ input'[c].subject = subject
  BY <1>1, <1>2, <1>3 DEF Submission
<1>. QED
  BY <1>1, <1>4 DEF Starts

LEMMA StartPreservesIInv ==
  ASSUME IInv, NEW c \in Client, NEW subject \in Subject \cup {Anonymous}, Starts(c, subject),
         input[c].kind = "referral" => subject \in Subject,
         try[c] >= 1, \A row \in primaryRows : row.id # FreshId(c),
         UNCHANGED <<primaryDb, mirrorDb, try, storedId, replies>>, faults' \in 0 .. MaxFaults
  PROVE  IInv'
<1>1. /\ input' \in [Client -> Submission]
      /\ \A d \in Client : d # c => input'[d] = input[d]
  BY CanonicalSubmission
<1>2. pc \in [Client -> States] /\ pc' = [pc EXCEPT ![c] = "store_primary"]
  BY DEF IInv, TypeOK, Starts
<1>3. TypeOK'
  BY <1>1, <1>2 DEF IInv, TypeOK, DatabaseTypeOK, States, Calls, primaryDb, mirrorDb
<1>4. HandlerInv'
  <2>1. SUFFICES ASSUME NEW d \in Client PROVE Backed(d)'
    BY DEF HandlerInv
  <2>2. CASE d = c
    BY <1>2, <2>2 DEF Backed, FreshId, primaryDb
  <2>3. CASE d # c
    BY <1>1, <1>2, <2>3 DEF Backed, FreshId, IInv, HandlerInv, primaryDb, mirrorDb
  <2>. QED
    BY <2>2, <2>3
<1>5. IdsAreSpent' /\ RepliesInv' /\ DatabaseInv'
  BY DEF IInv, IdsAreSpent, RepliesInv, Truthful, DatabaseInv, KeysBindOnce, IdsAreUnique,
     MirrorFollowsPrimary, OutboxComplete, AcknowledgementIsTrue, StatusesAgree, Stored,
     primaryDb, mirrorDb
<1>. QED
  BY <1>3, <1>4, <1>5 DEF IInv

-----------------------------------------------------------------------------
(* What AdmissionInv says beyond the handlers' own invariant. *)
AdmissionPart ==
  /\ AdmissionTypeOK
  /\ \A c \in Client : BeingAdmitted(c) /\ Admitted(c)
  /\ \A id \in denied : id[2] <= try[id[1]]
  /\ RowsAreVouchedFor
  /\ RefusalsStoreNothing

LEMMA PartsMakeTheInvariant == AdmissionInv <=> IInv /\ AdmissionPart
BY DEF AdmissionInv, AdmissionPart

LEMMA InitEstablishesAdmissionInv == AdmissionInit => AdmissionInv
<1>. SUFFICES ASSUME AdmissionInit PROVE AdmissionInv
  OBVIOUS
<1>1. IInv
  BY InitEstablishesIInv DEF AdmissionInit
<1>2. AdmissionTypeOK
  BY NoneAssumption DEF AdmissionInit, AdmissionTypeOK, Request
<1>3. \A c \in Client : BeingAdmitted(c) /\ Admitted(c)
  BY DEF AdmissionInit, Init, BeingAdmitted, Admitted, Calls
<1>4. RowsAreVouchedFor /\ RefusalsStoreNothing /\ denied = {}
  BY DEF AdmissionInit, Init, EmptyDatabases, RowsAreVouchedFor, RefusalsStoreNothing
<1>. QED
  BY <1>1, <1>2, <1>3, <1>4 DEF AdmissionInv

(* Every row of the mirror has the id of a row of the primary. *)
LEMMA DenialsConcernNoRow ==
  ASSUME IInv, NEW id, \A row \in primaryRows : row.id # id
  PROVE  \A row \in primaryRows \cup mirrorRows : row.id # id
BY DEF IInv, DatabaseInv, MirrorFollowsPrimary, Stored

-----------------------------------------------------------------------------
(* A client sends. *)
LEMMA SendPreservesPart ==
  ASSUME IInv, AdmissionPart, NEW c \in Client, NEW r \in Requests(c), Send(c, r)
  PROVE  AdmissionPart'
<1>. DEFINE id == <<c, try[c] + 1>>
<1>1. /\ try[c] \in Nat /\ try[c] < MaxTries /\ pc[c] = "idle" /\ stage[c] = "none"
      /\ try' = [try EXCEPT ![c] = try[c] + 1]
      /\ UNCHANGED <<primaryRows, mirrorRows, pc, input, active, redeemed, vouched>>
      /\ r \in Request
  BY DEF Send, Requests, authorities, primaryDb, mirrorDb, IInv, TypeOK
<1>2. /\ id \in Id
      /\ \A row \in primaryRows \cup mirrorRows : row.id # id
      /\ id \notin denied
      /\ FreshId(c)' = id
      /\ \A d \in Client : d # c => FreshId(d)' = FreshId(d)
  <2>1. \A row \in primaryRows : row.id # id
    BY NextIdIsUnused
  <2>2. id \in Id /\ id \notin denied
    BY <1>1, TriesAssumption DEF Id, AdmissionPart
  <2>3. FreshId(c)' = id /\ \A d \in Client : d # c => FreshId(d)' = FreshId(d)
    BY <1>1 DEF FreshId, IInv, TypeOK
  <2>. QED
    BY <2>1, <2>2, <2>3, DenialsConcernNoRow
<1>3. \/ /\ FirstStage(c, r) = "none"
         /\ denied' = denied \cup {id} /\ UNCHANGED <<stage, request>>
      \/ /\ FirstStage(c, r) # "none"
         /\ stage' = [stage EXCEPT ![c] = FirstStage(c, r)]
         /\ request' = [request EXCEPT ![c] = r]
         /\ UNCHANGED denied
  BY DEF Send
<1>4. /\ FirstStage(c, r) \in {"none", "introspect", "siteverify"}
      /\ FirstStage(c, r) = "introspect" => r.bearer \in Token
      /\ FirstStage(c, r) = "siteverify" => r.bearer = NoHeader /\ input[c].kind # "referral"
  BY DEF FirstStage
<1>5. AdmissionTypeOK'
  BY <1>1, <1>2, <1>3, <1>4 DEF AdmissionPart, AdmissionTypeOK
<1>6. ASSUME NEW d \in Client PROVE BeingAdmitted(d)' /\ Admitted(d)'
  <2>1. CASE d = c
    <3>1. try'[c] >= 1 /\ pc'[c] \notin Calls
      BY <1>1 DEF Calls, IInv, TypeOK
    <3>2. BeingAdmitted(c)'
      <4>1. CASE stage'[c] = "none"
        BY <4>1 DEF BeingAdmitted
      <4>2. CASE stage'[c] # "none"
        <5>1. /\ stage'[c] = FirstStage(c, r) /\ request'[c] = r /\ denied' = denied
          BY <1>1, <1>3, <4>2 DEF AdmissionPart, AdmissionTypeOK
        <5>. QED
          BY <1>1, <1>2, <1>4, <3>1, <5>1 DEF BeingAdmitted
      <4>. QED
        BY <4>1, <4>2
    <3>. QED
      BY <2>1, <3>1, <3>2 DEF Admitted
  <2>2. CASE d # c
    <3>1. /\ BeingAdmitted(d) /\ Admitted(d)
          /\ stage'[d] = stage[d] /\ request'[d] = request[d] /\ try'[d] = try[d]
          /\ FreshId(d) # id
      BY <1>1, <1>3, <2>2 DEF AdmissionPart, AdmissionTypeOK, IInv, TypeOK, FreshId
    <3>2. FreshId(d) \in denied' => FreshId(d) \in denied
      BY <1>3, <3>1
    <3>. QED
      BY <1>1, <1>2, <2>2, <3>1, <3>2 DEF BeingAdmitted, Admitted
  <2>. QED
    BY <2>1, <2>2
<1>7. \A i \in denied' : i[2] <= try'[i[1]]
  <2>1. SUFFICES ASSUME NEW i \in denied' PROVE i[2] <= try'[i[1]]
    OBVIOUS
  <2>2. CASE i = id
    BY <1>1, <2>2 DEF IInv, TypeOK
  <2>3. CASE i \in denied
    <3>1. i[1] \in Client /\ i[2] \in Nat /\ i[2] <= try[i[1]]
      BY <2>3 DEF AdmissionPart, AdmissionTypeOK, Id
    <3>2. try[i[1]] \in Nat /\ try'[i[1]] \in Nat /\ try[i[1]] <= try'[i[1]]
      BY <1>1, <3>1 DEF IInv, TypeOK
    <3>. QED
      BY <3>1, <3>2
  <2>. QED
    BY <1>3, <2>2, <2>3
<1>8. RowsAreVouchedFor' /\ RefusalsStoreNothing'
  BY <1>1, <1>2, <1>3 DEF AdmissionPart, RowsAreVouchedFor, RefusalsStoreNothing
<1>. QED
  BY <1>5, <1>6, <1>7, <1>8 DEF AdmissionPart

-----------------------------------------------------------------------------
(* Admission ends: the request is denied, is given up, or goes on under a  *)
(* subject it was vouched for.                                             *)
GivesUp(c) ==
  /\ UNCHANGED <<pc, input>>
  /\ denied' \in {denied, denied \cup {FreshId(c)}}

GoesOn(c, subject) ==
  /\ subject \in Subject \cup {Anonymous}
  /\ input[c].kind = "referral" => subject \in Subject
  /\ subject = Anonymous => request[c].bearer = NoHeader
  /\ Starts(c, subject)
  /\ UNCHANGED denied
  /\ <<FreshId(c), subject>> \in vouched'

LEMMA DecisionPreserves ==
  ASSUME IInv, AdmissionPart, NEW c \in Client, stage[c] # "none",
         stage' = [stage EXCEPT ![c] = "none"],
         UNCHANGED <<primaryDb, mirrorDb, try, storedId, replies, request>>,
         faults' \in 0 .. MaxFaults,
         vouched \subseteq vouched', vouched' \subseteq Id \X (Subject \cup {Anonymous}),
         active' \subseteq Token, redeemed' \subseteq Proof,
         NEW subject, GivesUp(c) \/ GoesOn(c, subject)
  PROVE  IInv' /\ AdmissionPart'
<1>1. /\ pc[c] = "idle" /\ try[c] >= 1 /\ FreshId(c) \notin denied /\ FreshId(c) \in Id
      /\ \A row \in primaryRows \cup mirrorRows : row.id # FreshId(c)
      /\ UNCHANGED <<primaryRows, mirrorRows>>
  BY FreshIdTyped, DenialsConcernNoRow DEF AdmissionPart, BeingAdmitted, primaryDb, mirrorDb
<1>2. denied' \in {denied, denied \cup {FreshId(c)}}
  BY DEF GivesUp, GoesOn
<1>3. AdmissionTypeOK'
  BY <1>1, <1>2 DEF AdmissionPart, AdmissionTypeOK
<1>4. ASSUME NEW d \in Client PROVE BeingAdmitted(d)' /\ Admitted(d)'
  <2>1. CASE d = c
    <3>1. stage'[c] = "none"
      BY DEF AdmissionPart, AdmissionTypeOK
    <3>2. CASE GivesUp(c)
      BY <1>1, <2>1, <3>1, <3>2 DEF GivesUp, BeingAdmitted, Admitted, Calls
    <3>3. CASE GoesOn(c, subject)
      <4>1. input'[c].subject = subject
        BY <3>3, CanonicalSubmission DEF GoesOn
      <4>2. FreshId(c)' = FreshId(c)
        BY DEF FreshId
      <4>. QED
        BY <1>1, <2>1, <3>1, <3>3, <4>1, <4>2 DEF GoesOn, BeingAdmitted, Admitted
    <3>. QED
      BY <3>2, <3>3
  <2>2. CASE d # c
    <3>1. /\ BeingAdmitted(d) /\ Admitted(d)
          /\ stage'[d] = stage[d] /\ pc'[d] = pc[d] /\ input'[d] = input[d]
          /\ FreshId(d)' = FreshId(d) /\ FreshId(d) # FreshId(c)
      <4>1. stage'[d] = stage[d] /\ FreshId(d)' = FreshId(d) /\ FreshId(d) # FreshId(c)
        BY <2>2 DEF AdmissionPart, AdmissionTypeOK, FreshId
      <4>2. pc'[d] = pc[d] /\ input'[d] = input[d]
        <5>1. CASE GivesUp(c)
          BY <5>1 DEF GivesUp
        <5>2. CASE GoesOn(c, subject)
          <6>1. input'[d] = input[d]
            BY <2>2, <5>2, CanonicalSubmission DEF GoesOn
          <6>2. pc \in [Client -> States] /\ pc' = [pc EXCEPT ![c] = "store_primary"]
            BY <5>2 DEF GoesOn, Starts, IInv, TypeOK
          <6>. QED
            BY <2>2, <6>1, <6>2
        <5>. QED
          BY <5>1, <5>2
      <4>. QED
        BY <4>1, <4>2 DEF AdmissionPart
    <3>2. FreshId(d) \in denied' => FreshId(d) \in denied
      BY <1>2, <3>1
    <3>3. UNCHANGED <<try, request, primaryRows>>
      BY <1>1
    <3>4. BeingAdmitted(d)'
      BY <3>1, <3>2, <3>3 DEF BeingAdmitted
    <3>5. Admitted(d)'
      BY <3>1, <3>2, <3>3 DEF Admitted
    <3>. QED
      BY <3>4, <3>5
  <2>. QED
    BY <2>1, <2>2
<1>5. \A i \in denied' : i[2] <= try'[i[1]]
  BY <1>2 DEF AdmissionPart, FreshId, IInv, TypeOK
<1>6. RowsAreVouchedFor' /\ RefusalsStoreNothing'
  BY <1>1, <1>2 DEF AdmissionPart, RowsAreVouchedFor, RefusalsStoreNothing
<1>7. IInv'
  <2>1. CASE GivesUp(c)
    BY <2>1, SilencePreservesIInv DEF GivesUp
  <2>2. CASE GoesOn(c, subject)
    BY <1>1, <2>2, StartPreservesIInv DEF GoesOn
  <2>. QED
    BY <2>1, <2>2
<1>. QED
  BY <1>3, <1>4, <1>5, <1>6, <1>7 DEF AdmissionPart

(* What each call of admission amounts to. *)
LEMMA IntrospectDecides ==
  ASSUME IInv, AdmissionPart, NEW c \in Client, Introspect(c)
  PROVE  IInv' /\ AdmissionPart'
<1>. DEFINE t == request[c].bearer
            subject == Grant[t].sub
<1>1. /\ stage[c] = "introspect" /\ t \in Token /\ FreshId(c) \in Id
      /\ UNCHANGED <<primaryDb, mirrorDb, try, storedId, replies, faults, request>>
      /\ active' \subseteq Token /\ redeemed' \subseteq Proof
      /\ faults' \in 0 .. MaxFaults /\ vouched \subseteq Id \X (Subject \cup {Anonymous})
  BY FreshIdTyped
     DEF Introspect, AdmissionPart, AdmissionTypeOK, BeingAdmitted, authorities, IInv, TypeOK
<1>2. /\ vouched \subseteq vouched' /\ vouched' \subseteq Id \X (Subject \cup {Anonymous})
      /\ Entitled(t) => vouched' = vouched \cup {<<FreshId(c), subject>>}
  BY <1>1 DEF Introspect, Entitled, Vouch
<1>3. CASE Authorizes(t)
  <2>1. subject \in Subject /\ Entitled(t)
    BY <1>1, <1>3, GrantAssumption DEF Authorizes, Entitled
  <2>2. Admit(c, subject)
    BY <1>3 DEF Introspect
  <2>3. stage' = [stage EXCEPT ![c] = "none"] /\ (GivesUp(c) \/ GoesOn(c, subject))
    BY <1>2, <2>1, <2>2, AnonymousAssumption DEF Admit, Deny, GivesUp, GoesOn, Starts, Goto
  <2>. QED
    BY <1>1, <1>2, <2>3, DecisionPreserves
<1>4. CASE ~ Authorizes(t)
  <2>1. stage' = [stage EXCEPT ![c] = "none"] /\ GivesUp(c)
    BY <1>4 DEF Introspect, Deny, GivesUp
  <2>. QED
    BY <1>1, <1>2, <2>1, DecisionPreserves
<1>. QED
  BY <1>3, <1>4

LEMMA SiteverifyDecides ==
  ASSUME IInv, AdmissionPart, NEW c \in Client, Siteverify(c)
  PROVE  IInv' /\ AdmissionPart'
<1>. DEFINE good == Redeemable(request[c].proof)
<1>1. /\ stage[c] = "siteverify" /\ FreshId(c) \in Id
      /\ request[c].bearer = NoHeader /\ input[c].kind # "referral"
      /\ UNCHANGED <<primaryDb, mirrorDb, try, storedId, replies, faults, request>>
      /\ active' \subseteq Token /\ redeemed' \subseteq Proof
      /\ faults' \in 0 .. MaxFaults /\ vouched \subseteq Id \X (Subject \cup {Anonymous})
  BY FreshIdTyped
     DEF Siteverify, Redeem, AdmissionPart, AdmissionTypeOK, BeingAdmitted, IInv, TypeOK
<1>2. CASE good
  <2>1. Vouch(c, Anonymous) /\ Admit(c, Anonymous)
    BY <1>2 DEF Siteverify
  <2>2. /\ vouched \subseteq vouched' /\ vouched' \subseteq Id \X (Subject \cup {Anonymous})
        /\ <<FreshId(c), Anonymous>> \in vouched'
    BY <1>1, <2>1 DEF Vouch
  <2>3. stage' = [stage EXCEPT ![c] = "none"] /\ (GivesUp(c) \/ GoesOn(c, Anonymous))
    BY <1>1, <2>1, <2>2 DEF Admit, Deny, GivesUp, GoesOn, Starts, Goto
  <2>. QED
    BY <1>1, <2>2, <2>3, DecisionPreserves
<1>3. CASE ~ good
  <2>1. UNCHANGED vouched /\ stage' = [stage EXCEPT ![c] = "none"] /\ GivesUp(c)
    BY <1>3 DEF Siteverify, Deny, GivesUp
  <2>. QED
    BY <1>1, <2>1, DecisionPreserves
<1>. QED
  BY <1>2, <1>3

LEMMA FailureDecides ==
  ASSUME IInv, AdmissionPart, NEW c \in Client, FailIntrospect(c) \/ FailSiteverify(c)
  PROVE  IInv' /\ AdmissionPart'
<1>1. /\ stage[c] # "none" /\ stage' = [stage EXCEPT ![c] = "none"] /\ GivesUp(c)
      /\ UNCHANGED <<primaryDb, mirrorDb, try, storedId, replies, request, vouched>>
      /\ faults' \in 0 .. MaxFaults
  BY FaultsAssumption DEF FailIntrospect, FailSiteverify, GivesUp, Fault, IInv, TypeOK
<1>2. /\ active' \subseteq Token /\ redeemed' \subseteq Proof
      /\ vouched \subseteq Id \X (Subject \cup {Anonymous})
  BY DEF FailIntrospect, FailSiteverify, Redeem, authorities, AdmissionPart, AdmissionTypeOK
<1>. QED
  BY <1>1, <1>2, DecisionPreserves

LEMMA RevocationPreserves ==
  ASSUME IInv, AdmissionPart, NEW t \in Token, Revoke(t)
  PROVE  IInv' /\ AdmissionPart'
<1>1. IInv'
  BY FaultsAssumption, SilencePreservesIInv DEF Revoke, Fault, IInv, TypeOK
<1>2. AdmissionPart'
  BY DEF Revoke, AdmissionPart, AdmissionTypeOK, BeingAdmitted, Admitted, FreshId,
     RowsAreVouchedFor, RefusalsStoreNothing, primaryDb, mirrorDb
<1>. QED
  BY <1>1, <1>2

-----------------------------------------------------------------------------
(* Past admission: what a handler does. *)
LEMMA PersistingPreserves ==
  ASSUME IInv, AdmissionPart, NEW c \in Client, Persisting(c)
  PROVE  IInv' /\ AdmissionPart'
<1>. Handle(c) \/ Misfortune(c)
  BY DEF Persisting
<1>1. UNCHANGED <<stage, request, active, redeemed, vouched, denied>>
  BY DEF Persisting, admission, authorities
<1>2. IInv'
  BY HandlingPreservesIInv, MisfortunePreservesIInv
<1>3. /\ pc[c] \in Calls \cup {"accepted"}
      /\ pc'[c] \in Calls => pc[c] \in Calls
      /\ \A d \in Client : d # c => pc'[d] = pc[d]
      /\ UNCHANGED <<input, try>>
  BY HandlerMoves
<1>4. \A row \in primaryRows' :
        row \in primaryRows \/ (pc[c] \in Calls /\ row = RowOf(input[c], FreshId(c)))
  BY RowsAdded
<1>5. \A row \in mirrorRows' :
        row \in mirrorRows \/ (pc[c] \in Calls /\ row = RowOf(input[c], storedId[c]))
  BY RowsAdded
<1>6. \A d \in Client : BeingAdmitted(d) /\ Admitted(d) /\ FreshId(d)' = FreshId(d)
  BY <1>3 DEF AdmissionPart, FreshId
<1>7. AdmissionTypeOK' /\ \A id \in denied' : id[2] <= try'[id[1]]
  BY <1>1, <1>3 DEF AdmissionPart, AdmissionTypeOK
<1>8. ASSUME NEW d \in Client PROVE BeingAdmitted(d)' /\ Admitted(d)'
  <2>1. CASE d = c
    BY <1>1, <1>3, <1>6, <2>1 DEF BeingAdmitted, Admitted, Calls
  <2>2. CASE d # c
    <3>1. \A row \in primaryRows' : row \in primaryRows \/ row.id # FreshId(d)
      BY <1>4, <2>2 DEF RowOf, FreshId
    <3>. QED
      BY <1>1, <1>3, <1>6, <2>2, <3>1 DEF BeingAdmitted, Admitted
  <2>. QED
    BY <2>1, <2>2
<1>9. RowsAreVouchedFor'
  <2>1. ASSUME NEW row \in primaryRows' PROVE <<row.id, row.subject>> \in vouched'
    <3>1. CASE row \in primaryRows
      BY <1>1, <3>1 DEF AdmissionPart, RowsAreVouchedFor
    <3>2. CASE pc[c] \in Calls /\ row = RowOf(input[c], FreshId(c))
      BY <1>1, <1>6, <3>2 DEF Admitted, RowOf
    <3>. QED
      BY <1>4, <3>1, <3>2
  <2>2. ASSUME NEW row \in mirrorRows' PROVE \E id \in Id : <<id, row.subject>> \in vouched'
    <3>1. CASE row \in mirrorRows
      BY <1>1, <3>1 DEF AdmissionPart, RowsAreVouchedFor
    <3>2. CASE pc[c] \in Calls /\ row = RowOf(input[c], storedId[c])
      BY <1>1, <1>6, <1>7, <3>2 DEF Admitted, RowOf, AdmissionTypeOK
    <3>. QED
      BY <1>5, <3>1, <3>2
  <2>. QED
    BY <2>1, <2>2 DEF RowsAreVouchedFor
<1>10. RefusalsStoreNothing'
  <2>1. ASSUME NEW row \in primaryRows' PROVE row.id \notin denied'
    <3>1. CASE row \in primaryRows
      BY <1>1, <3>1 DEF AdmissionPart, RefusalsStoreNothing
    <3>2. CASE pc[c] \in Calls /\ row = RowOf(input[c], FreshId(c))
      BY <1>1, <1>6, <3>2 DEF Admitted, RowOf
    <3>. QED
      BY <1>4, <3>1, <3>2
  <2>2. \A m \in mirrorRows' : \E row \in primaryRows' : row.id = m.id
    BY <1>2 DEF IInv, DatabaseInv, MirrorFollowsPrimary, Stored
  <2>. QED
    BY <2>1, <2>2 DEF RefusalsStoreNothing
<1>. QED
  BY <1>2, <1>7, <1>8, <1>9, <1>10 DEF AdmissionPart

-----------------------------------------------------------------------------
LEMMA NextPreservesAdmissionInv ==
  AdmissionInv /\ [AdmissionNext]_admissionVars => AdmissionInv'
<1>. SUFFICES ASSUME IInv, AdmissionPart, [AdmissionNext]_admissionVars
              PROVE  IInv' /\ AdmissionPart'
  BY PartsMakeTheInvariant, PTL
<1>1. ASSUME NEW c \in Client, \E r \in Requests(c) : Send(c, r)
      PROVE  IInv' /\ AdmissionPart'
  BY <1>1, SendPreservesIInv, SendPreservesPart
<1>2. ASSUME NEW c \in Client, Admitting(c)
      PROVE  IInv' /\ AdmissionPart'
  BY <1>2, IntrospectDecides, SiteverifyDecides, FailureDecides DEF Admitting
<1>3. CASE UNCHANGED admissionVars
  <2>1. IInv'
    BY <1>3, StutteringPreservesIInv DEF admissionVars
  <2>2. AdmissionPart'
    BY <1>3 DEF admissionVars, vars, control, admission, authorities, AdmissionPart,
       AdmissionTypeOK, BeingAdmitted, Admitted, FreshId, RowsAreVouchedFor,
       RefusalsStoreNothing, primaryDb, mirrorDb
  <2>. QED
    BY <2>1, <2>2
<1>. QED
  BY <1>1, <1>2, <1>3, PersistingPreserves, RevocationPreserves DEF AdmissionNext

(* Whatever credentials requests bring, and however Shared Auth and        *)
(* Turnstile fail: the handlers of api.rs keep their invariant, and what   *)
(* they store was vouched for.                                             *)
THEOREM AdmissionInvariant == AdmissionSpec => []AdmissionInv
BY InitEstablishesAdmissionInv, NextPreservesAdmissionInv, PTL DEF AdmissionSpec

(* No row of either database was stored for somebody whom neither          *)
(* authenticate_or_verify_public nor required_subject had found.           *)
THEOREM StoredIsVouchedFor == AdmissionSpec => []RowsAreVouchedFor
<1>1. AdmissionInv => RowsAreVouchedFor
  BY DEF AdmissionInv
<1>. QED
  BY <1>1, AdmissionInvariant, PTL

(* A bearer that cannot be verified ends the request: auth.rs never goes   *)
(* on to the Turnstile proof of an anonymous one.                          *)
THEOREM BearersAreNotDowngraded == AdmissionSpec => []NeverDowngraded
<1>1. AdmissionInv => NeverDowngraded
  BY DEF AdmissionInv, BeingAdmitted, Admitted, NeverDowngraded
<1>. QED
  BY <1>1, AdmissionInvariant, PTL

(* A request answered 401, 403 or 422 by api.rs has left no row behind.    *)
THEOREM DenialsMutateNothing == AdmissionSpec => []RefusalsStoreNothing
<1>1. AdmissionInv => RefusalsStoreNothing
  BY DEF AdmissionInv
<1>. QED
  BY <1>1, AdmissionInvariant, PTL

-----------------------------------------------------------------------------
(* Beside the handlers, admission leaves the databases alone.              *)
LEMMA OnlyHandlersStore ==
  ASSUME [AdmissionNext]_admissionVars
  PROVE  \/ [Next]_vars
         \/ UNCHANGED <<primaryDb, mirrorDb, replies>>
<1>1. CASE \E c \in Client : Persisting(c)
  BY <1>1 DEF Persisting, Next
<1>2. CASE \/ UNCHANGED admissionVars
           \/ \E c \in Client : (\E r \in Requests(c) : Send(c, r)) \/ Admitting(c)
           \/ \E t \in Token : Revoke(t)
  BY <1>2 DEF admissionVars, vars, control, Send, Admitting, Introspect, Siteverify,
     FailIntrospect, FailSiteverify, Revoke
<1>. QED
  BY <1>1, <1>2 DEF AdmissionNext

(* With admission in front, and clients whose identity changes between     *)
(* their requests, the handlers of api.rs still implement the ledger.      *)
THEOREM AdmissionImplementsLedger == AdmissionSpec => ImplementsLedger
<1>1. AdmissionInit => Ledger!Init
  BY DEF AdmissionInit, Init, EmptyDatabases, Ledger!Init, Created
<1>2. AdmissionInv /\ [AdmissionNext]_admissionVars => [Ledger!Next]_(Ledger!vars)
  BY OnlyHandlersStore, NextRefines, SilentStepRefines DEF AdmissionInv, primaryDb, mirrorDb
<1>. QED
  BY <1>1, <1>2, AdmissionInvariant, PTL DEF AdmissionSpec, ImplementsLedger, Ledger!Spec

(* ... and api.rs breaks none of the promises DualPersistence states of    *)
(* them: receipts are durable, the mirror follows, every row has its       *)
(* outbox entry, and a retry under other credentials is never a conflict.  *)
THEOREM AdmissionKeepsPromises == AdmissionSpec => []Promises
<1>1. AdmissionInv => Promises
  BY InvariantKeepsPromises DEF AdmissionInv
<1>. QED
  BY <1>1, AdmissionInvariant, PTL

(* ... nor does it rewrite a row, whoever repeats its submission.          *)
THEOREM AdmissionKeepsRows == AdmissionSpec => RowsAreImmutable
<1>1. AdmissionInv /\ AdmissionInv' /\ [AdmissionNext]_admissionVars =>
        [/\ primaryRows \subseteq primaryRows'
         /\ mirrorRows \subseteq mirrorRows'
         /\ outboxRows \subseteq outboxRows']_vars
  BY OnlyHandlersStore, RowsOnlyAdded DEF AdmissionInv, primaryDb, mirrorDb
<1>. QED
  BY <1>1, AdmissionInvariant, PTL DEF AdmissionSpec, RowsAreImmutable

(* ... and every outbox row of persistence.rs leads the life of            *)
(* OutboxRetry.                                                            *)
THEOREM AdmissionImplementsRetry == AdmissionSpec => EntriesFollowRetry
<1>1. AdmissionInit => UnusedEntriesAreNew /\ \A id \in Id : Delivery(id)!Init
  BY EntriesStartNew DEF AdmissionInit, Delivery!Init, Delivery!NewEntry, NewEntry
<1>2. AdmissionInv /\ UnusedEntriesAreNew /\ [AdmissionNext]_admissionVars
        => UnusedEntriesAreNew'
  <2>1. UNCHANGED primaryDb => (UnusedEntriesAreNew => UnusedEntriesAreNew')
    BY DEF UnusedEntriesAreNew, primaryDb
  <2>. QED
    BY <2>1, OnlyHandlersStore, UnusedEntriesStayNew DEF AdmissionInv
<1>3. AdmissionInv /\ UnusedEntriesAreNew /\ [AdmissionNext]_admissionVars =>
        [\A id \in Id : [Delivery(id)!Next]_(outbox[id])]_outbox
  BY OnlyHandlersStore, EntriesTakeRetrySteps DEF AdmissionInv, primaryDb
<1>. QED
  BY <1>1, <1>2, <1>3, AdmissionInvariant, PTL DEF AdmissionSpec, EntriesFollowRetry
=============================================================================
