------------------------------ MODULE MCAdmission ------------------------------
(* Instances of Admission for TLC. *)
EXTENDS Admission, TLC

CONSTANTS alice, own, other, reader, nobody

(* One good token of alice's; one for another audience, one without the    *)
(* write scope, and one without a usable subject.                          *)
Grants ==
  [t \in Token |-> [sub |-> IF t = nobody THEN NoSubject ELSE alice,
                    audience |-> t # other, scope |-> t # reader]]

Digests == Payload \X ((Client \X (1 .. MaxTries)) \cup {NoProof})
=============================================================================
