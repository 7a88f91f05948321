--------------------------- MODULE SubmissionLedger ---------------------------
(***************************************************************************)
(* What the intake API promises of dual persistence, without handlers,     *)
(* outbox or failures: a ledger on two sites.  An entry is retained under  *)
(* an idempotency key that is then bound for ever to its digest and id; it *)
(* is copied unchanged to the mirror; and only an entry on both sites is   *)
(* ever acknowledged to a client.                                          *)
(***************************************************************************)
CONSTANTS Kind, Key, Digest, Id

VARIABLES retained,     \* entries of the primary site
          replicated,   \* entries of the mirror site
          receipts      \* entries acknowledged with 201

vars == <<retained, replicated, receipts>>

LedgerEntry == [kind : Kind, key : Key, digest : Digest, id : Id]

Init == /\ retained = {}
        /\ replicated = {}
        /\ receipts = {}

Retain(e) ==
  /\ \A r \in retained : r.id # e.id /\ ~ (r.kind = e.kind /\ r.key = e.key)
  /\ retained' = retained \cup {e}
  /\ UNCHANGED <<replicated, receipts>>

Replicate(e) ==
  /\ e \in retained
  /\ replicated' = replicated \cup {e}
  /\ UNCHANGED <<retained, receipts>>

Acknowledge(e) ==
  /\ e \in replicated
  /\ receipts' = receipts \cup {e}
  /\ UNCHANGED <<retained, replicated>>

Next == \E e \in LedgerEntry : Retain(e) \/ Replicate(e) \/ Acknowledge(e)

Spec == Init /\ [][Next]_vars
=============================================================================
