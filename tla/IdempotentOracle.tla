-------------------------- MODULE IdempotentOracle --------------------------
(***************************************************************************)
(* What an Idempotency-Key promises, without saying how: a slot (one key of  *)
(* one workspace) is written once, and whoever is answered for a slot is     *)
(* given what is written there.                                              *)
(***************************************************************************)
CONSTANTS Callers, Slots, Answers

VARIABLES recorded,  \* the slots that are written: pairs slot, answer
          given      \* the answers given: triples caller, slot, answer

Init == recorded = {} /\ given = {}

\* A slot that is empty takes an answer, for good.
Record(s, a) ==
  /\ \A b \in Answers : <<s, b>> \notin recorded
  /\ recorded' = recorded \cup {<<s, a>>}
  /\ UNCHANGED given

\* A caller is given what its slot holds.
Give(c, s, a) ==
  /\ <<s, a>> \in recorded
  /\ given' = given \cup {<<c, s, a>>}
  /\ UNCHANGED recorded

Next ==
  \E s \in Slots, a \in Answers :
    Record(s, a) \/ \E c \in Callers : Give(c, s, a)

Spec == Init /\ [][Next]_<<recorded, given>>
=============================================================================
