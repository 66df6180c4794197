---------------------------- MODULE AttemptLedger ----------------------------
(***************************************************************************)
(* What the directory of a study promises about work that costs requests,  *)
(* whoever does it: an attempt is on record, where the next run finds it,  *)
(* before it is made; a recorded attempt is never forgotten; and nothing   *)
(* is called completed that was never attempted.                           *)
(***************************************************************************)
EXTENDS Naturals

CONSTANT Items   \* what is attempted: blocks, or the stages of blocks

VARIABLES logged,   \* logged[i]: attempts on record
          made,     \* made[i]: attempts made
          claimed   \* items on record as completed

ledger == <<logged, made, claimed>>

Init ==
    /\ logged = [i \in Items |-> 0]
    /\ made = [i \in Items |-> 0]
    /\ claimed = {}

\* The record grows; claims may be given up, and made for what was attempted.
Record ==
    /\ logged' \in [Items -> Nat]
    /\ \A i \in Items : logged'[i] >= logged[i]
    /\ claimed' \subseteq Items
    /\ \A i \in claimed' \ claimed : made[i] > 0
    /\ UNCHANGED made

\* An attempt is made that is already on record.
Make(i) ==
    /\ made[i] < logged'[i]
    /\ logged' \in [Items -> Nat]
    /\ \A k \in Items : logged'[k] >= logged[k]
    /\ made' = [made EXCEPT ![i] = @ + 1]
    /\ UNCHANGED claimed

Next == Record \/ \E i \in Items : Make(i)

Spec == Init /\ [][Next]_ledger
=============================================================================
