----------------------------- MODULE CodeBalance -----------------------------
(***************************************************************************)
(* What an access code promises to its owner: an account of uses.  Uses    *)
(* are granted, one is held while an analysis runs, and a held use is      *)
(* either spent or given back.  Every move is atomic and no use is held    *)
(* that was not granted.  Nothing is said of sessions, requests or rows:   *)
(* UsageAuthorizer is shown to implement this account.                     *)
(***************************************************************************)
EXTENDS Integers

CONSTANT Codes

VARIABLES
  total,  \* uses granted
  held,   \* uses held for analyses under way
  spent   \* uses paid for by a report

account == <<total, held, spent>>

Init ==
  /\ total = [c \in Codes |-> 0]
  /\ held = [c \in Codes |-> 0]
  /\ spent = [c \in Codes |-> 0]

Grant(c) ==
  /\ total'[c] > total[c]
  /\ total' = [total EXCEPT ![c] = total'[c]]
  /\ UNCHANGED <<held, spent>>

Hold(c) ==
  /\ held[c] + spent[c] < total[c]
  /\ held' = [held EXCEPT ![c] = @ + 1]
  /\ UNCHANGED <<total, spent>>

Spend(c) ==
  /\ held[c] > 0
  /\ held' = [held EXCEPT ![c] = @ - 1]
  /\ spent' = [spent EXCEPT ![c] = @ + 1]
  /\ UNCHANGED total

GiveBack(c) ==
  /\ held[c] > 0
  /\ held' = [held EXCEPT ![c] = @ - 1]
  /\ UNCHANGED <<total, spent>>

Next == \E c \in Codes : Grant(c) \/ Hold(c) \/ Spend(c) \/ GiveBack(c)

Spec == Init /\ [][Next]_account
=============================================================================
