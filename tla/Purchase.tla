------------------------------ MODULE Purchase ------------------------------
(***************************************************************************)
(* What an idempotency key promises to whoever sends it: one use of its    *)
(* access code is held for it, the use is paid for only after the model    *)
(* produced a report, or it is returned.  Several keys may charge one      *)
(* code.  A key that is settled can be settled once more, but only at the  *)
(* expense of another key that still waits on the same code, so a code     *)
(* never sees more settlements than claims, and a key alone on its code is *)
(* settled once.  Without a code (open mode) nothing is held and nothing   *)
(* stops a second settlement.  AnalysisLifecycle implements this.          *)
(***************************************************************************)
EXTENDS Integers

CONSTANTS Keys, Codes, NoCode

VARIABLES
  use,       \* of each key: "none", "reserved", "consumed" or "released"
  code,      \* the code a key charges
  held,      \* of each code: uses held for the keys that charge it
  reported   \* keys the model has produced a report for

purchases == <<use, code, held, reported>>

Init ==
  /\ use = [k \in Keys |-> "none"]
  /\ code = [k \in Keys |-> NoCode]
  /\ held = [c \in Codes |-> 0]
  /\ reported = {}

Reserve(k, c) ==
  /\ use[k] = "none"
  /\ use' = [use EXCEPT ![k] = "reserved"]
  /\ code' = [code EXCEPT ![k] = c]
  /\ held' = IF c = NoCode THEN held ELSE [held EXCEPT ![c] = @ + 1]
  /\ UNCHANGED reported

\* Another key still waits on the code of k.
Waits(k) == \E j \in Keys \ {k} : use[j] = "reserved" /\ code[j] = code[k]

Settle(k, outcome) ==
  /\ \/ use[k] = "reserved"
     \/ use[k] \in {"consumed", "released"} /\ (code[k] = NoCode \/ Waits(k))
  /\ outcome = "consumed" => k \in reported
  /\ use' = [use EXCEPT ![k] = outcome]
  /\ \/ code[k] = NoCode /\ held' = held
     \/ code[k] # NoCode /\ held[code[k]] > 0 /\ held' = [held EXCEPT ![code[k]] = @ - 1]
  /\ UNCHANGED <<code, reported>>

Report(k) ==
  /\ use[k] # "none"
  /\ reported' = reported \cup {k}
  /\ UNCHANGED <<use, code, held>>

Next ==
  \E k \in Keys :
    \/ \E c \in Codes \cup {NoCode} : Reserve(k, c)
    \/ \E outcome \in {"consumed", "released"} : Settle(k, outcome)
    \/ Report(k)

Spec == Init /\ [][Next]_purchases
=============================================================================
