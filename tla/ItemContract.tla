----------------------------- MODULE ItemContract -----------------------------
(***************************************************************************)
(* What a processor promises about its items, whatever the batches,        *)
(* messages, workers and restarts behind them: the outside world is acted  *)
(* on only inside the RUNNING window of the item, a success is recorded    *)
(* only after the outside world was acted on, and a recorded result is     *)
(* never changed.                                                          *)
(***************************************************************************)
CONSTANT Items

VARIABLES item,       \* JobItem.status
          effected    \* items the outside world acted on

contractVars == <<item, effected>>

Init == /\ item = [i \in Items |-> "PENDING"]
        /\ effected = {}

Put(S, s) == item' = [i \in Items |-> IF i \in S THEN s ELSE item[i]]

Start(i) == /\ item[i] = "PENDING"
            /\ Put({i}, "RUNNING")
            /\ UNCHANGED effected

Act(i) == /\ item[i] = "RUNNING"
          /\ effected' = effected \cup {i}
          /\ UNCHANGED item

Succeed(i) == /\ item[i] = "RUNNING"
              /\ i \in effected
              /\ Put({i}, "SUCCEEDED")
              /\ UNCHANGED effected

GiveBack(i) == /\ item[i] = "RUNNING"
               /\ Put({i}, "PENDING")
               /\ UNCHANGED effected

Fail == /\ \E S \in SUBSET {i \in Items : item[i] \in {"PENDING", "RUNNING"}} :
             Put(S, "FAILED")
        /\ UNCHANGED effected

Cancel == /\ \E S \in SUBSET {i \in Items : item[i] = "PENDING"} : Put(S, "CANCELLED")
          /\ UNCHANGED effected

Next == \/ \E i \in Items : Start(i) \/ Act(i) \/ Succeed(i) \/ GiveBack(i)
        \/ Fail
        \/ Cancel

Spec == Init /\ [][Next]_contractVars
=============================================================================
