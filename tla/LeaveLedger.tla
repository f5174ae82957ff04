---------------------------- MODULE LeaveLedger ----------------------------
(***************************************************************************)
(* What the leave service promises of the days it counts: those asked for  *)
(* are held on the holder's account while somebody decides, and then       *)
(* taken, or given back, once.                                             *)
(***************************************************************************)
EXTENDS Integers

CONSTANTS Items, Accounts, Nobody

VARIABLES
  item,     \* item[i]: its phase, whose it is and what it costs
  account   \* account[a]: what is held and what has been taken

None == [phase |-> "none", holder |-> Nobody, cost |-> 0]

Moves(i, from, to) ==
  /\ item[i].phase = from
  /\ item' = [item EXCEPT ![i].phase = to]

\* The holder's account, if there is one, changes by so much.
Books(i, held, taken) ==
  account' = [a \in DOMAIN account |->
                IF a = item[i].holder
                THEN [held |-> account[a].held + held, taken |-> account[a].taken + taken]
                ELSE account[a]]

Write(i) ==
  /\ item[i] = None
  /\ item'[i].phase = "draft"
  /\ item'[i].cost > 0
  /\ item' = [item EXCEPT ![i] = item'[i]]
  /\ UNCHANGED account

Hold(i) == Moves(i, "draft", "held") /\ Books(i, item[i].cost, 0)
Take(i) == Moves(i, "held", "taken") /\ Books(i, -item[i].cost, item[i].cost)
GiveBack(i) == Moves(i, "held", "released") /\ Books(i, -item[i].cost, 0)
Drop(i) == Moves(i, "draft", "released") /\ UNCHANGED account

Init ==
  /\ item = [i \in Items |-> None]
  /\ account = [a \in Accounts |-> [held |-> 0, taken |-> 0]]

Next == \E i \in Items : Write(i) \/ Hold(i) \/ Take(i) \/ GiveBack(i) \/ Drop(i)

Spec == Init /\ [][Next]_<<item, account>>

===========================================================================
