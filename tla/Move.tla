-------------------------------- MODULE Move --------------------------------
(***************************************************************************)
(* What a transfer between two accounts promises (transfer.go): the amount *)
(* leaves one account in one step and reaches the other in a later one,    *)
(* each at most once, and nothing else moves an allocation.                *)
(***************************************************************************)
EXTENDS Integers

CONSTANTS Accounts, Xfers, Opening

VARIABLES alloc,   \* account -> units allocated to it
          under,   \* transfer -> [to, amount] while under way, or Home
          moved    \* transfers that have arrived

Home == [to |-> "home", amount |-> 0]

Init ==
  /\ alloc = [a \in Accounts |-> Opening]
  /\ under = [x \in Xfers |-> Home]
  /\ moved = {}

Leave(x) ==
  /\ under[x] = Home /\ x \notin moved
  /\ \E from, to \in Accounts : \E amount \in 1 .. alloc[from] :
       /\ from # to
       /\ alloc' = [alloc EXCEPT ![from] = @ - amount]
       /\ under' = [under EXCEPT ![x] = [to |-> to, amount |-> amount]]
  /\ UNCHANGED moved

Arrive(x) ==
  /\ under[x] # Home
  /\ alloc' = [alloc EXCEPT ![under[x].to] = @ + under[x].amount]
  /\ under' = [under EXCEPT ![x] = Home]
  /\ moved' = moved \cup {x}

Next == \E x \in Xfers : Leave(x) \/ Arrive(x)

Spec == Init /\ [][Next]_<<alloc, under, moved>>
=============================================================================
