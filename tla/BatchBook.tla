------------------------------ MODULE BatchBook ------------------------------
(* What a transfer of several tokens promises: all of them leave together,    *)
(* travel together and arrive, return or are lost together. An amount of      *)
(* every token changes hands in one step here; the code takes the tokens of a *)
(* batch one after the other, and a token may be in it more than once.        *)
EXTENDS Integers

CONSTANTS Accounts, Tokens, Slots, NoBatch

VARIABLES
  holdings,  \* [Accounts -> [Tokens -> Nat]]
  flight,    \* batches between shards: [from, to, amount: [Tokens -> Nat]]
  lost       \* what no account can get any more
vars == <<holdings, flight, lost>>

Plus(f, g) == [t \in Tokens |-> f[t] + g[t]]
Minus(f, g) == [t \in Tokens |-> f[t] - g[t]]

(* What a parts with in a step: amounts of what it has.                       *)
Given(a) == Minus(holdings[a], holdings'[a])
Gives(a) == \A t \in Tokens : Given(a)[t] \in 0..holdings[a][t]

Init ==
  /\ holdings \in [Accounts -> [Tokens -> Nat]]
  /\ flight = [i \in Slots |-> NoBatch]
  /\ lost = [t \in Tokens |-> 0]

Move(a, b) ==
  /\ a # b /\ Gives(a)
  /\ holdings' = [holdings EXCEPT ![a] = Minus(@, Given(a)), ![b] = Plus(@, Given(a))]
  /\ UNCHANGED <<flight, lost>>

Depart(a, b, i) ==
  /\ a # b /\ Gives(a) /\ flight[i] = NoBatch
  /\ holdings' = [holdings EXCEPT ![a] = Minus(@, Given(a))]
  /\ flight' = [flight EXCEPT ![i] = [from |-> a, to |-> b, amount |-> Given(a)]]
  /\ UNCHANGED lost

Arrive(i) ==
  /\ flight[i] # NoBatch
  /\ holdings' = [holdings EXCEPT ![flight[i].to] = Plus(@, flight[i].amount)]
  /\ flight' = [flight EXCEPT ![i] = NoBatch]
  /\ UNCHANGED lost

Turn(i) ==
  /\ flight[i] # NoBatch
  /\ flight' = [flight EXCEPT ![i] = [@ EXCEPT !.from = flight[i].to, !.to = flight[i].from]]
  /\ UNCHANGED <<holdings, lost>>

Lose(i) ==
  /\ flight[i] # NoBatch
  /\ lost' = Plus(lost, flight[i].amount)
  /\ flight' = [flight EXCEPT ![i] = NoBatch]
  /\ UNCHANGED holdings

Next ==
  \/ \E a, b \in Accounts : Move(a, b) \/ \E i \in Slots : Depart(a, b, i)
  \/ \E i \in Slots : Arrive(i) \/ Turn(i) \/ Lose(i)

Spec == Init /\ [][Next]_vars
=============================================================================
