--------------------------- MODULE SettingsBook ---------------------------
(* What the orders about a token promise in a shard: each changes the one     *)
(* setting it is about, and a token whose type nobody has set is taken for a  *)
(* non-fungible one.                                                          *)
CONSTANTS Tokens, Settings, Types

VARIABLES
  on, type,
  last  \* the last order
vars == <<on, type, last>>

Init ==
  /\ on \in [Tokens -> SUBSET Settings]
  /\ type = [t \in Tokens |-> "NonFungible"]
  /\ last = <<>>

Toggle(t, setting, set) ==
  /\ on' = [on EXCEPT ![t] = IF set THEN @ \cup {setting} ELSE @ \ {setting}]
  /\ last' = <<t, setting, set>>
  /\ UNCHANGED type

SetType(t, new) ==
  /\ type' = [type EXCEPT ![t] = new]
  /\ last' = <<t, new>>
  /\ UNCHANGED on

Next ==
  \E t \in Tokens :
    \/ \E setting \in Settings, set \in BOOLEAN : Toggle(t, setting, set)
    \/ \E new \in Types : SetType(t, new)

Spec == Init /\ [][Next]_vars
=============================================================================
