---------------------------- MODULE MCESDTLedger ----------------------------
(* ESDTLedger on two shards: alice and bob on shard s1, the contract vault on
   shard s2. *)
EXTENDS ESDTLedger, TLC, FiniteSetsExt

CONSTANTS alice, bob, vault, s1, s2

MCShardOf == (alice :> s1) @@ (bob :> s1) @@ (vault :> s2)

AllRoles == [a \in Accounts |->
                    CASE a = alice -> {"ESDTRoleLocalMint", "ESDTRoleLocalBurn"}
                      [] a = vault -> {"ESDTRoleTransfer"}
                      [] OTHER -> {}]

(* What interferes with the transfers of a behaviour: all of it at once would be
   out of reach. *)
VARIABLE interference

SettingsStay(changing) == \A s \in Shards : settings[s] \subseteq changing

RolesStay(some) == \A x \in some : roles[x[1]][x[2]] = IF x[2] \in InitRoles[x[1]] THEN 1 ELSE 0

AddressesStay == \A s \in Shards : transferAddresses[s] = {}

MayBeFrozen(some) == \A a \in Accounts \ some : ~frozen[a]

MayBeDenied(some) == denied["sender"] \cup denied["receiver"] \subseteq some

SingleUnits == \A i \in Slots : Free(i) \/ inflight[i].value = 1

Interferes ==
    \/ /\ interference = "freezes"
       /\ SettingsStay({"Paused"}) /\ RolesStay(Accounts \X Roles) /\ AddressesStay
       /\ MayBeDenied({})
    \/ /\ interference = "limits"
       /\ SettingsStay({"LimitedTransfer"})
       /\ RolesStay(Accounts \X Roles \ {<<vault, "ESDTRoleTransfer">>})
       /\ MayBeFrozen({}) /\ MayBeDenied({})
       /\ inflight[2] = NoMessage /\ SingleUnits /\ burned = 0
    \/ /\ interference = "verdicts"
       /\ SettingsStay({}) /\ RolesStay(Accounts \X Roles) /\ AddressesStay
       /\ MayBeFrozen({bob}) /\ MayBeDenied({alice, vault})
       /\ SingleUnits /\ burned = 0
    \/ /\ interference = "settings"
       /\ SettingsStay({"Paused", "BurnRoleForAll"}) /\ RolesStay(Accounts \X Roles) /\ AddressesStay
       /\ MayBeFrozen({}) /\ MayBeDenied({})
       /\ SingleUnits

MCInit == Init /\ interference \in {"freezes", "limits", "verdicts", "settings"}

MCNext == UNCHANGED interference /\ Next /\ Interferes'

MCSpec == MCInit /\ [][MCNext]_<<vars, interference>>

(* Total is the sum its name says, on every function of a small space. *)
ASSUME TotalIsSum ==
    \A f \in [1..3 -> 0..2] : Total(f) = MapThenSumSet(LAMBDA x : f[x], 1..3)
=============================================================================
