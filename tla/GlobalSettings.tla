-------------------------- MODULE GlobalSettings --------------------------
(* The settings of tokens under the system account of a shard                 *)
(* (esdtGlobalSettings.go, esdtMetaData.go, esdtSetTokenType.go): pause,      *)
(* limited transfer, burning for all and the type of a token share two bytes, *)
(* which every order reads, changes in part and writes back. Records written  *)
(* before there were types have 0 for the type, and a token without a record  *)
(* has no bytes at all.                                                       *)
EXTENDS Naturals, Sequences

CONSTANTS Tokens

Location == [Paused |-> 1, LimitedTransfer |-> 2, BurnRoleForAll |-> 4]
Settings == DOMAIN Location

(* ESDTTypeForGlobalSettingsHandler, from 1; notSet is 0.                     *)
TypeCodes ==
  <<"Fungible", "NonFungible", "NonFungibleV2", "MetaFungible", "SemiFungible",
    "DynamicNFT", "DynamicSFT", "DynamicMeta">>
Types == {TypeCodes[i] : i \in DOMAIN TypeCodes}

VARIABLES
  stored,
  last    \* the last order
vars == <<stored, last>>

IsBitSet(byte, location) == (byte \div location) % 2 = 1

(* ESDTGlobalMetadataFromBytes.                                               *)
FromBytes_FlagsOnly(bytes) ==
  [on |-> IF Len(bytes) = 2 THEN {x \in Settings : IsBitSet(bytes[1], Location[x])} ELSE {},
   tokenType |-> 0]

FromBytes(bytes) ==
  IF Len(bytes) # 2 THEN [on |-> {}, tokenType |-> 0]
  ELSE [on |-> {x \in Settings : IsBitSet(bytes[1], Location[x])}, tokenType |-> bytes[2]]

ToBytes(metadata) ==
  LET Bit(x) == IF x \in metadata.on THEN Location[x] ELSE 0
  IN <<Bit("Paused") + Bit("LimitedTransfer") + Bit("BurnRoleForAll"), metadata.tokenType>>

Init ==
  /\ stored \in [Tokens -> {<<>>} \cup {<<flags, 0>> : flags \in 0..7}]
  /\ last = <<>>

ToggleSetting(t, setting, set) ==
  LET old == FromBytes(stored[t])
  IN /\ stored' = [stored EXCEPT ![t] =
           ToBytes([old EXCEPT !.on = IF set THEN @ \cup {setting} ELSE @ \ {setting}])]
     /\ last' = <<t, setting, set>>

(* convertToGlobalSettingsHandlerTokenType and back.                          *)
CodeOf(type) == CHOOSE i \in DOMAIN TypeCodes : TypeCodes[i] = type

GetTokenType(t) ==
  LET code == FromBytes(stored[t]).tokenType
  IN IF code = 0 THEN "NonFungible" ELSE TypeCodes[code]

SetTokenType(t, type) ==
  /\ stored' = [stored EXCEPT ![t] = ToBytes([FromBytes(@) EXCEPT !.tokenType = CodeOf(type)])]
  /\ last' = <<t, type>>

Next ==
  \E t \in Tokens :
    \/ \E setting \in Settings, set \in BOOLEAN : ToggleSetting(t, setting, set)
    \/ \E type \in Types : SetTokenType(t, type)

Spec == Init /\ [][Next]_vars

-----------------------------------------------------------------------------
(* The two bytes behave as four settings that know nothing of one another:    *)
(* IsPaused, IsLimitedTransfer, IsBurnForAll and GetTokenType answer what the *)
(* last order about each said, whatever was ordered of the others since.      *)
Book == INSTANCE SettingsBook
  WITH on <- [t \in Tokens |-> FromBytes(stored[t]).on],
       type <- [t \in Tokens |-> GetTokenType(t)]
SettingsAreIndependent == Book!Spec
=============================================================================
