---------------------------- MODULE AddressCodec ----------------------------
(***************************************************************************)
(* Addresses: address_from_pubkey(), address_from_script() and             *)
(* address_to_script() (src/bitwalkit/address.py) over bech32_encode() and *)
(* bech32_decode() (encoding.py), and dust_threshold() (psbt.py) on the    *)
(* scripts they lead to.                                                   *)
(*                                                                         *)
(* Texts are taken apart: a segwit text is its prefix, its 5-bit symbols   *)
(* and the constant its checksum verifies under, or none; a Base58Check    *)
(* text is its payload and whether its checksum is right.  Base58 itself   *)
(* is module Base58, the regrouping of bits module BitGroups.              *)
(***************************************************************************)
EXTENDS BitStream

CONSTANTS
  Hash(_, _),     \* Hash(n, bytes): hash160() for 20 bytes, sha256() for 32
  OutputKey(_),   \* _taproot_output_key()
  Pubkeys, WitnessScripts,
  Texts,          \* texts a user may enter
  PushSizes       \* sizes of OP_RETURN data

VARIABLES
  pc,             \* "start", "written", "decoded" or "pushed"
  text,           \* the address at hand
  paid,           \* script and network the address was made for
  network,        \* the argument of address_to_script(), or "any" for None
  script          \* what it returned, or what op_return_script() returned

vars == <<pc, text, paid, network, script>>

-----------------------------------------------------------------------------
(* Scripts, as bytes.                                                      *)
P2PKH(h)    == <<118, 169, Len(h)>> \o h \o <<136, 172>>
P2SH(h)     == <<169, Len(h)>> \o h \o <<135>>
Witness(version, program) ==
  <<IF version = 0 THEN 0 ELSE 80 + version, Len(program)>> \o program
Hash160(bytes) == Hash(20, bytes)
SHA256(bytes)  == Hash(32, bytes)

(* _pushdata() without its data, and op_return_script().                   *)
LittleEndian(n, width) == [i \in 1 .. width |-> (n \div 256^(i - 1)) % 256]
PushPrefix(size) ==
  CASE size < 76                       -> <<size>>
    [] size \in 76 .. 2^8 - 1          -> <<76>> \o LittleEndian(size, 1)
    [] size \in 2^8 .. 2^16 - 1        -> <<77>> \o LittleEndian(size, 2)
    [] OTHER                           -> <<78>> \o LittleEndian(size, 4)

-----------------------------------------------------------------------------
(* NETWORKS and the two encodings.                                         *)
Params ==
  [mainnet |-> [p2pkh |->   0, p2sh |->   5, hrp |-> "bc"],
   testnet |-> [p2pkh |-> 111, p2sh |-> 196, hrp |-> "tb"],
   regtest |-> [p2pkh |-> 111, p2sh |-> 196, hrp |-> "bcrt"]]
Networks == DOMAIN Params

Base58Text(version, h) == [kind |-> "base58", payload |-> <<version>> \o h, valid |-> TRUE]

ConstantOf(version)  == IF version = 0 THEN "bech32" ELSE "bech32m"
SegwitText(hrp, version, program) ==
  [kind |-> "segwit", hrp |-> hrp, case |-> "lower",
   data |-> <<version>> \o Packed(program, 8, 5), constant |-> ConstantOf(version)]

AddressFromPubkey(type, pubkey, params) ==
  CASE type = "p2pkh"       -> Base58Text(params.p2pkh, Hash160(pubkey))
    [] type = "p2wpkh"      -> SegwitText(params.hrp, 0, Hash160(pubkey))
    [] type = "p2sh-p2wpkh" -> Base58Text(params.p2sh, Hash160(Witness(0, Hash160(pubkey))))
    [] type = "p2tr"        -> SegwitText(params.hrp, 1, OutputKey(pubkey))

AddressFromScript(type, code, params) ==
  CASE type = "p2wsh"       -> SegwitText(params.hrp, 0, SHA256(code))
    [] type = "p2sh-p2wsh"  -> Base58Text(params.p2sh, Hash160(Witness(0, SHA256(code))))
    [] type = "p2sh"        -> Base58Text(params.p2sh, Hash160(code))

-----------------------------------------------------------------------------
(* bech32_decode().                                                        *)
Program(t) == Unpacked(Tail(t.data), 5, 8)

AnyConstant(t)     == t.constant # "none"                         \* mutant
RightConstant(t)   == t.data[1] = 0 <=> t.constant = "bech32"
RightLength(t) ==
  /\ Len(Program(t)) \in 2 .. 40
  /\ t.data[1] = 0 => Len(Program(t)) \in {20, 32}

Bech32Decodable(t) ==
  /\ t.case # "mixed"
  /\ t.constant # "none"
  /\ t.data # <<>>
  /\ \A i \in DOMAIN t.data : InRange(t.data[i], 5)
  /\ Unpackable(Tail(t.data), 5, 8)
  /\ RightLength(t)
  /\ t.data[1] <= 16
  /\ RightConstant(t)

(* address_to_script().  Testnet and regtest share their version bytes.    *)
Allowed(n)  == IF n = "any" THEN Networks ELSE {n}
OwnHrp(t, n) == \E net \in Allowed(n) : t.hrp = Params[net].hrp

Base58Scripts(t, n) ==
  LET version == t.payload[1]
      h       == Tail(t.payload)
  IN  {P2PKH(h) : net \in {net \in Allowed(n) : version = Params[net].p2pkh}}
        \cup {P2SH(h) : net \in {net \in Allowed(n) : version = Params[net].p2sh}}

AddressToScript(t, n) ==          \* a set: empty when EncodingError is raised
  IF t.kind = "segwit"
  THEN IF OwnHrp(t, n) /\ Bech32Decodable(t)
       THEN {Witness(t.data[1], Program(t))} ELSE {}
  ELSE IF t.valid /\ Len(t.payload) = 21 THEN Base58Scripts(t, n) ELSE {}

-----------------------------------------------------------------------------
NoScript == <<>>

Init ==
  /\ pc = "start"
  /\ text = [kind |-> "none"]
  /\ paid = [script |-> NoScript, network |-> "any"]
  /\ network = "any"
  /\ script = NoScript

Write(address, intended, net) ==
  /\ pc = "start"
  /\ pc' = "written"
  /\ text' = address
  /\ paid' = [script |-> intended, network |-> net]
  /\ UNCHANGED <<network, script>>

(* An address is made; the script that should be paid is that of the       *)
(* script builders p2pkh_script() ... p2tr_script().                       *)
MakePubkeyAddress(pubkey, net) ==
  \E <<type, intended>> \in
       { <<"p2pkh", P2PKH(Hash160(pubkey))>>,
         <<"p2wpkh", Witness(0, Hash160(pubkey))>>,
         <<"p2sh-p2wpkh", P2SH(Hash160(Witness(0, Hash160(pubkey))))>>,
         <<"p2tr", Witness(1, OutputKey(pubkey))>> } :
    Write(AddressFromPubkey(type, pubkey, Params[net]), intended, net)

MakeScriptAddress(code, net) ==
  \E <<type, intended>> \in
       { <<"p2wsh", Witness(0, SHA256(code))>>,
         <<"p2sh-p2wsh", P2SH(Hash160(Witness(0, SHA256(code))))>>,
         <<"p2sh", P2SH(Hash160(code))>> } :
    Write(AddressFromScript(type, code, Params[net]), intended, net)

(* A user enters any text at all.                                          *)
Enter(t) == Write(t, NoScript, "any")

(* A QR code carries the address in capitals.                              *)
Capitalise ==
  /\ pc = "written" /\ text.kind = "segwit" /\ text.case = "lower"
  /\ text' = [text EXCEPT !.case = "upper"]
  /\ UNCHANGED <<pc, paid, network, script>>

Decode(n) ==
  /\ pc = "written"
  /\ pc' = "decoded"
  /\ network' = n
  /\ LET scripts == AddressToScript(text, n)
     IN  script' \in IF scripts = {} THEN {NoScript} ELSE scripts
  /\ UNCHANGED <<text, paid>>

(* op_return_script() on data of a size; the data follow and are left out. *)
OpReturn(size) ==
  /\ pc = "start"
  /\ pc' = "pushed"
  /\ text' = [kind |-> "data", size |-> size]
  /\ script' = <<106>> \o PushPrefix(size)
  /\ UNCHANGED <<paid, network>>

Next ==
  \/ \E net \in Networks :
       \/ \E pubkey \in Pubkeys : MakePubkeyAddress(pubkey, net)
       \/ \E code \in WitnessScripts : MakeScriptAddress(code, net)
  \/ \E t \in Texts : Enter(t)
  \/ Capitalise
  \/ \E n \in Networks \cup {"any"} : Decode(n)
  \/ \E size \in PushSizes : OpReturn(size)

Spec == Init /\ [][Next]_vars

-----------------------------------------------------------------------------
(* dust_threshold().                                                       *)
BlobSize(n) == n + (IF n < 253 THEN 1 ELSE IF n < 2^16 THEN 3 ELSE 5)
OnlyVersion0(code) == code[1] = 0 /\ code[2] = Len(code) - 2      \* mutant
WitnessSpend(code) ==
  /\ Len(code) \in 4 .. 42
  /\ code[1] = 0 \/ code[1] \in 81 .. 96
  /\ code[2] = Len(code) - 2
DustThreshold(code, fee) ==
  IF code[1] = 106 \/ Len(code) > 10000 THEN 0
  ELSE LET size == 8 + BlobSize(Len(code)) + (IF WitnessSpend(code) THEN 67 ELSE 148)
       IN  (size * fee + 999) \div 1000

-----------------------------------------------------------------------------
(* What Bitcoin Core says of scripts and addresses.                        *)

StandardWitness(version, program) ==
  /\ version \in 0 .. 16
  /\ Len(program) \in (IF version = 0 THEN {20, 32} ELSE 2 .. 40)

Lower(t) == IF t.kind = "segwit" /\ t.case = "upper" THEN [t EXCEPT !.case = "lower"] ELSE t

(* Scripts whose one address on a network is the text.                     *)
ScriptsOf(t, net) ==
  IF t.kind = "segwit"
  THEN IF /\ t.data # <<>> /\ t.hrp = Params[net].hrp
          /\ StandardWitness(t.data[1], Program(t))
          /\ Lower(t) = SegwitText(t.hrp, t.data[1], Program(t))
       THEN {Witness(t.data[1], Program(t))} ELSE {}
  ELSE LET h == Tail(t.payload)
       IN  {s \in {P2PKH(h), P2SH(h)} :
              /\ Len(h) = 20
              /\ t = Base58Text(IF s = P2PKH(h) THEN Params[net].p2pkh
                                                ELSE Params[net].p2sh, h)}

(* An address made for a script pays that script, in capitals too, when    *)
(* decoded for its own network or for any; on another it is refused,       *)
(* unless the two networks share their version bytes.                      *)
PaysTheScript ==
  (pc = "decoded" /\ paid.script # NoScript) =>
    IF paid.network \in Allowed(network) THEN script = paid.script
    ELSE script = IF text.kind = "base58" /\ {paid.network, network} = {"testnet", "regtest"}
                  THEN paid.script ELSE NoScript

(* Every text is refused or is the address of the script returned, on a    *)
(* network allowed, and nothing that is such an address is refused: not by *)
(* its left-over bits, its length, its version or its checksum constant.   *)
DecodesExactly ==
  pc = "decoded" =>
    LET scripts == UNION {ScriptsOf(text, net) : net \in Allowed(network)}
    IN  IF scripts = {} THEN script = NoScript ELSE scripts = {script}

(* dust_threshold() tells witness programs from other scripts as           *)
(* address_to_script() does, so that Core's well-known limits come out.    *)
DustAsCore ==
  (pc = "decoded" /\ script # NoScript) =>
    /\ WitnessSpend(script) <=> text.kind = "segwit"
    /\ text.kind = "base58" => DustThreshold(script, 3000) = IF script[1] = 118 THEN 546 ELSE 540
    /\ Len(script) = 22 => DustThreshold(script, 3000) = 294
    /\ Len(script) = 34 => DustThreshold(script, 3000) = 330

(* A node that executes the push finds exactly the data, and no shorter    *)
(* prefix would have done.                                                 *)
PushReadsBack ==
  pc = "pushed" =>
    LET op == script[2]
        n  == SubSeq(script, 3, Len(script))
        read == FoldRight(LAMBDA byte, value : byte + 256 * value, n, 0)
    IN  /\ Len(n) = CASE op < 76 -> 0 [] op = 76 -> 1 [] op = 77 -> 2 [] op = 78 -> 4
        /\ text.size = IF op < 76 THEN op ELSE read
        /\ op >= 76 => text.size \notin 0 .. 75
        /\ op = 77 => text.size > 255
        /\ op = 78 => text.size > 65535
        /\ DustThreshold(script, 3000) = 0
=============================================================================
