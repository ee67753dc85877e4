# Formal models of bitwalkit

bitwalkit (`src/`) is a standard-library Python toolkit for Bitcoin: a JSON-RPC
client, an Electrum client with address queries, and pure code for transactions,
PSBTs, HD keys, addresses and encodings. This directory holds TLA+ models of its
core logic, the TLC configurations that check them, and TLAPS proofs.

## 1. Inventory

Paths are under `src/src/bitwalkit/`.

| component | state | operations | interaction | what is hard |
|---|---|---|---|---|
| NodeRPC (`rpc.py`) | `_id` counter, `_id_lock`; per invocation: local `request_id` or batch positions | `call`, attribute proxies, `batch`, `_post`, `_result` | threads share one client; HTTP request per invocation | interleaved id allocation; state read after I/O; replies crossed, reordered, repeated, lookalike; a lost answer to a mutating request; a hung exchange |
| `NodeRPC.from_config` (`rpc.py`) | the settings read so far | read a file into URL and credentials | builds a NodeRPC | values that hold the reader's own delimiters; precedence of keys, networks and ports |
| Electrum client (`_electrum.py`) | `_sock`, `_buf` | `connect`, `close`, `call`, `batch`, `_recv_line` | byte stream with a server that also sends on its own | stream cut anywhere; late answers after a timeout, ids restarting at 0; leftovers across connections |
| Chain queries (`chain.py`) | none between queries | eight query methods | a client per query in a `with` block | failures inside the block; pairing of results and addresses |
| Transaction parser (`transaction.py`) | reader offset, loop counters | `parse_transaction` | pure | non-canonical sizes, witness marker ambiguity, count guards, slices for the txid |
| PSBT (`psbt.py`) | accumulators of one construction | `create_psbt`, `derive_native_segwit`, `dust_threshold`, `KeyOrigin.parse` | uses bip32, address, secp; the file is read by signers | totals, conflicting metadata, duplicate outpoints, origins, framing |
| HD (`bip32.py`, `hd.py`) | immutable keys | `parse`, `child`, `derive`, accounts | uses secp, base58 | depth and index limits, key order, a second path parser in `psbt.py` |
| Addresses, descriptors (`address.py`, `descriptor.py`) | none | script and address conversions, descriptor checksum | uses encoding | encode and decode must be inverse |
| Encodings (`encoding.py`) | accumulator and bit count of a conversion | base58check, bech32, `convertbits` | pure | padding, mask, leading zeros, checksum constant, generators |
| Curve (`_secp.py`) | `scalar`, `result`, `addend` of a multiplication | affine and Jacobian addition, scalar multiplication, lifting, serialization | used by bip32, address | special cases of addition, negative scalars, numbers beyond the field |
| Hashes (`hashing.py`) | none | RIPEMD-160, SHA-256 wrappers | pure | padding at block boundaries; the rest is for test vectors |
| Errors, exports (`errors.py`, `__init__.py`) | none | - | - | - |

What makes each correct:

- **NodeRPC**: ids never repeat; what a thread gets back answers its own requests, in
  order; an error carries the code of its own first failing request; nothing is sent
  twice; a genuine reply is never refused; a hung exchange blocks nobody.
- **Electrum client**: the stream is cut into the lines the server sent; answers are
  correlated with requests on a connection nothing has gone astray on.
- **Chain queries**: a value belongs to its address; nothing stays open; queries end.
- **Transaction parser**: it accepts exactly the canonical serializations.
- **PSBT**: totals and amounts in range and non-negative fee, consistent metadata,
  key order irrelevant. **HD**: limits respected, derivation composes. **Encodings,
  addresses, curve**: round trips and algebraic laws.

`PROJECT.json` lists the hazards of this code line by line under `hazards`.

## 2. Modules

| module | models | role |
|---|---|---|
| `RpcService` | what NodeRPC promises: begin, execute at most once, return own answers / raise own first error / give up | abstract specification |
| `NodeRPC` | `rpc.py` lines 44-210 and 292-316, the node, the HTTP exchange | detailed specification, properties |
| `NodeRPC_proofs` | - | inductive invariants and theorems; the refinement of `RpcService` |
| `ElectrumClient` | `_electrum.py` and the server's stream | component |
| `ChainQuery` | `chain.py`, EXTENDS `ElectrumClient` | composition |
| `ChainQuery_proofs` | - | inductive invariants and theorems of `ElectrumClient` and, built on them, of `ChainQuery` |
| `TxParser` | `transaction.py` lines 55-187 and the wire format it parses | component with a reference definition |
| `HdKeys` | extended keys, versions, child derivation, scripts and addresses as constructors (`bip32.py`, `hd.py`, `address.py`) | shared operators |
| `HdAccounts` | `hd.py`, EXTENDS `HdKeys` | component |
| `HdKeys_proofs` | - | lemmas about lists, orders and sorting, used by the next three |
| `HdAccounts_proofs`, `WalletSpend_proofs`, `PsbtBuilder_proofs` | - | inductive invariants and theorems |
| `KeyPaths` | `derive_path`, `_parse_path`, `to_xpub` and its kin (`bip32.py`), `KeyOrigin.parse` (`psbt.py`), EXTENDS `HdKeys` | component |
| `SpendMetadata` | `KeyOrigin`, `SegwitSpend`, `_metadata`, `_map` of `psbt.py`, EXTENDS `HdKeys` | shared operators |
| `WalletSpend` | `derive_native_segwit`, EXTENDS `SpendMetadata` | component |
| `PsbtBuilder` | `create_psbt`, EXTENDS `SpendMetadata` | component |
| `PsbtBytes` | the bytes `create_psbt` writes: CompactSizes, maps, the unsigned transaction | shared operators |
| `PsbtMaps` | the maps of a file and a signer reading them, EXTENDS `PsbtBytes` | composition with the reader |
| `UnsignedTx` | the transaction writer of `psbt.py` and the parser of `transaction.py`, EXTENDS `TxParser`, instantiates `PsbtBytes` | composition |
| `TxParser_proofs` | - | inductive invariants and theorems of `TxParser` and `UnsignedTx` |
| `PublicPoints` | `_secp.py`, the point arithmetic of `ExtendedKey.child` and `_taproot_output_key` | component |
| `BitStream` | `convertbits` as operators | shared operators |
| `BitGroups` | `convertbits` value by value, EXTENDS `BitStream` | component |
| `Base58` | `base58check_encode`, `base58check_decode` | component |
| `Polymod` | the checksum register of `encoding.py` and `descriptor.py` | shared operators |
| `Bech32Checksum` | `bech32_encode`, `bech32_decode` to the bit on a mistyped address, EXTENDS `BitStream`, `Polymod` | component |
| `DescriptorChecksum` | `descriptor_checksum`, EXTENDS `Polymod` | component |
| `AddressCodec` | `address_from_*`, `address_to_script`, pushes, `dust_threshold`, EXTENDS `BitStream` | component |
| `ConfigReader` | `NodeRPC.from_config` | component |
| `HashPadding` | the padding of RIPEMD-160 | component |
| `Library_proofs` | - | inductive invariants and theorems of `KeyPaths` and `ConfigReader` |
| `MCNodeRPC`, `MCElectrumClient`, `MCChainQuery`, `MCTxParser`, `MCHdAccounts`, `MCWalletSpend`, `MCPsbtBuilder` | - | an instance of one component, or of two that are composed |
| `MCLibrary` | - | the pure functions side by side: `PublicPoints`, `BitGroups`, `Base58`, `AddressCodec`, the two checksums, `KeyPaths`, `ConfigReader`, `PsbtMaps` and `HashPadding` |

### NodeRPC

`pc[t]` follows a thread through `call()` and `batch()`. `id`, `idLock` are `self._id` and
`self._id_lock`; `Acquire`, `Load`, `Store`, `CopyId` are the statements of the `with` block,
the augmented assignment being a read and a write. `requestId` keeps the local
`request_id` of every invocation, so that uniqueness is about all calls ever made.
`call()` and `batch()` share the rest: a call is an operation of one request that expects an
object with its `request_id`, a batch expects an array with ids 0 .. n-1. `Post` hands the
requests to the network (`pending`); the node executes each whenever it likes
(`Execute`), also after the client gave up, or never (`LoseRequest`). `Receive` is the end of
`_post`: any body in `Bodies(t)`. For a call these are an answer to any single call ever
made on the client (so also a crossed or a late one), an object whose id only equals the
right one in Python (`true`, `1.0`), a wrong type, no JSON, or a broken exchange. For a
batch they are sequences of up to n+1 entries: its own answers in any order, repeated or
missing, lookalikes, and extra entries repeating an id beside the genuine one. An
array of wrong answers with the right integer ids cannot be told from a right one by any
client of this protocol (batches all use ids 0 .. n-1; the HTTP connection correlates
them), so a forged entry is only offered beside the genuine one.
`ConnectionFails`, `Reject`, `RaiseNodeError` and `ReturnResults` are the four ways out.

### ElectrumClient and ChainQuery

A line is two cells, text and newline; `Receive(n)` takes any n cells that are on the wire.
`sock` is a connection number, 0 for `None`. `ReceiveFails` is a timeout, a reset or an end of
stream: in the code all three raise ConnectionError and leave the socket open. A failed `sendall`
may have put part of a line on the stream, after which the server understands nothing
more on it (`torn`). `strayed` records that the connection owes or carries a line nobody waits
for. `ChainQuery` adds the `with` block around one operation: `Enter`, `Ask`, the client's own
steps, `Leave`, and the conversion, whose outcomes are a value, RpcError (`misshapen`
answers) or a KeyError, TypeError or ValueError that escapes (`badfield`).

### TxParser

One action per field. The input's length is fixed at the start and its bytes are chosen as
they are read, so TLC covers every input of the bounded length; bytes the parser does
not interpret are 0. The module also defines the format from the other side, `Serialize`
and the set `WellFormed`, which the parser is compared with.

### HdKeys, HdAccounts, WalletSpend and PsbtBuilder

A public key with its chain code is a point: a master key and the path from it. Hashes,
fingerprints and addresses are what they are computed from, so collisions are left out;
the order of public keys as bytes is a parameter, since it has nothing to do with paths.
The HMAC outcomes that yield no key are a parameter too (`NoChild`).

`HdAccounts` builds an account and then a run of addresses, one per step. `WalletSpend`
takes the keys and origins of `derive_native_segwit` one at a time, as its loop does, and
finishes with the checks on networks and duplicates, the sort and the script. The keys on
offer are those wallets export; the origins on offer include every kind of wrong one.
`PsbtBuilder` takes inputs and outputs one at a time and keeps them for the passes over
totals and extended keys that follow. Its spends may be handmade, as the code allows.
A map is collected as a set of entries, two of which conflict when they share a key and not
the value, and is a function from keys to values when it is written: `_map` sorts, so the
order carries no information.

`KeyPaths` applies `derive_path` and the conversions to one key in any order. A path is
characters; its parts are parsed and derived one at a time, so that an error in the third
part comes after two derivations. `ParsersAgree` compares the parser with the one of
`KeyOrigin.parse` on every text.

Three properties relate the parts: `AgreesWithAccounts` (an address of `hd.py` is the one
whose metadata `psbt.py` derives), `UsableByPsbt` (what the derivation returns passes
the checks of the builder) and `SignerSeesTruth` (a reader of the file alone sees scripts that
its metadata describes).

### PsbtBytes, PsbtMaps and UnsignedTx

In `PsbtBuilder` a map is a function. Here it is bytes: `PsbtMaps` writes the maps of a
request and lets a signer, who knows only BIP 174, take the file apart entry by entry.
`UnsignedTx` lets `parse_transaction` read the transaction `create_psbt` wrote. CompactSizes are
scaled down by `Base` and `Width`, so that every limit is a few bytes away.

### PublicPoints

The field and the generator are constants, with the assumptions the code's own constants
meet (`CurveAssumption`: a prime field with square roots by one power, a group of prime order).
`__rmul__` runs bit by bit on Jacobian triples, `__add__` at once on affine points. The properties
speak of a signer who knows secrets: `Public(s)` is G added s times with `__add__`, and children
and tweaks must be the points of the signer's secrets.

### BitStream, BitGroups, Base58, Polymod and the checksums

`BitGroups` absorbs one value per step, with the accumulator and the mask of the code, and
compares what came out with the bits that went in. `AddressCodec` uses the same operators on
whole programs; there an address is its prefix, symbols and the constant its checksum
verifies under. That the checksum does verify, and only then, is left to `Bech32Checksum`,
which computes it with the code's generators: a text of 5-bit symbols whose register
is six symbols wide. Base58 keeps the code's arithmetic with a smaller radix and byte.

### ConfigReader and HashPadding

A configuration file is what an operator means to write, a setting and the form it is
written in; `Line` makes the text from it, the reader of the code takes the text
apart, and the properties compare what arrives with what was meant. `HashPadding` lets a
message grow and compares messages that would be hashed as the same blocks.

## 3. Runs

| run | shows | bounds |
|---|---|---|
| `noderpc_calls` | types, unique ids, no double execution, implements `RpcService` | 2 threads x 2 operations of one request: two threads allocate, wait and decode in every order, and late or crossed answers of an earlier operation exist |
| `noderpc_batches` | own answers in order, own first error, genuine and reordered replies honoured, implements `RpcService` | 2 threads x 1 operation of up to 2 requests, replies of up to 3 entries: the shortest reply that can repeat an id and still name all of them |
| `noderpc_live` | calls end although another thread's exchange hangs | 2 threads, one hung |
| `electrum_client` | framing, correlation while nothing strayed | 3 operations over 2 connections, batches of 2, one notification per connection: enough for a leftover of one operation and of one connection to meet the next |
| `electrum_reused` | **violation**: after a timeout, the results of a batch are the late answer to the previous one, which asked something else | 2 batches of 1 entry, 1 connection, a server that answers each batch once and rightly (`BatchesSpec`) |
| `chain_queries` | values belong to addresses, nothing left open, queries end | 2 queries of up to 2 of 3 addresses (one invalid), all kinds of answers |
| `tx_parser` | accepts exactly the well-formed serializations, recovers the stripped bytes, and reads the transaction of a PSBT as what was asked for | all inputs of up to 17 bytes, 5 byte values, wide sizes of 1, 2 and 3 bytes, fields of 1 byte: fits two inputs with witnesses and a wide count; PSBT transactions of up to 26 inputs and outputs, script lengths around every limit |
| `hd_accounts` | a run of addresses is its single addresses, complete or up to the first index BIP32 has no key for; cosigner order changes neither | 6 keys of 2 masters and 2 networks (one private), up to 4 cosigners with a limit of 3, runs of 2, depth limit 4, indexes to `HARDENED` = 2: every limit is met and exceeded |
| `hd_accounts_mixed` | **violation**: with cosigners of two networks the address depends on their order | the same |
| `wallet_spend` | script, metadata and address do not depend on key order, lead a signer to its keys, and suit accounts and builder | up to 3 of 9 keys, each with a right, a missing and up to 6 wrong origins; every branch, index and threshold |
| `psbt_builder` | a PSBT is built exactly for valid requests and tells a signer the truth | 2 inputs and 2 outputs, `MAX_MONEY` = 2 so that totals exceed it, 2 wallets, 14 faulty spends, an outpoint in both spellings: conflicts need two items, none needs three |
| `library` | every pure function does what it is for; see below | a component at a time |

`TypeOK` of a component is the first conjunct of one property of its run (`Framing`,
`OwnAddresses`, `RoundTrip`, `RunsAreSingles`, `AcceptsExactly`, `NoDoubleSpend`, `RegroupsBits`).

Pure functions share no state and never run at once, so one run holds them all: `subject` says which
component the behaviour is about. `MCLibrary` extends `PublicPoints`, `KeyPaths` and `ConfigReader`, which
therefore name their parts apart; the other components' variables are the registers `r1` to `r6`.

| component in `library` | properties | bounds |
|---|---|---|
| `PublicPoints` | `LoopInvariant`: the loop loses no bit and cannot run for ever. `AgreesWithSigner`: products, children, taproot keys and parsed keys are those a signer has | the smallest curve of the equation with prime order below the field (43 and 31), every point, scalars from below -order to above it: every pair of equal, opposite and missing points is added; taproot keys of every abscissa, on the curve or not, of 32 and 33 bytes and of other lengths and prefixes |
| `BitGroups` | `RegroupsBits`: no bit is lost, padding only when needed, unpacking accepts exactly what packing wrote | widths 3 and 2 with every value, over two alignments; 8 and 5 with values that set few bits, up to 8 groups |
| `Base58`, `HashPadding` | `OneToOne`: what is written is read, one text per payload; blocks are whole, few and tell messages apart | radix 3, bytes of 2 bits, every payload of 4 bytes and every text of 7 digits; blocks of 4 bytes of 2 bits, all messages of up to 7 bytes, as many as their length field holds |
| `AddressCodec` | `PaysExactly`: an address pays its script on its networks, everything else is refused. `AsCore`: dust limits and pushes are Core's | every address type and network; versions 0, 1, 16, 17, 31 with programs of 1 to 41 bytes, superfluous and dirty groups, all constants and prefixes; Base58 payloads around 21 bytes; push sizes at every limit |
| `Bech32Checksum`, `DescriptorChecksum` | `OnlyIntact`: exactly the intact address is accepted, exactly the intact descriptor has its published checksum | three published addresses and three descriptors of the tests (one for each remainder by three), up to two substitutions of two kinds, a symbol more or fewer, a swap of neighbours |
| `KeyPaths` | `KeyAtWholePath`, `ParsersAgree`: the key is that of the whole path; both parsers read alike | two calls, every text of up to 3 characters and longer ones; depth limit 3, `HARDENED` = 12 so that two digits exceed it |
| `ConfigReader` | `ClientAsMeant`: settings arrive as written and select the host, port and wallet meant | every file of up to 3 of 30 lines: three lines set a network, unset it and set a host or a port in every order |
| `PsbtMaps` | `FileReadsBack`: a signer reads back the maps; order does not show | 2 maps of up to 2 entries, keys that begin one another, lengths 1, 2, 5 and 25 around limits 2, 5 and 25 |

Symmetry over threads is used in the NodeRPC safety runs, not in the liveness run.
Deadlock checking is off where programs stop after their bounded operations.

**Fairness.** `NodeRPC`: weak fairness of each thread's own steps (a runnable thread
runs, and a free lock is eventually taken: with finitely many operations weak fairness
is enough) and of the end of each exchange that is not in `Hung`. `urlopen` has a timeout
(`rpc.py:94`), but it bounds each socket operation, so an exchange fed byte by byte may last
for ever: those are the threads in `Hung`, about which nothing is claimed. Nothing is
assumed of the node. `ChainQuery`: weak fairness of the query's and the client's steps; the
socket timeout (`_electrum.py:43`) is a client step. A server that sends bytes for ever
without a newline is outside the model (its stream is finite).
The loop of `PublicPoints` needs no fairness: `LoopInvariant` bounds its scalar, which every turn halves.

**Findings** (`findings` in `PROJECT.json`). `electrum_reused`: `ElectrumClient` is private and
`ChainQuery` opens one per query, so no public operation shows it. The trace is a batch, a receive
timeout that leaves the socket open, a second batch with other parameters and the first one's answer:
both batches number their entries from 0, so the ids match. `hd_accounts_mixed`:
`MultisigAccount` takes its network from the first key; `derive_native_segwit` refuses such keys.

One more disagreement is modelled as the code has it and not checked against its own property:
`_parse_path` (`bip32.py:227`) checks with `isdigit` and converts with `int`, which disagree about
superscript digits, so that `derive_path("0/²")` ends in a plain ValueError where
`tests/test_derivation.py:235` expects DerivationError of invalid paths. It is the outcome
"ValueError" of `KeyPaths`; `KeyOrigin.parse` matches `[0-9]` and is not affected.

## 4. Proofs

Every theorem holds for all values of the constants that meet the modules' assumptions. Each is
an invariant of the specification (or, where said, an action property, a refinement or an
implication between specifications), proved from an inductive invariant that says why it holds.
TLC checked each inductive invariant on the run's instance before it was proved.

| theorem | property | module |
|---|---|---|
| `TypeCorrect`, `RequestIdsUnique` | `TypeOK`, `UniqueRequestIds` | `NodeRPC_proofs` |
| `ExecutedAtMostOnce`, `ResultsAreOwn`, `FirstErrorIsOwn` | `AtMostOnce`, `OwnAnswers`, `OwnFirstError` | `NodeRPC_proofs` |
| `ClientImplementsService` (refinement), `GenuineRepliesHonoured` (action property) | `ServiceSpec`, `GenuineReplyHonoured` | `NodeRPC_proofs` |
| `LinesComeWhole`, `ResultsCorrelated` (action property) | `Framing`, `Correlated` | `ChainQuery_proofs` |
| `QueriesUseClient` (`QSpec => Spec`), `QueriesClose`, `AddressesGetOwn` | -, `NothingLeftOpen`, `OwnAddresses` | `ChainQuery_proofs` |
| `RunsMatchSingles`, `OrderIrrelevant` | `RunsAreSingles`, `OneNetworkOrderIrrelevant` | `HdAccounts_proofs` |
| `ChecksAreExact`, `GivenOrderIrrelevant`, `OriginsLeadToKeys`, `AddressesAgree`, `ResultsAreUsable` | `AcceptsExactly`, `KeyOrderIrrelevant`, `OriginsLead`, `AgreesWithAccounts`, `UsableByPsbt` | `WalletSpend_proofs` |
| `BuildsWhatIsValid`, `SpendsOnce`, `NothingIsLost`, `SignersAreTold` | `BuiltIffValid`, `NoDoubleSpend`, `HoldsWhatWasDeclared`, `SignerSeesTruth` | `PsbtBuilder_proofs` |
| `AcceptsCanonical`, `StripsWitness`, `RejectsMalformed` (inputs from anywhere), `ParsesEither` (from `create_psbt` too) | `RoundTrip`, `StrippedForm`, `RejectsOnlyMalformed` | `TxParser_proofs` |
| `FollowsSerialization`, `PsbtReadBack` | -, `PsbtTxParses` | `TxParser_proofs` |
| `KeysLead`, `ParsersReadAlike`, `SettingsArrive` | `KeyAtWholePath`, `ParsersAgree`, `ClientAsMeant` | `Library_proofs` |

**NodeRPC.** The types need `Begun` (a thread inside an operation has begun one; a call has one
request). `DistinctIds` shows that an accepted reply has each id once (n entries covering n
ids: a surjection between sets of one size is injective), hence `AnswerChosen`: the entry
the client picks exists and carries the id sent. `IdInv` says who holds the lock
between the statements of the `with` block, that no id in use exceeds the counter, that a
value loaded is still current when stored, and that the value about to be copied exceeds every
id in use. On that stand four more layers: `NodeInv` (what is on its way has not been executed, what is
not posted is neither on its way nor executed), `RequestInv` (which ids the posted requests carry),
`ReplyInv` (`Decodable`: an integer id in a reply that is being decoded is that of
a genuine entry of it, so uniqueness of ids makes the chosen entry the own answer) and `AnswerInv`
(an outcome is made of the operation's own answers or its own first error).
Together they are `ServiceInv`, under which every step of the client is a step of `RpcService` or
changes nothing the service sees.

**ElectrumClient.** `Framing` needs `StreamInv`: buffer and wire together are the unread lines of the
open connection, two cells each, whole and in order. `Correlated` needs `OwesInv`: on a
connection nothing strayed on, the server owes nothing between operations and inside one at
most one line, about that operation. `Connect` and `Close` empty the stream, `Receive` moves
its cut, `Consume` drops its first line.

**ChainQuery.** `StepAllowed` shows that under `QInv` every step of a query is one the client allows, so `QSpec`
implies the client's `Spec` and its invariants hold inside queries. `AskedOnce` adds
that a query asks once on a fresh connection, so that nothing strays before its
answer, and with it `Correlated` gives `OwnAddresses`.

**HdKeys.** `HdKeys_proofs` holds the facts about sorting that the next three need:
a finite list of keys has a sorting order (`SortingOrderExists`), its result is the only
one (`SortedUnique`), the same for every arrangement of the list (`SortedOfArranged`), and a
list without repetitions is one as long as its set of entries (`InjectiveIff`). The models
say "sorted" as the arrangement that is in order, which is what Python's stable sort returns for keys
that differ, and equal keys are refused or equal in value.

**HdAccounts.** `RunInv`: what a run has given so far are single addresses, its branch is
the branch key of the account, and it fails at the first index that `child` refuses or, before it
has begun, for want of a branch. The properties say where addresses exist with the limits of BIP32,
stated apart from the guards of `child` (`WithinLimits`); `LeafLimits` proves that two calls of `child`
refuse exactly what is beyond them, for keys whose depth is a byte.

**WalletSpend.** `SpendInv`: the lists of the loop keep pace with the keys taken, each entry is what its key
and resolved origin say (`Kept`), and an error has a reason among keys already
taken (`Unacceptable`), whose limits are those of `WithinLimits` too. The refusals only grow with further keys, which makes
the checks exact in both directions. `OriginsLead` rests on the fact that an origin accepted for a
master or a key of depth one is the true one. For a deeper key the code can compare only the length
and the last step of the path, so a true origin is a condition there.

**PsbtBuilder.** `BuildInv`: the maps and transaction parts are those of the items that passed,
`seen` holds their outpoints, all different; a rejection implies that the request is not valid.
Validity is stated without the code's checks, so each check has a lemma that it refuses exactly
what is bad: `SignableIff` (`_metadata`), `InputRefused`, `OutputRefused`, `GlobalsConflict`. `MapHolds`
says that a map without conflicts has every entry. That totals are natural numbers is an induction over
the list of amounts; it is done by hand (`RunningTotal`, `SumInNat`), with the well-founded recursion
of the library for the existence of the sum and a least counterexample for its range.

**TxParser.** Two invariants face each other. `ReadInv` looks back: what has been read is, field by
field, the serialization of the transaction read so far (`InsRead`, `OutsRead`, `BodyRead`, `WitsRead`), and
`bodyStart` and `bodyEnd` mark its body. At the end that is `RoundTrip` and, cut at the
marks, `StrippedForm`. `FollowInv` looks ahead: for every serialization of the length of the input that
begins with the bytes read, the parser is inside it, with that transaction's fields read and the
counts of the rest in its registers. From it follows that no guard refuses a serialization
(`RejectsOnlyMalformed`). Both rest on one fact about CompactSizes, that a number has one canonical form and a
byte string begins with at most one of them (`CanonicalOnce`, `EncOf`): the ranges of the four
forms meet without overlap and a form's digits can be told from its number. `WrittenFacts` turns the
recursively enumerated `WellFormed` into serializations of lists (`Written`, `Full`), and back.
`UnsignedInv` adds the writer: what `create_psbt` wrote is the serialization of the request, so that
`FollowInv` says what the parser makes of it. `SizeWritten` is the heart of that: the limits of `_compact_size`
choose the form whose minimum the parser demands, and the bytes it writes, lowest first, are
read as the number (`LittleEndianBytes`). The inductions over bytes, digits and lists are done by hand
over the natural numbers, the recursive definitions being functions (`Below`, `Number`,
`LittleEndian`, `Blobs`, `Witnesses`) whose existence the library's well-founded recursion gives.

**KeyPaths.** `KeysInv`: during a call the node is the key a wallet exports at the whole path so
far, the caller's key the one at the path before the call. A child lengthens the path by one
(`ChildExported`), a conversion keeps the network because versions come in pairs (`Converted`).
`ParsersInv`: while `derive_path` works on a text that `KeyOrigin.parse` accepts, the parts left
and the indexes taken are those after and up to one position of the origin's steps; a missing
child ends it before the last step. `OriginRead` relates the two ways to split a text. A marker "m/" in
front is one part more and the rest is unchanged (`MarkerSplit`: the k-th slash of the rest is the one
after it in the whole, by the ranks of positions in a finite set, `MovedNth`). A step that
`KeyOrigin.parse` takes is not skipped and not refused by the other parser (`StepTaken`), and
has no blank at either end, so that `strip` leaves the text alone (`Unstripped`).

**ConfigReader.** `LineRead` says what one line sets, in each of its nine forms. For the four that set
something, `EntryRead` follows `strip`, the split at the first "=" and the second `strip` over a
key and a value of any text: the key holds no "=", so the first one in the line is the
separator, whatever the value holds. `QuotesOff` and `Bare` say that what is then unquoted is the value.
`ConfigInv` says that what is set is what the last line read so far sets, for each key; a client is
made after the last line, from what is meant (`AllRead`).

**Assumptions.** Bounds and limits are natural numbers (`BoundsAssumption`, `LimitAssumption`,
`KeyAssumption`), `NoThread` is not a thread and `Hung` are threads. Public keys are totally ordered, as
the byte strings they are (`OrderAssumption`). `KeysAssumption`: the depth of an extended key is a byte, of which
`MaxDepth` is the largest. `OffersAssumption`: the extended keys on offer are ones a
wallet exports, no deeper than that byte holds, origins are any fingerprint with any path. `SpendsAssumption`: a spend holds
sequences and its witness script is a number with keys, as `SegwitSpend` holds them. `FormatAssumption`:
three widths that grow, at least the byte values 0 and 1 below the prefixes, minimum sizes that are
those of an empty input and output, and inputs shorter than the widest form can count.
`KeysGiven`: a key to start from has a network, a seed and a path. `TextsGiven`: a path given as text
is a sequence of characters. `SettingsGiven`: keys of settings are words
free of the reader's delimiters, an unquoted value has no blanks or quotes around it, and what is
meant as no setting holds no "=". `RequestAssumption`: numbers of inputs and outputs and lengths of scripts fit the widest form. Hashes are injective, as in
the models. TLC evaluates all of them on its instances.

**Only model-checked.** `CallsReturn` and `QueriesEnd` are liveness under fairness, which the prover
does not do. The other properties of the
`library` run speak of numbers built digit by digit (`RegroupsBits`,
`OneToOne`, `PaysExactly`, `OnlyIntact`, `FileReadsBack`) or of the group law of the curve
(`LoopInvariant`, `AgreesWithSigner`), whose associativity over an arbitrary prime field is a
theorem of algebra these provers have no library for; `OnlyIntact` and `AsCore` concern
particular constants, on which a run over them says what there is to say.

## 5. Plan

1. Done: NodeRPC and its service, Electrum client, queries, transaction parser, first proofs.
2. Done: `HdAccounts`, `WalletSpend`, `PsbtBuilder` over `HdKeys` and `SpendMetadata`.
3. Done: `KeyPaths`, `PsbtBytes` with `PsbtMaps` and `UnsignedTx`, `dust_threshold`.
4. Done: `BitGroups`, `Base58`, `AddressCodec`, the two checksums, `PublicPoints`, `HashPadding`.
5. Done: `ConfigReader`.
6. Done: proofs of the clients, the queries, the accounts and the PSBT modules (section 4).
7. Done: proofs of the transaction parser and of its composition with the writer of `psbt.py`.
8. Done: proofs of `KeyPaths` (both properties) and `ConfigReader`.
9. Left: the loop of `PublicPoints` as far as it does not need the group law (the scalar's bound,
   that the registers hold triples over the field).

## 6. Not modelled

- The rounds of RIPEMD-160 and the wrappers over `hashlib` (`hashing.py`): functions without state
  or cases, of which a scaled-down model would say nothing; known-answer tests do. In
  the models a hash is injective or, in `AddressCodec` and `Base58`, a parameter.
- `errors.py` and `__init__.py`: classes and re-exports without behaviour.
- JSON and HTTP encodings, reduced to the distinctions the client makes; TLS set-up, one
  outcome of connecting; opening and decoding the configuration file.
- `p2pk_script` and the scripthash functions (`address.py`): constants around an argument and a
  hash reversed. Pushes beyond 2^32 bytes, which no memory holds.
- The 78 bytes of a serialized extended key: its fields are a record in `HdKeys`.
- An endless line from an Electrum server (`_electrum.py:87`): the code sets no limit on one, and
  the model's streams are finite.
