---------------------------- MODULE MCChainQuery ----------------------------
(* Small instances of ChainQuery for TLC: two valid addresses, one that    *)
(* address_to_scripthash() rejects.                                        *)
EXTENDS ChainQuery

CONSTANTS a1, a2, badAddress, p1, p2

MCAddresses  == {a1, a2, badAddress}
MCScripthash == [a \in {a1, a2} |-> IF a = a1 THEN p1 ELSE p2]
=============================================================================
