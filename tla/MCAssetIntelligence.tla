------------------------ MODULE MCAssetIntelligence ------------------------
(* Instances of AssetIntelligence for TLC: names 1 to 3, addresses 4 and 5.      *)
EXTENDS AssetIntelligence

Host(i, A)     == [kind |-> "host", id |-> i, aliases |-> A]
Sub(a)         == [kind |-> "subdomain", id |-> 1, aliases |-> {a}]
Endpoint(i, A) == [kind |-> "endpoint", id |-> i, aliases |-> A]
Tech(i, A)     == [kind |-> "technology", id |-> i, aliases |-> A]

\* hosts that share addresses, a pair that differs in its evidence only, one that
\* can join three assets at once, and one without names
MCHosts == {Host(1, {1, 4}), Host(2, {1, 4}), Host(1, {2, 5}), Host(1, {2, 4}),
            Host(1, {3, 4, 5}), Host(1, {3}), Host(1, {})}

MCOthers == {Sub(1), Sub(3), Endpoint(1, {2}), Endpoint(2, {5}), Endpoint(1, {}),
             Tech(1, {1}), Tech(1, {5}), Tech(1, {})}

MCObservations == MCHosts \cup MCOthers

MCInputs == {H \cup T : H \in {S \in SUBSET MCHosts : Cardinality(S) <= 4},
                        T \in {S \in SUBSET MCOthers : Cardinality(S) <= 3}}
==============================================================================
