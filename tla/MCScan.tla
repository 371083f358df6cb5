------------------------------- MODULE MCScan -------------------------------
(* Instances of Scan and Doctor for TLC: a chain 1 -> 2 -> 3 of capabilities (2  *)
(* needs what 1 provides, and so on), 4 outside it, which provides key 1 too or  *)
(* key 4, requirements that steps share, and three kinds of host.                *)
EXTENDS Doctor

MCIds       == 1..4
MCKeys      == 1..4
MCTools     == {1, 2}
MCProviders == {3}

Registries ==
  {[ids |-> ids, requires |-> <<{}, {1}, {2}, {}>>, provides |-> <<{1}, {2}, {3}, extra>>] :
     ids \in {1..4, 1..3, 2..4}, extra \in {{1}, {4}}}
  \cup {[ids |-> 1..4, requires |-> <<{2}, {1}, {2}, {}>>, provides |-> <<{1}, {2}, {3}, {4}>>]}

\* [have, misbound, broken]
FactorySets ==
  {<<1..4, {}, {}>>, <<{1, 3, 4}, {}, {}>>, <<1..4, {2}, {}>>, <<1..3, {}, {3}>>}

NeedSets == {<<{1}, {1, 2}, {1, 3}, {}>>, <<{}, {3}, {2, 3}, {1}>>}

Compose(reg, f, needs, present, probed, probe) ==
  [ids |-> reg.ids, requires |-> reg.requires, provides |-> reg.provides,
   have |-> f[1], misbound |-> f[2], broken |-> f[3], needs |-> needs,
   present |-> present, probed |-> probed, probe |-> probe]

Chain == [ids |-> 1..4, requires |-> <<{}, {1}, {2}, {}>>,
          provides |-> <<{1}, {2}, {3}, {4}>>]

\* every registry with all requirements met, and one registry with every
\* combination of what may be missing
MCCompositions ==
  {Compose(reg, f, <<{1}, {1, 2}, {1, 3}, {}>>, 1..3, 1..3, [r \in 1..3 |-> "READY"]) :
     reg \in Registries, f \in FactorySets}
  \cup
  {Compose(Chain, f, needs, present, probed, <<p1, p2, p3>>) :
     f \in FactorySets, needs \in NeedSets, present \in {1..3, 2..3, 1..2},
     probed \in {1..3, {1, 2}, {}}, p1 \in ProbeOutcomes,
     p2 \in {"READY", "NOT_READY"}, p3 \in {"READY", "PROBE_ERROR", "RAISES"}}

Request(service, goals, disabled, partial) ==
  [service |-> service, goals |-> goals, disabled |-> disabled, partial |-> partial]

MCRequests ==
  {Request("run", {3}, {4}, partial) : partial \in BOOLEAN} \cup
  {Request(service, goals, disabled, FALSE) :
     service \in {"run", "inspect"}, goals \in {{3}, {1, 4}}, disabled \in {{}, {1}}}

Host(support, python, valid) == [support |-> support, python |-> python, valid |-> valid]

MCHosts == {Host("BEST_EFFORT", TRUE, TRUE), Host("UNSUPPORTED", TRUE, TRUE),
            Host("PRIMARY", FALSE, FALSE)}
=============================================================================
