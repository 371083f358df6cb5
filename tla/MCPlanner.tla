------------------------------ MODULE MCPlanner ------------------------------
(* An instance of Planner for TLC: all small registries of a shape that has      *)
(* chains, diamonds, cycles, missing and ambiguous producers.                    *)
EXTENDS Planner, TLC

SmallIds  == 1..3
SmallKeys == 1..3

SmallRegistries ==
  [requires : [SmallIds -> {{}, {1}, {2}, {3}, {1, 2}, {2, 3}}],
   provides : [SmallIds -> {{}, {1}, {2}, {2, 3}}]]

Factories(have, broken, misnamed) ==
  [have |-> have, broken |-> broken, misnamed |-> misnamed]

SmallFactories == {Factories({1, 2, 3}, {}, {}), Factories({1, 2}, {}, {}),
                   Factories({1, 2}, {2}, {1})}

SmallDefinitions == {[requires |-> <<{}, {}, {2}>>, provides |-> <<{1}, {2}, {2, 3}>>],
                     [requires |-> <<{3}, {}, {}>>, provides |-> <<{1}, {2, 3}, {}>>]}
==============================================================================
