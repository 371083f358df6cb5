-------------------------- MODULE AssetIntelligence --------------------------
(***************************************************************************)
(* The identity index of capabilities/asset_intelligence.py: observations   *)
(* that share an alias belong to one asset, and a host with several names   *)
(* and addresses joins the assets that already have them.                   *)
(*                                                                          *)
(* An alias is a number, its place in the order of _alias_sort_key (names   *)
(* before addresses); what normalises to the same alias is the same number. *)
(* A builder is identified by the observation it was made for. The order of *)
(* the input lists and of the iteration over a set of aliases, which        *)
(* depends on string hashes, is arbitrary.                                  *)
(***************************************************************************)
EXTENDS Naturals, FiniteSets

CONSTANTS
  Aliases,      \* normalised names and addresses
  Addresses,    \* the aliases ip_address accepts
  Observations, \* [kind, id, aliases]: hosts, subdomains, endpoints, technologies
  Inputs,       \* the sets of observations a Context may hold
  None          \* Python's None

Kinds == {"host", "subdomain", "endpoint", "technology"}

ASSUME AliasAssumption == Aliases \subseteq Nat /\ Addresses \subseteq Aliases

ASSUME ObservationAssumption ==
  /\ Observations \subseteq [kind : Kinds, id : Nat, aliases : SUBSET Aliases]
  /\ \A o \in Observations :
       o.kind # "host" => \A a, b \in o.aliases : a = b
  /\ Inputs \subseteq SUBSET Observations
  /\ None \notin Observations

VARIABLES
  input,    \* everything the Context holds
  todo,     \* observations the loops have not reached
  pc,       \* "observe", "merge", "done" or "raised"
  current,  \* the observation being added
  dest,     \* the builder it is added to
  rest,     \* existing[1:], the builders still to be merged into dest
  builders, \* _IdentityIndex.builders
  content,  \* the fields of each _AssetBuilder
  byAlias,  \* _IdentityIndex.by_alias
  assets,   \* the assets of the read model
  linked    \* technology associations: [asset, technology]

vars == <<input, todo, pc, current, dest, rest, builders, content, byAlias,
          assets, linked>>

\* hosts and endpoints of a builder are its members
Empty == [aliases |-> {}, members |-> {}]

Init ==
  /\ input \in Inputs
  /\ todo = input
  /\ pc = "observe"
  /\ current = None
  /\ dest = None
  /\ rest = {}
  /\ builders = {}
  /\ content = [b \in Observations |-> Empty]
  /\ byAlias = [a \in Aliases |-> None]
  /\ assets = {}
  /\ linked = {}

-----------------------------------------------------------------------------
(* _build_identity_index *)

Rank == [host |-> 1, subdomain |-> 2, endpoint |-> 3, technology |-> 4]

\* hosts first, then subdomains, endpoints and technologies
Following(o) == o \in todo /\ \A p \in todo : Rank[o.kind] <= Rank[p.kind]

\* No alias: only a host is added all the same.
Skip(o) ==
  /\ pc = "observe"
  /\ Following(o)
  /\ o.kind # "host" /\ o.aliases = {}
  /\ todo' = todo \ {o}
  /\ UNCHANGED <<input, pc, current, dest, rest, builders, content, byAlias,
                 assets, linked>>

\* the builders by_alias has for some aliases
Existing(A) == {byAlias[a] : a \in A} \ {None}

\* Mutant: only the first builder found is used.
BeginFirst(o) ==
  /\ pc = "observe"
  /\ Following(o)
  /\ o.kind = "host" \/ o.aliases # {}
  /\ pc' = "merge"
  /\ current' = o
  /\ rest' = {}
  /\ IF Existing(o.aliases) # {}
     THEN dest' \in Existing(o.aliases) /\ UNCHANGED <<builders, content>>
     ELSE /\ dest' = o
          /\ builders' = builders \cup {o}
          /\ content' = [content EXCEPT ![o] = Empty]
  /\ UNCHANGED <<input, todo, byAlias, assets, linked>>

\* add(aliases), up to the choice of the builder
Begin(o) ==
  /\ pc = "observe"
  /\ Following(o)
  /\ o.kind = "host" \/ o.aliases # {}
  /\ pc' = "merge"
  /\ current' = o
  /\ IF Existing(o.aliases) # {}
     THEN /\ \E b \in Existing(o.aliases) :
               dest' = b /\ rest' = Existing(o.aliases) \ {b}
          /\ UNCHANGED <<builders, content>>
     ELSE /\ dest' = o /\ rest' = {}
          /\ builders' = builders \cup {o}
          /\ content' = [content EXCEPT ![o] = Empty]
  /\ UNCHANGED <<input, todo, byAlias, assets, linked>>

\* Mutant: the merged builder stays in the list.
MergeKeep(source) ==
  /\ pc = "merge"
  /\ source \in rest
  /\ rest' = rest \ {source}
  /\ content' = [content EXCEPT
       ![dest] = [aliases |-> @.aliases \cup content[source].aliases,
                  members |-> @.members \cup content[source].members]]
  /\ byAlias' = [a \in Aliases |->
       IF a \in content[source].aliases THEN dest ELSE byAlias[a]]
  /\ UNCHANGED <<input, todo, pc, current, dest, builders, assets, linked>>

\* Mutant: only the aliases are merged.
MergeAliases(source) ==
  /\ pc = "merge"
  /\ source \in rest
  /\ rest' = rest \ {source}
  /\ content' = [content EXCEPT ![dest].aliases = @ \cup content[source].aliases]
  /\ byAlias' = [a \in Aliases |->
       IF a \in content[source].aliases THEN dest ELSE byAlias[a]]
  /\ builders' = builders \ {source}
  /\ UNCHANGED <<input, todo, pc, current, dest, assets, linked>>

\* _merge(dest, source). list.remove takes out an item that is equal to source,
\* and two builders are equal when their fields are.
Merge(source) ==
  /\ pc = "merge"
  /\ source \in rest
  /\ rest' = rest \ {source}
  /\ content' = [content EXCEPT
       ![dest] = [aliases |-> @.aliases \cup content[source].aliases,
                  members |-> @.members \cup content[source].members]]
  /\ byAlias' = [a \in Aliases |->
       IF a \in content[source].aliases THEN dest ELSE byAlias[a]]
  /\ \E b \in builders : /\ content'[b] = content'[source]
                         /\ builders' = builders \ {b}
  /\ UNCHANGED <<input, todo, pc, current, dest, assets, linked>>

\* the rest of add, and builder.hosts.add or builder.endpoints.add
Attach ==
  /\ pc = "merge"
  /\ rest = {}
  /\ pc' = "observe"
  /\ todo' = todo \ {current}
  /\ content' = [content EXCEPT
       ![dest] = [aliases |-> @.aliases \cup current.aliases,
                  members |-> IF current.kind \in {"host", "endpoint"}
                              THEN @.members \cup {current} ELSE @.members]]
  /\ byAlias' = [a \in Aliases |->
       IF a \in content'[dest].aliases THEN dest ELSE byAlias[a]]
  /\ UNCHANGED <<input, current, dest, rest, builders, assets, linked>>

-----------------------------------------------------------------------------
(* _build_assets and _associate_technologies *)

Least(S) == CHOOSE x \in S : \A y \in S : x <= y

Type(c) ==
  IF \/ \E m \in c.members : m.kind = "host"
     \/ c.aliases \cap Addresses # {}
  THEN "host" ELSE "domain"

Asset(b) == [name    |-> Least(content[b].aliases),
             type    |-> Type(content[b]),
             aliases |-> content[b].aliases,
             members |-> content[b].members]

Sourced == {o \in input : o.kind = "technology" /\ o.aliases # {}}

\* find(alias)
Found(t) == byAlias[Least(t.aliases)]

\* min of no aliases is a ValueError, a builder that is no longer in the list a
\* KeyError; the runtime turns either into an ERROR without data.
Finish ==
  /\ pc = "observe"
  /\ todo = {}
  /\ IF \/ \E b \in builders : content[b].aliases = {}
        \/ \E t \in Sourced : Found(t) \notin builders \cup {None}
     THEN pc' = "raised" /\ UNCHANGED <<assets, linked>>
     ELSE /\ pc' = "done"
          /\ assets' = {Asset(b) : b \in builders}
          /\ linked' = {[asset |-> Asset(Found(t)).name, technology |-> t] :
                          t \in {u \in Sourced : Found(u) # None}}
  /\ UNCHANGED <<input, todo, current, dest, rest, builders, content, byAlias>>

Next ==
  \/ \E o \in todo : Skip(o) \/ Begin(o)
  \/ \E b \in rest : Merge(b)
  \/ Attach
  \/ Finish

Spec == Init /\ [][Next]_vars

-----------------------------------------------------------------------------
(* Type *)

Contents == [aliases : SUBSET Aliases, members : SUBSET Observations]

\* The observations, aliases and assets that the asset service builds up one
\* observation at a time keep their types.
TypeOK ==
  /\ input \subseteq Observations /\ todo \subseteq input
  /\ pc \in {"observe", "merge", "done", "raised"}
  /\ current \in input \cup {None}
  /\ dest \in Observations \cup {None}
  /\ rest \subseteq builders
  /\ builders \subseteq input
  /\ content \in [Observations -> Contents]
  /\ byAlias \in [Aliases -> builders \cup {None}]
  /\ assets \subseteq [name : Aliases, type : {"host", "domain"},
                       aliases : SUBSET Aliases, members : SUBSET Observations]
  /\ linked \subseteq [asset : Aliases, technology : Observations]

-----------------------------------------------------------------------------
(* Properties *)

\* The index and the list of builders describe the same partition of the
\* aliases seen so far, in the middle of a merge too: no builder that was
\* merged away is found by an alias, and the one removed is the one merged.
IndexIsPartition ==
  /\ \A b \in builders : \A a \in content[b].aliases : byAlias[a] = b
  /\ \A a \in Aliases : byAlias[a] # None =>
       byAlias[a] \in builders /\ a \in content[byAlias[a]].aliases

\* S cuts no observation of P in two.
Respects(S, P) == \A o \in P : o.aliases \subseteq S \/ o.aliases \cap S = {}

\* The assets are the connected components of the observations, whatever their
\* order: an observation lies in one asset, and no asset is larger than the
\* links between observations make it.
AssetsAreComponents ==
  pc = "done" =>
    /\ \A o \in input : o.aliases # {} =>
         \E x \in assets : /\ o.aliases \subseteq x.aliases
                           /\ \A y \in assets : y # x => o.aliases \cap y.aliases = {}
    /\ \A S \in SUBSET Aliases :
         Respects(S, input) => \A x \in assets : x.aliases \subseteq S \/ x.aliases \cap S = {}

\* Every host and endpoint is in exactly one asset, the one that has its aliases,
\* however often that asset was merged since, and a technology is associated with
\* the asset of its source host and with no other.
ObservationsKept ==
  pc = "done" =>
    /\ \A o \in input : (o.kind \in {"host", "endpoint"} /\ o.aliases # {}) =>
         \A x \in assets : o \in x.members <=> o.aliases \subseteq x.aliases
    /\ \A t \in Sourced : \A x \in assets :
         [asset |-> x.name, technology |-> t] \in linked <=> t.aliases \subseteq x.aliases

\* Building fails only on a host that has neither a name nor an address.
OnlyNamelessRaises ==
  pc = "raised" => \E o \in input : o.kind = "host" /\ o.aliases = {}
==============================================================================
