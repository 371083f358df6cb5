------------------------------ MODULE MCTools ------------------------------
(* An instance of ToolAdapters for TLC: the five tools with the candidates  *)
(* and the identity pattern of their definitions, lines of every kind each  *)
(* parser tells apart, two identities and conflicting values for one, and   *)
(* limits that cut in a line's text, before its newline, after it, or not   *)
(* at all.                                                                  *)
EXTENDS ToolAdapters

MCTools      == {"subfinder", "httpx", "katana", "nuclei", "whatweb"}
MCCandidates == [t \in MCTools |-> IF t = "httpx" THEN 2 ELSE 1]
MCProbed     == {"httpx"}

Line(form, fault, approved, id, val) ==
  [form |-> form, fault |-> fault, approved |-> approved, id |-> id, val |-> val]

BlankLine     == Line("blank", "none", FALSE, 0, 0)
TextLine      == Line("text", "none", FALSE, 0, 0)
Faulty(fault) == Line("object", fault, TRUE, 1, 1)
Foreign(fault) == Line("object", fault, FALSE, 1, 1)
Good(id, val) == Line("object", "none", TRUE, id, val)

MCLines == [
  subfinder |-> {BlankLine, Faulty("host"), Foreign("none"), Good(1, 1), Good(2, 1)},
  httpx     |-> {Foreign("failed"), Foreign("port"), Good(1, 1), Good(1, 2)},
  katana    |-> {TextLine, Faulty("query"), Good(1, 1), Good(1, 2)},
  nuclei    |-> {BlankLine, Faulty("matcher-name"), Good(1, 1), Good(1, 2), Good(2, 1)},
  whatweb   |-> {BlankLine, Faulty("version"), Faulty("evidence"), Good(1, 1), Good(1, 2)}]

Limit(stdout, output, records, lines, replacements) ==
  [stdout |-> stdout, output |-> output, records |-> records,
   lines |-> lines, changes |-> replacements]

\* long outputs of an executable that stays, and short ones of one that does not
MCLimits ==
  {Limit(n, 9, 3, 2, 0) : n \in {3, 4, 5}} \cup
  {Limit(9, 8, 1, 3, 0), Limit(9, 9, 3, 3, 0), Limit(3, 9, 3, 1, 1)}
============================================================================
