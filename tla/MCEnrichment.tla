---------------------------- MODULE MCEnrichment ----------------------------
(* A small instance of Enrichment: three CVEs of ordinary length, one      *)
(* overlong reference, services that know the first best.                  *)
EXTENDS Enrichment

CONSTANTS c1, c2, c3, long

MCCve == {c1, c2, c3, long}

\* Empty, two CVEs and a finding without one, one CVE shared by two findings
\* and an ambiguous finding, three CVEs, a collection with an overlong reference.
MCCollections ==
  {{},
   {[id |-> 1, cves |-> {c1}], [id |-> 2, cves |-> {c2}], [id |-> 3, cves |-> {}]},
   {[id |-> 1, cves |-> {c1}], [id |-> 2, cves |-> {c1}], [id |-> 3, cves |-> {c1, c2}]},
   {[id |-> 1, cves |-> {c1}], [id |-> 2, cves |-> {c2}], [id |-> 3, cves |-> {c3}]},
   {[id |-> 1, cves |-> {long}], [id |-> 2, cves |-> {c1}]}}

Entry(key, version, score, severity, vector) ==
  [key |-> key, version |-> version, score |-> score, severity |-> severity,
   vector |-> vector]
CvssRecord(c, v3, entries) == [cve |-> c, v3 |-> v3, entries |-> entries]
EpssRecord(c, probability, percentile) ==
  [cve |-> c, probability |-> probability, percentile |-> percentile]

High   == Entry("3.1", "3.1", 89, "high", TRUE)
Medium == Entry("3.0", "3.0", 69, "medium", TRUE)
WrongBand    == Entry("3.1", "3.1", 90, "high", TRUE)
WrongVersion == Entry("3.1", "3.0", 40, "medium", TRUE)
NoVector     == Entry("3.1", "3.1", 39, "low", FALSE)

\* c1 is known to all three, c2 to NVD without a CVSS 3 metric and to FIRST, c3
\* to CISA alone.
MCHoldings ==
  [cvss |-> {CvssRecord(c1, TRUE, {High, Medium}), CvssRecord(c2, FALSE, {})},
   epss |-> {EpssRecord(c1, 10, 0), EpssRecord(c2, 1, 2)},
   kev  |-> {[cve |-> c1], [cve |-> c3]}]

Form(form, rs) == [form |-> form, records |-> rs]

\* Nothing, junk, records about another CVE or none, contradictory and invalid
\* ones, more assessments than an outcome holds, more records than allowed.
MCOddBodies ==
  [cvss |-> {Form("junk", <<>>), Form("list", <<>>),
             Form("list", <<CvssRecord(c2, TRUE, {High})>>),
             Form("list", <<CvssRecord(NoCve, TRUE, {High}), CvssRecord(c1, TRUE, {Medium})>>),
             Form("list", <<CvssRecord(c1, TRUE, {High, WrongBand, WrongVersion, NoVector})>>),
             Form("list", <<CvssRecord(c1, TRUE, {High, Medium}),
                            CvssRecord(c1, TRUE, {Entry("3.1", "3.1", 0, "none", TRUE)})>>),
             Form("list", <<CvssRecord(c1, TRUE, {})>>)},
   epss |-> {Form("junk", <<>>), Form("list", <<EpssRecord(c1, 10, 11)>>),
             Form("list", <<EpssRecord(c1, 3, 4), EpssRecord(c1, 3, 5)>>),
             Form("list", <<EpssRecord(long, 3, 4), EpssRecord(c2, 3, 4)>>),
             Form("list", <<EpssRecord(c1, 3, 4), EpssRecord(c2, 3, 4), EpssRecord(c1, 3, 4),
                            EpssRecord(c2, 3, 4)>>)},
   kev  |-> {Form("junk", <<>>), Form("list", <<[cve |-> NoCve], [cve |-> c2]>>),
             Form("list", <<[cve |-> c1], [cve |-> long]>>),
             Form("list", <<>>)}]

Own(c, st, data) == [cve |-> c, status |-> st, data |-> data]

\* Exact, incomplete, duplicate and foreign answers of a provider of the host.
MCCustomAnswers ==
  {<<Own(c1, "AVAILABLE", {TRUE})>>,
   <<Own(c2, "PARTIAL", {TRUE}), Own(c1, "NOT_APPLICABLE", {})>>,
   <<Own(c1, "AVAILABLE", {TRUE}), Own(c1, "AVAILABLE", {TRUE})>>,
   <<Own(c1, "AVAILABLE", {TRUE}), Own(c2, "AVAILABLE", {TRUE}), Own(long, "ERROR", {})>>}
=============================================================================
