-------------------------------- MODULE Nvd --------------------------------
(***************************************************************************)
(* NvdAdapter: CPE search and CVE lookup over HTTP, page by page, with      *)
(* retries. The service may be truthful, in pages of any size, or answer    *)
(* anything; the network may fail in each way _request_json tells apart.    *)
(* Waiting (the request slot, Retry-After, back-off) is left out: it delays *)
(* a request and decides nothing.                                           *)
(***************************************************************************)
EXTENDS Integers, Sequences, SequencesExt

CONSTANTS
  CpeItems,    \* raw items of a CPE search
  CveItems,    \* raw items of a CVE lookup
  Products,    \* truthful service: the CPE items for each search
  Records,     \* truthful service: the CVE items for each CPE name
  OddPages,    \* what any other service may send for each path
  PageSizes,   \* the page sizes of a truthful service
  MaxRetries,  \* NvdAdapter.max_retries
  MaxPages     \* NvdAdapter.max_pages

Missing == -1

\* A decoded page. array: the collection is a list; total, start and per are
\* totalResults, startIndex and resultsPerPage, Missing if absent or invalid.
PageOf(raw) == [array : BOOLEAN, items : Seq(raw), total : Nat \cup {Missing},
                start : Nat \cup {Missing}, per : Nat \cup {Missing}]

ASSUME NvdAssumption ==
  /\ OddPages.cpe \subseteq PageOf(CpeItems)
  /\ OddPages.cve \subseteq PageOf(CveItems)
  /\ PageSizes \subseteq Nat \ {0}
  /\ MaxRetries \in Nat /\ MaxPages \in Nat \ {0}
  /\ \A q \in DOMAIN Products : Products[q] \in Seq(CpeItems)
  /\ \A c \in DOMAIN Records : Records[c] \in Seq(CveItems)

VARIABLES
  truthful, \* whether the service answers truthfully
  query,    \* the search in progress: [path, of], path "none" if there is none
  start,    \* startIndex of the next request
  page,     \* pages received
  attempt,  \* attempts of this request that failed
  items,    \* raw items collected
  reply     \* "none", "pending", "items", "failed" (an AdapterError), "broken"

nvdVars == <<truthful, query, start, page, attempt, items, reply>>

NoQuery == [path |-> "none"]

NvdInit ==
  /\ truthful \in BOOLEAN
  /\ query = NoQuery
  /\ start = 0 /\ page = 0 /\ attempt = 0 /\ items = <<>> /\ reply = "none"

\* search_cpe_candidates, get_vulnerabilities: up to the first request.
Ask(q) ==
  /\ query' = q /\ reply' = "pending"
  /\ start' = 0 /\ page' = 0 /\ attempt' = 0 /\ items' = <<>>
  /\ UNCHANGED truthful

Forget == query' = NoQuery /\ reply' = "none" /\ start' = 0 /\ page' = 0
          /\ attempt' = 0 /\ items' = <<>> /\ UNCHANGED truthful

Truth(q) == IF q.path = "cpe" THEN Products[q.of] ELSE Records[q.of]

\* What the service holds from index s on, n items at a time. It may leave
\* out the index and the size of the page.
HonestPages(q, s) ==
  LET slice(n) == SubSeq(Truth(q), s + 1, Min({s + n, Len(Truth(q))}))
  IN {[array |-> TRUE, items |-> slice(n), total |-> Len(Truth(q)), start |-> s,
       per |-> Len(slice(n))] : n \in PageSizes}
     \cup {[array |-> TRUE, items |-> slice(n), total |-> Len(Truth(q)), start |-> Missing,
            per |-> Missing] : n \in PageSizes}

Answered(outcome) == reply' = outcome /\ UNCHANGED <<start, page, attempt>>

\* Mutant: the last page is taken to be reached one item early.
PaginateShort(p) ==
  LET first == IF p.start = Missing THEN start ELSE p.start
      size  == IF p.per \in {Missing, 0} THEN Len(p.items) ELSE p.per
      next  == first + size
  IN \/ ~p.array /\ Answered("failed") /\ UNCHANGED items
     \/ /\ p.array /\ items' = items \o p.items
        /\ IF p.total = Missing THEN Answered("failed")
           ELSE IF next + 1 >= p.total \/ p.items = <<>> THEN Answered("items")
           ELSE IF next <= start \/ page + 1 = MaxPages THEN Answered("failed")
           ELSE start' = next /\ page' = page + 1 /\ attempt' = 0 /\ reply' = "pending"

\* One turn of the loop of _get_paginated_items after a response.
Paginate(p) ==
  LET first == IF p.start = Missing THEN start ELSE p.start
      size  == IF p.per \in {Missing, 0} THEN Len(p.items) ELSE p.per
      next  == first + size
  IN \/ ~p.array /\ Answered("failed") /\ UNCHANGED items
     \/ /\ p.array /\ items' = items \o p.items
        /\ IF p.total = Missing THEN Answered("failed")
           ELSE IF next >= p.total \/ p.items = <<>> THEN Answered("items")
           \* it did not advance, or that was the last page allowed
           ELSE IF next <= start \/ page + 1 = MaxPages THEN Answered("failed")
           ELSE start' = next /\ page' = page + 1 /\ attempt' = 0 /\ reply' = "pending"

Respond ==
  /\ reply = "pending"
  /\ \E p \in IF truthful THEN HonestPages(query, start) ELSE OddPages[query.path] : Paginate(p)
  /\ UNCHANGED <<truthful, query>>

\* 403, another status, a payload over the limit, no JSON object.
Reject ==
  /\ reply = "pending"
  /\ Answered("failed") /\ UNCHANGED <<truthful, query, items>>

\* Mutant: the last attempt allowed starts the count again.
RetryForever ==
  /\ reply = "pending"
  /\ attempt' = (attempt + 1) % (MaxRetries + 1)
  /\ UNCHANGED <<truthful, query, start, page, items, reply>>

\* 429, 5xx, a timeout or a network error: tried again, MaxRetries times.
Retry ==
  /\ reply = "pending"
  /\ IF attempt < MaxRetries
     THEN attempt' = attempt + 1 /\ UNCHANGED <<start, page, reply>>
     ELSE Answered("failed")
  /\ UNCHANGED <<truthful, query, items>>

\* An exception that is neither an AdapterError nor an OSError, for instance
\* while the body is read.
Break ==
  /\ reply = "pending"
  /\ Answered("broken") /\ UNCHANGED <<truthful, query, items>>

NvdStep == Respond \/ Reject \/ Retry \/ Break

NvdTypeOK ==
  /\ truthful \in BOOLEAN
  /\ query.path \in {"none", "cpe", "cve"}
  /\ start \in Nat /\ page \in 0..(MaxPages - 1) /\ attempt \in 0..MaxRetries
  /\ items \in Seq(CpeItems \cup CveItems)
  /\ reply \in {"none", "pending", "items", "failed", "broken"}
============================================================================
