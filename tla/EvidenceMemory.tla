--------------------------- MODULE EvidenceMemory ---------------------------
(***************************************************************************)
(* Retrieved and cached evidence (memory/data_clients.py) over the         *)
(* content-addressed artifacts (evidence/artifacts.py): a search binds an  *)
(* older artifact to another incident as one more link of its lineage, and *)
(* the derived cache hands bundles out again.  The index and Redis are     *)
(* not trusted, and an artifact may rot on disk.                           *)
(***************************************************************************)
EXTENDS Naturals, Sequences, FiniteSets, SequencesExt

CONSTANTS Scopes,      \* [incident, ns] of the investigations; one service
          Originals,   \* [incident, ns] of the artifacts that exist already
          MaxLinks,    \* the retrieval links a lineage may have
          MaxRows,     \* SearchRequest.size
          MaxTtl,      \* the longest lifetime of a cache entry
          MaxTime,     \* bound of the clock
          MaxSearches, MaxPuts  \* bounds of the run

VARIABLES files,    \* the artifacts written
          rotten,   \* those whose bytes no longer match their digest
          cached,   \* every envelope ever put into Redis
          clock,
          given,    \* the last answer: [via, scope, items]
          searches

evidenceVars == <<files, rotten, cached, clock, given, searches>>

\* An item is an original artifact and the scopes it was retrieved for, the latest last.
Original(o) == [origin |-> o, links |-> <<>>]
IncidentOf(item) == IF item.links = <<>> THEN item.origin.incident ELSE Last(item.links).incident
Namespace(item) == IF item.links = <<>> THEN item.origin.ns ELSE Last(item.links).ns
Source(item, k) == [item EXCEPT !.links = SubSeq(@, 1, k)]
Retrieved(item, scope) == [item EXCEPT !.links = Append(@, scope)]

NothingGiven == [via |-> "none", scope |-> [incident |-> "none", ns |-> "none"], items |-> {}]

EvidenceInit ==
  /\ files = {Original(o) : o \in Originals}
  /\ rotten = {} /\ cached = {} /\ clock = 0 /\ searches = 0
  /\ given = NothingGiven

\* ArtifactStore.verify
Readable(item) == item \in files \ rotten

\* verify_retrieval_evidence: the whole chain, each link in the scope of its source.
Lineage(item) ==
  /\ Len(item.links) <= MaxLinks
  /\ \A k \in 0..Len(item.links) : Readable(Source(item, k))
  /\ \A k \in DOMAIN item.links : item.links[k].ns = Namespace(Source(item, k - 1))

-----------------------------------------------------------------------------
(* ElasticsearchRetrieval.search                                           *)

\* A row's document names its scope and points to an artifact; both may be wrong.
Rows == [ns : {s.ns : s \in Scopes}, item : files]

AcceptedRow(row, scope) ==
  /\ row.ns = scope.ns
  /\ Lineage(row.item) /\ Namespace(row.item) = scope.ns

Distinct(rows) == \A r, q \in rows : r.item = q.item => r = q

\* Mutant: the result is not verified as a lineage of its own.
SearchUnverified(scope) ==
  /\ searches < MaxSearches
  /\ searches' = searches + 1
  /\ \E rows \in {r \in SUBSET Rows : Cardinality(r) <= MaxRows} :
       LET results == {Retrieved(r.item, scope) : r \in rows}
       IN  /\ \A r \in rows : AcceptedRow(r, scope)
           /\ files' = files \cup results /\ rotten' = rotten \ results
           /\ given' = [via |-> "search", scope |-> scope, items |-> results]
  /\ UNCHANGED <<cached, clock>>

\* Every accepted row is written as a new artifact and verified again; one bad row, or a
\* lineage grown too long, fails the search.  Artifacts written before stay.  An artifact
\* of the same lineage as a rotten one has bytes of its own.
Search(scope) ==
  /\ searches < MaxSearches
  /\ searches' = searches + 1
  /\ \E rows \in {r \in SUBSET Rows : Cardinality(r) <= MaxRows} :
       LET good == {r \in rows : AcceptedRow(r, scope)}
           results == {Retrieved(r.item, scope) : r \in good}
       IN  /\ \E written \in SUBSET results :
                /\ Distinct(rows) /\ good = rows => written = results
                /\ files' = files \cup written /\ rotten' = rotten \ written
           /\ given' = IF /\ Distinct(rows) /\ good = rows
                          /\ \A item \in results : Len(item.links) <= MaxLinks
                       THEN [via |-> "search", scope |-> scope, items |-> results]
                       ELSE NothingGiven
  /\ UNCHANGED <<cached, clock>>

-----------------------------------------------------------------------------
(* RedisDerivedCache                                                       *)

\* _verify: what a scope may cache or be given.
Owned(item, scope) ==
  /\ IncidentOf(item) = scope.incident
  /\ IF item.links = <<>> THEN Readable(item) ELSE Lineage(item) /\ Last(item.links) = scope

Put(scope) ==
  /\ Cardinality(cached) < MaxPuts
  /\ \E items \in SUBSET files, ttl \in 1..MaxTtl :
       /\ \A item \in items : Owned(item, scope)
       /\ cached' = cached \cup {[scope |-> scope, created |-> clock, expires |-> clock + ttl,
                                  items |-> items]}
  /\ UNCHANGED <<files, rotten, clock, given, searches>>

Fresh(entry) == entry.created <= clock /\ clock < entry.expires

\* Redis may answer with nothing, or with any envelope it ever held: one past its time, or
\* one of another key.
Get(scope) ==
  /\ \E entry \in cached :
       given' = IF /\ entry.scope = scope /\ Fresh(entry)
                   /\ \A item \in entry.items : Owned(item, scope)
                THEN [via |-> "cache", scope |-> scope, items |-> entry.items]
                ELSE NothingGiven
  /\ UNCHANGED <<files, rotten, cached, clock, searches>>

-----------------------------------------------------------------------------

\* A wall clock may also step back.
SetClock ==
  /\ clock' \in (0..MaxTime) \ {clock}
  /\ UNCHANGED <<files, rotten, cached, given, searches>>

Rot ==
  /\ rotten = {}
  /\ \E item \in files : rotten' = {item}
  /\ given' = NothingGiven
  /\ UNCHANGED <<files, cached, clock, searches>>

EvidenceNext ==
  \/ \E scope \in Scopes : Search(scope) \/ Put(scope) \/ Get(scope)
  \/ SetClock \/ Rot

EvidenceSpec == EvidenceInit /\ [][EvidenceNext]_evidenceVars

-----------------------------------------------------------------------------

\* Whatever the index and Redis answer: an incident is given only its own evidence; what was
\* retrieved comes, link by link, from an artifact of its own namespace and still verifies,
\* so that a search never hands out what the cache, the report and the next search would
\* refuse; and a hit is a bundle that was put for exactly this scope.
EvidenceScoped ==
  /\ \A item \in given.items :
       /\ IncidentOf(item) = given.scope.incident
       /\ item.links # <<>> =>
            /\ Last(item.links) = given.scope /\ Lineage(item)
            /\ \A k \in DOMAIN item.links : item.links[k].ns = item.origin.ns
  /\ given.via = "search" => \A item \in given.items : Owned(item, given.scope)
  /\ given.via = "cache" => \E entry \in cached : entry.scope = given.scope /\ entry.items = given.items
=============================================================================
