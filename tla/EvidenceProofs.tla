--------------------------- MODULE EvidenceProofs ---------------------------
(***************************************************************************)
(* Proofs about what is given out as evidence: EvidenceMemory, for any     *)
(* scopes, artifacts and bounds; MemoryEvidence, for any finite workload;  *)
(* TraceReads, for any logs, any number of pods and of their changes.      *)
(*                                                                         *)
(* EvidenceMemory rests on FilesInv: every artifact on disk stays in the   *)
(* namespace of its origin, link by link, so that one more link of a       *)
(* verified lineage is a lineage again.  MemoryEvidence rests on           *)
(* MemoryInv: what the judgement of the records so far, not yet refused,   *)
(* says of the service, where a request whose release left no line stays   *)
(* open.  TraceReads rests on TraceInv: the live pod with a uid that was   *)
(* read has only restarted since, and every pod still to be read is paid   *)
(* for.                                                                    *)
(***************************************************************************)
EXTENDS EvidenceMemory, MemoryEvidence, TraceReads, SequenceTheorems, FiniteSetTheorems,
        WellFoundedInduction, TLAPS

-----------------------------------------------------------------------------
(* EvidenceMemory                                                          *)

Items == [origin : Originals, links : Seq(Scopes)]

Homely(item) == item \in Items /\ \A k \in DOMAIN item.links : item.links[k].ns = item.origin.ns

FilesInv == \A item \in files : Homely(item)
CachedInv == \A entry \in cached : entry.items \subseteq files
EvidenceInv == FilesInv /\ CachedInv /\ EvidenceScoped

LEMMA Links ==
  ASSUME NEW item \in Items
  PROVE  /\ Len(item.links) \in Nat /\ DOMAIN item.links = 1..Len(item.links)
         /\ item.links # <<>> <=> Len(item.links) # 0
         /\ Source(item, Len(item.links)) = item
         /\ \A k \in DOMAIN item.links : item.links[k] \in Scopes
  <1>1. item.links \in Seq(Scopes)
    BY DEF Items
  <1>2. /\ Len(item.links) \in Nat /\ DOMAIN item.links = 1..Len(item.links)
        /\ item.links # <<>> <=> Len(item.links) # 0
        /\ \A k \in DOMAIN item.links : item.links[k] \in Scopes
    BY <1>1, LenProperties, EmptySeq, ElementOfSeq
  <1>3. SubSeq(item.links, 1, Len(item.links)) = item.links
    BY <1>1, SubSeqFull
  <1>4. Source(item, Len(item.links)) = item
    BY <1>3 DEF Source, Items
  <1> QED
    BY <1>2, <1>4

LEMMA HomelyNamespace ==
  ASSUME NEW item, Homely(item) PROVE Namespace(item) = item.origin.ns
  <1>1. item \in Items /\ \A k \in DOMAIN item.links : item.links[k].ns = item.origin.ns
    BY DEF Homely
  <1>2. CASE item.links # <<>>
    <2>1. Len(item.links) \in DOMAIN item.links
      BY <1>1, <1>2, Links
    <2> QED
      BY <1>1, <1>2, <2>1 DEF Namespace, Last
  <1> QED
    BY <1>2 DEF Namespace

\* What one more link leaves of an item.
LEMMA RetrievedLinks ==
  ASSUME NEW item \in Items, NEW scope \in Scopes, NEW x, x = Retrieved(item, scope)
  PROVE  /\ x \in Items /\ x.origin = item.origin /\ Len(x.links) = Len(item.links) + 1
         /\ x.links # <<>> /\ Last(x.links) = scope
         /\ \A k \in 1..Len(item.links) : x.links[k] = item.links[k]
         /\ \A k \in 0..Len(item.links) : Source(x, k) = Source(item, k)
  <1> DEFINE s == item.links
  <1>1. s \in Seq(Scopes) /\ x.links = Append(s, scope) /\ x.origin = item.origin /\ x \in Items
    <2>1. s \in Seq(Scopes) /\ item.origin \in Originals
      BY DEF Items
    <2>2. x = [origin |-> item.origin, links |-> Append(s, scope)]
      BY DEF Items, Retrieved
    <2>3. Append(s, scope) \in Seq(Scopes)
      BY <2>1
    <2> HIDE DEF s
    <2> QED
      BY <2>1, <2>2, <2>3 DEF Items
  <1>2. /\ x.links \in Seq(Scopes) /\ x.links # <<>> /\ Len(x.links) = Len(s) + 1
        /\ \A i \in 1..Len(s) : x.links[i] = s[i]
        /\ x.links[Len(s) + 1] = scope /\ Len(s) \in Nat
    BY <1>1, AppendProperties, LenProperties
  <1>3. Last(x.links) = scope
    BY <1>2 DEF Last
  <1>4. ASSUME NEW k \in 0..Len(s) PROVE Source(x, k) = Source(item, k)
    <2>1. \A i \in 1..k : x.links[i] = s[i] /\ s[i] \in Scopes
      BY <1>1, <1>2, ElementOfSeq
    <2>2. /\ SubSeq(x.links, 1, k) \in Seq(Scopes) /\ SubSeq(s, 1, k) \in Seq(Scopes)
          /\ Len(SubSeq(x.links, 1, k)) = IF 1 <= k THEN k - 1 + 1 ELSE 0
          /\ Len(SubSeq(s, 1, k)) = IF 1 <= k THEN k - 1 + 1 ELSE 0
          /\ \A i \in 1..k - 1 + 1 : SubSeq(x.links, 1, k)[i] = x.links[1 + i - 1]
          /\ \A i \in 1..k - 1 + 1 : SubSeq(s, 1, k)[i] = s[1 + i - 1]
      <3>1. k \in Int /\ 1 \in Int /\ \A i \in 1..k : x.links[i] \in Scopes /\ s[i] \in Scopes
        BY <1>2, <2>1
      <3> QED
        BY <3>1, SubSeqProperties
    <2>3. SubSeq(x.links, 1, k) = SubSeq(s, 1, k)
      <3>1. Len(SubSeq(x.links, 1, k)) = k /\ Len(SubSeq(s, 1, k)) = k
        BY <1>2, <2>2
      <3>2. ASSUME NEW i \in 1..k PROVE SubSeq(x.links, 1, k)[i] = SubSeq(s, 1, k)[i]
        BY <1>2, <2>1, <2>2
      <3> QED
        BY <2>2, <3>1, <3>2, SeqEqual
    <2> QED
      BY <1>1, <2>3 DEF Source, Items
  <1> QED
    BY <1>1, <1>2, <1>3, <1>4

\* A verified lineage and one more link in its namespace: written, and not too long, it is
\* a verified lineage in the same namespace.
LEMMA LineageGrows ==
  ASSUME NEW item \in files, Homely(item), Lineage(item), NEW scope \in Scopes,
         Namespace(item) = scope.ns, NEW x, x = Retrieved(item, scope),
         Len(x.links) <= MaxLinks, x \in files', x \notin rotten', files \subseteq files', rotten' \subseteq rotten
  PROVE  Lineage(x)'
  <1> DEFINE n == Len(item.links)
  <1>1. item \in Items /\ n \in Nat /\ DOMAIN item.links = 1..n
    BY Links DEF Homely
  <1>2. /\ x \in Items /\ Len(x.links) = n + 1 /\ DOMAIN x.links = 1..n + 1 /\ Last(x.links) = scope
        /\ \A k \in 1..n : x.links[k] = item.links[k]
        /\ \A k \in 0..n : Source(x, k) = Source(item, k)
        /\ Source(x, n + 1) = x /\ Source(item, n) = item /\ x.links[n + 1] = scope
    <2>1. /\ x \in Items /\ Len(x.links) = n + 1 /\ Last(x.links) = scope
          /\ \A k \in 1..n : x.links[k] = item.links[k]
          /\ \A k \in 0..n : Source(x, k) = Source(item, k)
      <3>1. item \in Items /\ x = Retrieved(item, scope)
        BY <1>1
      <3>2. x \in Items /\ Len(x.links) = n + 1 /\ Last(x.links) = scope
        BY <3>1, RetrievedLinks
      <3>3. \A k \in 1..n : x.links[k] = item.links[k]
        BY <3>1, RetrievedLinks
      <3>4. \A k \in 0..n : Source(x, k) = Source(item, k)
        BY <3>1, RetrievedLinks
      <3> QED
        BY <3>2, <3>3, <3>4
    <2> QED
      BY <1>1, <2>1, Links DEF Last
  <1>3. ASSUME NEW k \in 0..Len(x.links) PROVE Readable(Source(x, k))'
    <2>1. CASE k = n + 1
      BY <1>2, <2>1 DEF Readable
    <2>2. CASE k \in 0..n
      <3>1. Readable(Source(item, k))
        BY <2>2 DEF Lineage
      <3> QED
        BY <1>2, <2>2, <3>1 DEF Readable
    <2> QED
      BY <1>1, <1>2, <2>1, <2>2
  <1>4. ASSUME NEW k \in DOMAIN x.links PROVE x.links[k].ns = Namespace(Source(x, k - 1))
    <2>1. CASE k = n + 1
      <3>1. Source(x, k - 1) = item
        BY <1>1, <1>2, <2>1
      <3> QED
        BY <1>2, <2>1, <3>1
    <2>2. CASE k \in 1..n
      <3>1. Source(x, k - 1) = Source(item, k - 1) /\ x.links[k] = item.links[k]
        BY <1>1, <1>2, <2>2
      <3> QED
        BY <1>1, <2>2, <3>1 DEF Lineage
    <2> QED
      BY <1>1, <1>2, <2>1, <2>2
  <1> QED
    BY <1>3, <1>4 DEF Lineage

LEMMA SearchInv ==
  ASSUME EvidenceInv, NEW scope \in Scopes, Search(scope) PROVE EvidenceInv'
  <1>1. PICK rows \in SUBSET Rows :
          LET good == {r \in rows : AcceptedRow(r, scope)}
              results == {Retrieved(r.item, scope) : r \in good}
          IN  /\ \E written \in SUBSET results :
                   /\ Distinct(rows) /\ good = rows => written = results
                   /\ files' = files \cup written /\ rotten' = rotten \ written
              /\ given' = IF /\ Distinct(rows) /\ good = rows
                             /\ \A item \in results : Len(item.links) <= MaxLinks
                          THEN [via |-> "search", scope |-> scope, items |-> results]
                          ELSE NothingGiven
    BY DEF Search
  <1> DEFINE good == {r \in rows : AcceptedRow(r, scope)}
             results == {Retrieved(r.item, scope) : r \in good}
  <1>2. PICK written \in SUBSET results :
          /\ Distinct(rows) /\ good = rows => written = results
          /\ files' = files \cup written /\ rotten' = rotten \ written
    BY <1>1
  <1>3. cached' = cached
    BY DEF Search
  <1>4. ASSUME NEW x \in results
        PROVE  \E item \in files : /\ x = Retrieved(item, scope) /\ Lineage(item) /\ Homely(item)
                                   /\ Namespace(item) = scope.ns
    <2>1. PICK r \in rows : AcceptedRow(r, scope) /\ x = Retrieved(r.item, scope)
      BY <1>4
    <2>2. r.item \in files
      BY <2>1 DEF Rows
    <2> QED
      BY <2>1, <2>2 DEF AcceptedRow, EvidenceInv, FilesInv
  <1>5. ASSUME NEW x \in results PROVE Homely(x) /\ x.links # <<>> /\ Last(x.links) = scope
    <2>1. PICK item \in files : x = Retrieved(item, scope) /\ Homely(item) /\ Namespace(item) = scope.ns
      BY <1>4, <1>5
    <2>2. item \in Items /\ item.origin.ns = scope.ns /\ \A k \in DOMAIN item.links : item.links[k].ns = scope.ns
      BY <2>1, HomelyNamespace DEF Homely
    <2>3. /\ x \in Items /\ x.origin = item.origin /\ Len(x.links) = Len(item.links) + 1
          /\ x.links # <<>> /\ Last(x.links) = scope
          /\ \A k \in 1..Len(item.links) : x.links[k] = item.links[k]
      BY <2>1, <2>2, RetrievedLinks
    <2>4. Len(item.links) \in Nat /\ DOMAIN item.links = 1..Len(item.links) /\ DOMAIN x.links = 1..Len(x.links)
      BY <2>2, <2>3, Links
    <2>5. ASSUME NEW k \in DOMAIN x.links PROVE x.links[k].ns = x.origin.ns
      <3>1. k \in 1..Len(item.links) \/ k = Len(x.links)
        BY <2>3, <2>4
      <3> QED
        BY <2>2, <2>3, <2>4, <3>1 DEF Last
    <2> QED
      BY <2>3, <2>5 DEF Homely
  <1> HIDE DEF results, good
  <1>6. FilesInv'
    BY <1>2, <1>5 DEF EvidenceInv, FilesInv, Homely
  <1>7. CachedInv'
    BY <1>2, <1>3 DEF EvidenceInv, CachedInv
  <1>8. CASE /\ Distinct(rows) /\ good = rows /\ \A item \in results : Len(item.links) <= MaxLinks
    <2>1. given' = [via |-> "search", scope |-> scope, items |-> results]
      BY <1>1, <1>8 DEF results, good
    <2>2. files' = files \cup results /\ rotten' = rotten \ results
      BY <1>2, <1>8
    <2>3. ASSUME NEW x \in results
          PROVE  /\ IncidentOf(x) = scope.incident /\ x.links # <<>> /\ Last(x.links) = scope /\ Lineage(x)'
                 /\ Owned(x, scope)' /\ \A k \in DOMAIN x.links : x.links[k].ns = x.origin.ns
      <3>1. PICK item \in files : /\ x = Retrieved(item, scope) /\ Lineage(item) /\ Homely(item)
                                  /\ Namespace(item) = scope.ns
        BY <1>4, <2>3
      <3>2. Homely(x) /\ x.links # <<>> /\ Last(x.links) = scope
        BY <1>5, <2>3
      <3>3. x \in files' /\ x \notin rotten' /\ files \subseteq files' /\ rotten' \subseteq rotten
        BY <2>2, <2>3
      <3>4. Len(x.links) <= MaxLinks
        BY <1>8, <2>3
      <3>5. Lineage(x)'
        BY <3>1, <3>3, <3>4, LineageGrows
      <3>6. IncidentOf(x) = scope.incident
        BY <3>2 DEF IncidentOf
      <3>7. Owned(x, scope)'
        BY <3>2, <3>5, <3>6 DEF Owned
      <3> QED
        BY <3>2, <3>5, <3>6, <3>7 DEF Homely
    <2>4. given'.items = results /\ given'.scope = scope /\ given'.via = "search"
      BY <2>1
    <2>5. EvidenceScoped'
      BY <2>3, <2>4 DEF EvidenceScoped
    <2> QED
      BY <1>6, <1>7, <2>5 DEF EvidenceInv
  <1>9. CASE ~(/\ Distinct(rows) /\ good = rows /\ \A item \in results : Len(item.links) <= MaxLinks)
    <2>1. given'.items = {} /\ given'.via = "none"
      BY <1>1, <1>9 DEF NothingGiven, results, good
    <2> QED
      BY <1>6, <1>7, <2>1 DEF EvidenceInv, EvidenceScoped
  <1> QED
    BY <1>8, <1>9

LEMMA PutInv ==
  ASSUME EvidenceInv, NEW scope \in Scopes, Put(scope) PROVE EvidenceInv'
  <1>1. files' = files /\ rotten' = rotten /\ given' = given
    BY DEF Put
  <1>2. PICK items \in SUBSET files, ttl \in 1..MaxTtl :
          cached' = cached \cup {[scope |-> scope, created |-> clock, expires |-> clock + ttl,
                                  items |-> items]}
    BY DEF Put
  <1>3. FilesInv' /\ CachedInv'
    BY <1>1, <1>2 DEF EvidenceInv, FilesInv, CachedInv, Homely
  <1>4. EvidenceScoped'
    BY <1>1, <1>2 DEF EvidenceInv, EvidenceScoped, IncidentOf, Lineage, Readable, Owned, Namespace, Source
  <1> QED
    BY <1>3, <1>4 DEF EvidenceInv

LEMMA GetInv ==
  ASSUME EvidenceInv, NEW scope \in Scopes, Get(scope) PROVE EvidenceInv'
  <1>1. files' = files /\ rotten' = rotten /\ cached' = cached
    BY DEF Get
  <1>2. FilesInv' /\ CachedInv'
    BY <1>1 DEF EvidenceInv, FilesInv, CachedInv, Homely
  <1>3. PICK entry \in cached :
          given' = IF /\ entry.scope = scope /\ Fresh(entry)
                      /\ \A item \in entry.items : Owned(item, scope)
                   THEN [via |-> "cache", scope |-> scope, items |-> entry.items]
                   ELSE NothingGiven
    BY DEF Get
  <1>4. CASE entry.scope = scope /\ Fresh(entry) /\ \A item \in entry.items : Owned(item, scope)
    <2>1. given'.via = "cache" /\ given'.scope = scope /\ given'.items = entry.items
      BY <1>3, <1>4
    <2>2. ASSUME NEW item \in entry.items
          PROVE  /\ IncidentOf(item) = scope.incident
                 /\ item.links # <<>> => /\ Last(item.links) = scope /\ Lineage(item)'
                                         /\ \A k \in DOMAIN item.links : item.links[k].ns = item.origin.ns
      <3>1. Owned(item, scope) /\ item \in files
        BY <1>4, <2>2 DEF EvidenceInv, CachedInv
      <3>2. Homely(item)
        BY <3>1 DEF EvidenceInv, FilesInv
      <3>3. Lineage(item) => Lineage(item)'
        BY <1>1 DEF Lineage, Readable
      <3> QED
        BY <3>1, <3>2, <3>3 DEF Owned, Homely
    <2>3. EvidenceScoped'
      BY <1>1, <1>4, <2>1, <2>2 DEF EvidenceScoped
    <2> QED
      BY <1>2, <2>3 DEF EvidenceInv
  <1>5. CASE ~(entry.scope = scope /\ Fresh(entry) /\ \A item \in entry.items : Owned(item, scope))
    <2>1. given'.items = {} /\ given'.via = "none"
      BY <1>3, <1>5 DEF NothingGiven
    <2> QED
      BY <1>2, <2>1 DEF EvidenceInv, EvidenceScoped
  <1> QED
    BY <1>4, <1>5

LEMMA EvidenceNextInv ==
  EvidenceInv /\ [EvidenceNext]_evidenceVars => EvidenceInv'
  <1> SUFFICES ASSUME EvidenceInv, [EvidenceNext]_evidenceVars PROVE EvidenceInv'
    OBVIOUS
  <1>1. CASE SetClock \/ UNCHANGED evidenceVars
    <2>1. files' = files /\ rotten' = rotten /\ cached' = cached /\ given' = given
      BY <1>1 DEF SetClock, evidenceVars
    <2> QED
      BY <2>1 DEF EvidenceInv, FilesInv, CachedInv, Homely, EvidenceScoped, IncidentOf, Lineage, Readable,
                  Owned, Namespace, Source
  <1>2. CASE Rot
    <2>1. files' = files /\ cached' = cached /\ given' = NothingGiven
      BY <1>2 DEF Rot
    <2> QED
      BY <2>1 DEF EvidenceInv, FilesInv, CachedInv, Homely, EvidenceScoped, NothingGiven
  <1> QED
    BY <1>1, <1>2, SearchInv, PutInv, GetInv DEF EvidenceNext

\* An incident is given only its own evidence, each piece of it retrieved link by link within
\* its namespace and still verifying, whatever the index and Redis answer, however often an
\* artifact was bound to another incident before, and for any bound on the links
\* (ElasticsearchRetrieval.search, RedisDerivedCache.get, verify_retrieval_evidence).
THEOREM EvidenceStaysScoped == EvidenceSpec => []EvidenceScoped
  <1>1. EvidenceInit => EvidenceInv
    <2> SUFFICES ASSUME EvidenceInit PROVE EvidenceInv
      OBVIOUS
    <2>1. ASSUME NEW o \in Originals PROVE Homely(Original(o))
      <3>1. Original(o).links = <<>> /\ Original(o).origin = o
        BY DEF Original
      <3>2. <<>> \in Seq(Scopes) /\ DOMAIN <<>> = {}
        BY EmptySeq
      <3>3. Original(o) \in Items
        BY <3>2 DEF Original, Items
      <3> QED
        BY <3>1, <3>2, <3>3 DEF Homely
    <2>2. FilesInv
      BY <2>1 DEF EvidenceInit, FilesInv
    <2>3. CachedInv /\ EvidenceScoped
      BY DEF EvidenceInit, CachedInv, EvidenceScoped, NothingGiven
    <2> QED
      BY <2>2, <2>3 DEF EvidenceInv
  <1>2. EvidenceInv => EvidenceScoped
    BY DEF EvidenceInv
  <1> QED
    BY <1>1, <1>2, EvidenceNextInv, PTL DEF EvidenceSpec


-----------------------------------------------------------------------------
(* Induction over the naturals, from the least element of a set, and the   *)
(* recursion of FoldLeft that rests on it: the judgement of the memory     *)
(* records and the framing of a console log are folds over their lines.    *)

LEMMA Least ==
  ASSUME NEW T \in SUBSET Nat, T # {}
  PROVE  \E n \in T : \A m \in T : n <= m
  <1> DEFINE R == {ss \in Nat \X Nat : ss[1] < ss[2]}
  <1>1. IsWellFoundedOn(R, Nat)
    BY NatLessThanWellFounded, Zenon DEF OpToRel
  <1>2. PICK x \in T : \A y \in T : ~(<<y, x>> \in R)
    BY <1>1, WFMin, Zenon
  <1>3. ASSUME NEW y \in T PROVE x <= y
    <2>1. ~(<<y, x>> \in R)
      BY <1>2
    <2>2. x \in Nat /\ y \in Nat /\ <<y, x>> \in Nat \X Nat
      OBVIOUS
    <2>3. ~(y < x)
      BY <2>1, <2>2
    <2> QED
      BY <2>2, <2>3
  <1> QED
    BY <1>3

LEMMA Induct ==
  ASSUME NEW T \in SUBSET Nat, 0 \in T, \A n \in T : n + 1 \in T
  PROVE  T = Nat
  <1> SUFFICES ASSUME Nat \ T # {} PROVE FALSE
    OBVIOUS
  <1>1. PICK n \in Nat \ T : \A m \in Nat \ T : n <= m
    BY Least
  <1>2. n - 1 \in Nat /\ n - 1 \notin Nat \ T
    BY <1>1
  <1> QED
    BY <1>1, <1>2

LEMMA Greatest ==
  ASSUME NEW m \in Nat, NEW T \in SUBSET (1..m), T # {}
  PROVE  Max(T) \in T /\ \A t \in T : t <= Max(T)
  <1> DEFINE U == {k \in Nat : \A t \in T : t <= k}
  <1>1. m \in U /\ U \in SUBSET Nat
    OBVIOUS
  <1>2. PICK k \in U : \A u \in U : k <= u
    BY <1>1, Least
  <1>3. k \in T
    <2>1. SUFFICES ASSUME k \notin T PROVE FALSE
      OBVIOUS
    <2>2. PICK t \in T : TRUE
      OBVIOUS
    <2>3. k \in Nat /\ k >= 1 /\ \A x \in T : x <= k - 1
      BY <2>1, <2>2
    <2>4. k - 1 \in U
      BY <2>3
    <2> QED
      BY <1>2, <2>3, <2>4
  <1>4. \E x \in T : \A t \in T : x >= t
    BY <1>2, <1>3
  <1>5. Max(T) \in T /\ \A t \in T : Max(T) >= t
    BY <1>4 DEF Max
  <1> QED
    BY <1>5

LEMMA GreatestIs ==
  ASSUME NEW m \in Nat, NEW T \in SUBSET (1..m), NEW k \in T, \A t \in T : t <= k
  PROVE  Max(T) = k
  <1>1. Max(T) \in T /\ \A t \in T : t <= Max(T)
    BY Greatest
  <1>2. Max(T) \in 1..m /\ k \in 1..m
    BY <1>1
  <1> QED
    BY <1>1, <1>2

\* The two folds: where each begins, what it makes of a record, and what it comes to.
Begin(fold) == IF fold = "judge" THEN Judging ELSE Framing
Take(fold, e, v) == IF fold = "judge" THEN Advance(e, v) ELSE Frame(v, e)
Result(fold, events) == IF fold = "judge" THEN Judged(events) ELSE Framed(events)

\* The recursion of a fold over the records with index in T.
Folded(fold, events, f, T) ==
  IF T = {} THEN Begin(fold) ELSE Take(fold, events[Max(T)], f[T \ {Max(T)}])

FoldsAs(fold, events, f, m) == f = [T \in SUBSET (1..m) |-> Folded(fold, events, f, T)]

LEMMA FoldExists ==
  ASSUME NEW fold, NEW events, NEW n \in Nat PROVE \E f : FoldsAs(fold, events, f, n)
  <1> DEFINE K == {m \in Nat : \E f : FoldsAs(fold, events, f, m)}
  <1>1. 0 \in K
    <2> DEFINE f == [T \in SUBSET (1..0) |-> Begin(fold)]
    <2>1. \A T \in SUBSET (1..0) : T = {}
      OBVIOUS
    <2>2. f = [T \in SUBSET (1..0) |-> Folded(fold, events, f, T)]
      BY <2>1 DEF Folded
    <2>3. \E g : FoldsAs(fold, events, g, 0)
      BY <2>2 DEF FoldsAs
    <2> QED
      BY <2>3
  <1>2. ASSUME NEW m \in K PROVE m + 1 \in K
    <2>1. m \in Nat
      OBVIOUS
    <2>2. PICK f : FoldsAs(fold, events, f, m)
      OBVIOUS
    <2>3. f = [T \in SUBSET (1..m) |-> Folded(fold, events, f, T)]
      BY <2>2 DEF FoldsAs
    <2> DEFINE g == [T \in SUBSET (1..(m + 1)) |->
                       IF m + 1 \in T THEN Take(fold, events[m + 1], f[T \ {m + 1}]) ELSE f[T]]
    <2>4. ASSUME NEW T \in SUBSET (1..(m + 1)) PROVE g[T] = Folded(fold, events, g, T)
      <3>1. CASE m + 1 \in T
        <4>1. m + 1 \in Nat /\ \A t \in T : t <= m + 1
          BY <2>1
        <4>2. Max(T) = m + 1
          BY <3>1, <4>1, GreatestIs
        <4>3. T \ {m + 1} \in SUBSET (1..m) /\ T \ {m + 1} \in SUBSET (1..(m + 1)) /\ m + 1 \notin T \ {m + 1}
          BY <2>1
        <4>4. g[T \ {m + 1}] = f[T \ {m + 1}]
          BY <4>3
        <4>5. g[T] = Take(fold, events[m + 1], f[T \ {m + 1}])
          BY <3>1
        <4> HIDE DEF g
        <4> QED
          BY <3>1, <4>2, <4>4, <4>5 DEF Folded
      <3>2. CASE m + 1 \notin T
        <4>1. T \in SUBSET (1..m)
          BY <2>1, <3>2
        <4>2. g[T] = f[T] /\ f[T] = Folded(fold, events, f, T)
          BY <2>3, <3>2, <4>1, Zenon
        <4>3. CASE T = {}
          BY <4>2, <4>3, Zenon DEF Folded
        <4>4. CASE T # {}
          <5>1. Max(T) \in T
            BY <2>1, <4>1, <4>4, Greatest
          <5>2. T \ {Max(T)} \in SUBSET (1..(m + 1)) /\ m + 1 \notin T \ {Max(T)}
            BY <3>2
          <5>3. g[T \ {Max(T)}] = f[T \ {Max(T)}]
            BY <5>2
          <5> HIDE DEF g
          <5> QED
            BY <4>2, <4>4, <5>3, Zenon DEF Folded
        <4> QED
          BY <4>3, <4>4
      <3> QED
        BY <3>1, <3>2
    <2>5. g = [T \in SUBSET (1..(m + 1)) |-> g[T]]
      BY Zenon
    <2> HIDE DEF g
    <2>6. g = [T \in SUBSET (1..(m + 1)) |-> Folded(fold, events, g, T)]
      BY <2>4, <2>5, Zenon
    <2>7. FoldsAs(fold, events, g, m + 1)
      BY <2>6, Zenon DEF FoldsAs
    <2> QED
      BY <2>1, <2>7
  <1>3. K = Nat
    BY <1>1, <1>2, Induct
  <1> QED
    BY <1>3

LEMMA FoldIs ==
  ASSUME NEW fold, NEW events, NEW n \in Nat, DOMAIN events = 1..n
  PROVE  \E f : FoldsAs(fold, events, f, n) /\ Result(fold, events) = f[1..n]
  <1> DEFINE f == CHOOSE f : FoldsAs(fold, events, f, n)
  <1>1. ASSUME fold = "judge" PROVE Result(fold, events) = f[1..n]
    <2>1. Judged(events) = (CHOOSE h : h = [T \in SUBSET DOMAIN events |->
                              IF T = {} THEN Judging ELSE Advance(events[Max(T)], h[T \ {Max(T)}])])[DOMAIN events]
      BY Zenon DEF Judged, FoldLeft, MapThenFoldSet
    <2>2. ASSUME NEW h
          PROVE  FoldsAs(fold, events, h, n)
                 <=> h = [T \in SUBSET DOMAIN events |->
                            IF T = {} THEN Judging ELSE Advance(events[Max(T)], h[T \ {Max(T)}])]
      BY <1>1, Zenon DEF FoldsAs, Folded, Begin, Take
    <2>3. f = CHOOSE h : h = [T \in SUBSET DOMAIN events |->
                                IF T = {} THEN Judging ELSE Advance(events[Max(T)], h[T \ {Max(T)}])]
      BY <2>2, Zenon
    <2> QED
      BY <1>1, <2>1, <2>3, Zenon DEF Result
  <1>2. ASSUME fold # "judge" PROVE Result(fold, events) = f[1..n]
    <2>1. Framed(events) = (CHOOSE h : h = [T \in SUBSET DOMAIN events |->
                              IF T = {} THEN Framing ELSE Frame(h[T \ {Max(T)}], events[Max(T)])])[DOMAIN events]
      BY Zenon DEF Framed, FoldLeft, MapThenFoldSet
    <2>2. ASSUME NEW h
          PROVE  FoldsAs(fold, events, h, n)
                 <=> h = [T \in SUBSET DOMAIN events |->
                            IF T = {} THEN Framing ELSE Frame(h[T \ {Max(T)}], events[Max(T)])]
      BY <1>2, Zenon DEF FoldsAs, Folded, Begin, Take
    <2>3. f = CHOOSE h : h = [T \in SUBSET DOMAIN events |->
                                IF T = {} THEN Framing ELSE Frame(h[T \ {Max(T)}], events[Max(T)])]
      BY <2>2, Zenon
    <2> QED
      BY <1>2, <2>1, <2>3, Zenon DEF Result
  <1>3. FoldsAs(fold, events, f, n)
    BY FoldExists, Zenon
  <1>4. Result(fold, events) = f[1..n]
    <2>1. CASE fold = "judge"
      BY <1>1, <2>1
    <2>2. CASE fold # "judge"
      BY <1>2, <2>2
    <2> QED
      BY <2>1, <2>2
  <1> QED
    BY <1>3, <1>4

\* Along the prefixes of the records the fold takes one record at a time.
Along(fold, events, f, n) ==
  /\ f[1..0] = Begin(fold)
  /\ \A k \in Nat : k + 1 <= n => f[1..(k + 1)] = Take(fold, events[k + 1], f[1..k])

LEMMA FoldAlong ==
  ASSUME NEW fold, NEW events, NEW n \in Nat, NEW f, FoldsAs(fold, events, f, n)
  PROVE  Along(fold, events, f, n)
  <1>1. ASSUME NEW T \in SUBSET (1..n) PROVE f[T] = Folded(fold, events, f, T)
    BY Zenon DEF FoldsAs
  <1>2. 1..0 = {} /\ 1..0 \in SUBSET (1..n)
    OBVIOUS
  <1>3. f[1..0] = Begin(fold)
    BY <1>1, <1>2, Zenon DEF Folded
  <1>4. ASSUME NEW k \in Nat, k + 1 <= n PROVE f[1..(k + 1)] = Take(fold, events[k + 1], f[1..k])
    <2>1. /\ k + 1 \in Nat /\ 1..(k + 1) \in SUBSET (1..n) /\ k + 1 \in 1..(k + 1)
          /\ \A t \in 1..(k + 1) : t <= k + 1
      BY <1>4
    <2>2. Max(1..(k + 1)) = k + 1
      BY <2>1, GreatestIs
    <2>3. (1..(k + 1)) \ {k + 1} = 1..k
      OBVIOUS
    <2>4. 1..(k + 1) # {}
      BY <2>1
    <2> QED
      BY <1>1, <2>1, <2>2, <2>3, <2>4, Zenon DEF Folded
  <1> QED
    BY <1>3, <1>4 DEF Along

LEMMA FoldEmpty ==
  ASSUME NEW fold PROVE Result(fold, <<>>) = Begin(fold)
  <1>1. DOMAIN <<>> = 1..0
    OBVIOUS
  <1>2. PICK f : FoldsAs(fold, <<>>, f, 0) /\ Result(fold, <<>>) = f[1..0]
    BY <1>1, FoldIs
  <1> QED
    BY <1>2, FoldAlong DEF Along

LEMMA FoldAppend ==
  ASSUME NEW fold, NEW S, NEW events \in Seq(S), NEW e \in S
  PROVE  Result(fold, Append(events, e)) = Take(fold, e, Result(fold, events))
  <1> DEFINE n == Len(events)
             next == Append(events, e)
  <1>1. /\ n \in Nat /\ n + 1 \in Nat /\ DOMAIN events = 1..n /\ DOMAIN next = 1..(n + 1)
        /\ next[n + 1] = e /\ \A i \in 1..n : next[i] = events[i]
    BY AppendProperties, LenProperties
  <1> HIDE DEF n, next
  <1>2. PICK f : FoldsAs(fold, events, f, n) /\ Result(fold, events) = f[1..n]
    BY <1>1, FoldIs
  <1>3. PICK g : FoldsAs(fold, next, g, n + 1) /\ Result(fold, next) = g[1..(n + 1)]
    BY <1>1, FoldIs
  <1>4. Along(fold, events, f, n) /\ Along(fold, next, g, n + 1)
    BY <1>1, <1>2, <1>3, FoldAlong
  <1>5. /\ f[1..0] = Begin(fold) /\ g[1..0] = Begin(fold)
        /\ \A k \in Nat : k + 1 <= n => f[1..(k + 1)] = Take(fold, events[k + 1], f[1..k])
        /\ \A k \in Nat : k + 1 <= n + 1 => g[1..(k + 1)] = Take(fold, next[k + 1], g[1..k])
    BY <1>4, Zenon DEF Along
  <1> DEFINE K == {k \in Nat : k <= n => f[1..k] = g[1..k]}
  <1>6. 0 \in K
    BY <1>5
  <1>7. ASSUME NEW k \in K PROVE k + 1 \in K
    <2>1. SUFFICES ASSUME k + 1 <= n PROVE f[1..(k + 1)] = g[1..(k + 1)]
      OBVIOUS
    <2>2. k \in Nat /\ k <= n /\ k + 1 <= n + 1 /\ k + 1 \in 1..n
      BY <1>1, <2>1
    <2>3. f[1..k] = g[1..k] /\ next[k + 1] = events[k + 1]
      BY <1>1, <2>2
    <2>4. f[1..(k + 1)] = Take(fold, events[k + 1], f[1..k])
      BY <1>5, <2>1, <2>2
    <2>5. g[1..(k + 1)] = Take(fold, next[k + 1], g[1..k])
      BY <1>5, <2>2
    <2> QED
      BY <2>3, <2>4, <2>5
  <1>8. K = Nat
    BY <1>6, <1>7, Induct
  <1>9. f[1..n] = g[1..n]
    BY <1>1, <1>8
  <1>10. g[1..(n + 1)] = Take(fold, next[n + 1], g[1..n])
    BY <1>1, <1>5
  <1>11. Result(fold, next) = Take(fold, e, Result(fold, events))
    BY <1>1, <1>2, <1>3, <1>9, <1>10
  <1> QED
    BY <1>11 DEF next


LEMMA JudgedEmpty == Judged(<<>>) = Judging
  <1>1. Result("judge", <<>>) = Begin("judge")
    BY FoldEmpty
  <1> QED
    BY <1>1 DEF Result, Begin

LEMMA JudgedAppend ==
  ASSUME NEW S, NEW events \in Seq(S), NEW e \in S
  PROVE  Judged(Append(events, e)) = Advance(e, Judged(events))
  <1>1. Result("judge", Append(events, e)) = Take("judge", e, Result("judge", events))
    BY FoldAppend
  <1> QED
    BY <1>1, Zenon DEF Result, Take

LEMMA FramedEmpty == Framed(<<>>) = Framing
  <1>1. Result("frame", <<>>) = Begin("frame")
    BY FoldEmpty
  <1> QED
    BY <1>1 DEF Result, Begin

LEMMA FramedAppend ==
  ASSUME NEW S, NEW lines \in Seq(S), NEW line \in S
  PROVE  Framed(Append(lines, line)) = Frame(Framed(lines), line)
  <1>1. Result("frame", Append(lines, line)) = Take("frame", line, Result("frame", lines))
    BY FoldAppend
  <1> QED
    BY <1>1 DEF Result, Take

-----------------------------------------------------------------------------
(* MemoryEvidence: what the judgement of the log says of the service.      *)

Records == [sample : Requests, phase : {"admitted", "allocated", "released"}, active : Nat,
            held : BOOLEAN]

Verdicts == [ok : BOOLEAN, open : SUBSET Requests, allocated : SUBSET Requests,
             completed : SUBSET Requests, peak : Nat, loaded : Nat]

Within(state) == {q \in Requests : work[q] = state}

Larger(a, b) == IF a > b THEN a ELSE b

\* What an accepted log says of the service.  The requests whose release left no line stay
\* open in the reconstruction; every later record then disagrees with the count.
Reconstructs(v) ==
  /\ Within("holding") \subseteq v.allocated /\ v.allocated \subseteq v.open
  /\ v.open \subseteq Within("holding") \cup lost
  /\ v.completed = Within("over") \ lost
  /\ early \subseteq lost
  /\ v.loaded <= most /\ v.peak >= active
  /\ lost = {} => (overlapped <=> v.peak >= 2)
  /\ log # <<>> => v.peak >= 1

MemoryTypes ==
  /\ work \in [Requests -> {"waiting", "holding", "over", "refused"}]
  /\ active \in Nat /\ active = Cardinality(Within("holding"))
  /\ overlapped \in BOOLEAN
  /\ most \in Nat /\ active <= most
  /\ early \in SUBSET Requests /\ lost \in SUBSET Within("over")
  /\ log \in Seq(Records)
  /\ Judged(log) \in Verdicts

MemoryInv ==
  /\ MemoryTypes
  /\ Judged(log).ok => Reconstructs(Judged(log))
  /\ early = {} /\ lost = {} => Judged(log).ok

LEMMA FiniteWithin ==
  ASSUME NEW T \in SUBSET Requests PROVE IsFiniteSet(T) /\ Cardinality(T) \in Nat
  <1>1. IsFiniteSet(T)
    BY MemoryAssumption, FS_Subset
  <1> QED
    BY <1>1, FS_CardinalityType

LEMMA SameCount ==
  ASSUME NEW T \in SUBSET Requests, NEW H \in SUBSET T
  PROVE  Cardinality(T) = Cardinality(H) <=> T = H
  <1>1. IsFiniteSet(T)
    BY FiniteWithin
  <1> QED
    BY <1>1, FS_Subset

LEMMA OneMore ==
  ASSUME NEW H \in SUBSET Requests, NEW q \in Requests, q \notin H
  PROVE  Cardinality(H \cup {q}) = Cardinality(H) + 1 /\ H \cup {q} \in SUBSET Requests
  <1>1. IsFiniteSet(H)
    BY FiniteWithin
  <1> QED
    BY <1>1, FS_AddElement

LEMMA LargerType == \A a, b \in Nat : Larger(a, b) \in Nat
  BY DEF Larger

\* The counts of a verdict u after a record that made l of the lifecycle and reported n.
Tallied(u, l, n) ==
  /\ u \in Verdicts
  /\ u.open = l.open /\ u.allocated = l.allocated /\ u.completed = l.completed
  /\ u.ok <=> l.ok /\ n = Cardinality(l.open)
  /\ u.peak = Larger(Cardinality(l.open), l.peak)
  /\ u.loaded = Larger(Cardinality(l.allocated), l.loaded)

LEMMA AdvanceCounts ==
  ASSUME NEW v, NEW e, NEW l \in Verdicts, Lifecycle(e, v) = l, NEW u, u = Advance(e, v)
  PROVE  Tallied(u, l, e.active)
  <1> DEFINE c == Cardinality(l.open)
             d == Cardinality(l.allocated)
  <1>1. l.open \in SUBSET Requests /\ l.allocated \in SUBSET Requests
    BY DEF Verdicts
  <1>2. c \in Nat /\ d \in Nat
    BY <1>1, FiniteWithin
  <1>3. u = [l EXCEPT !.ok = @ /\ e.active = c, !.peak = IF c > @ THEN c ELSE @,
                      !.loaded = IF d > @ THEN d ELSE @]
    BY Zenon DEF Advance
  <1> HIDE DEF c, d
  <1>4. u = [ok |-> l.ok /\ e.active = c, open |-> l.open, allocated |-> l.allocated,
             completed |-> l.completed, peak |-> Larger(c, l.peak), loaded |-> Larger(d, l.loaded)]
    BY <1>3 DEF Verdicts, Larger
  <1>5. Larger(c, l.peak) \in Nat /\ Larger(d, l.loaded) \in Nat
    BY <1>2, LargerType DEF Verdicts
  <1>6. u \in Verdicts
    BY <1>1, <1>4, <1>5 DEF Verdicts
  <1>7. /\ u.open = l.open /\ u.allocated = l.allocated /\ u.completed = l.completed
        /\ u.peak = Larger(c, l.peak) /\ u.loaded = Larger(d, l.loaded)
        /\ u.ok = (l.ok /\ e.active = c)
    BY <1>4
  <1>8. u.ok <=> l.ok /\ e.active = c
    BY <1>7, Zenon
  <1> QED
    BY <1>6, <1>7, <1>8, Zenon DEF Tallied, c, d

\* The requests in H hold memory; an accepted verdict knows them all.
Knows(v, H) == v.ok => H \subseteq v.allocated /\ v.allocated \subseteq v.open

Admitted(u, v, q, H) ==
  /\ u \in Verdicts
  /\ u.ok <=> v.ok /\ v.open = H
  /\ u.ok => /\ u.open = H \cup {q} /\ u.allocated = H /\ u.completed = v.completed
             /\ u.peak = Larger(Cardinality(H) + 1, v.peak)
             /\ u.loaded = Larger(Cardinality(H), v.loaded)

\* An admission is accepted only over an exact reconstruction.
LEMMA AdvanceAdmitted ==
  ASSUME NEW v \in Verdicts, NEW q \in Requests, NEW H \in SUBSET Requests, q \notin H, Knows(v, H),
         v.ok => q \notin v.open \cup v.completed,
         NEW u, u = Advance(Record(q, "admitted", Cardinality(H) + 1, FALSE), v)
  PROVE  Admitted(u, v, q, H)
  <1>1. PICK e : e = Record(q, "admitted", Cardinality(H) + 1, FALSE)
    OBVIOUS
  <1>2. e.phase = "admitted" /\ e.sample = q /\ e.active = Cardinality(H) + 1
    BY <1>1 DEF Record
  <1>3. PICK l : l = [ok |-> v.ok /\ q \notin v.open \cup v.completed, open |-> v.open \cup {q},
                      allocated |-> v.allocated, completed |-> v.completed, peak |-> v.peak,
                      loaded |-> v.loaded]
    OBVIOUS
  <1>4. Lifecycle(e, v) = l
    BY <1>2, <1>3 DEF Lifecycle, Verdicts
  <1>5. l \in Verdicts
    BY <1>3 DEF Verdicts
  <1>6. Tallied(u, l, e.active)
    BY <1>1, <1>4, <1>5, AdvanceCounts, Zenon
  <1>7. /\ l.open = v.open \cup {q} /\ l.allocated = v.allocated /\ l.completed = v.completed
        /\ l.peak = v.peak /\ l.loaded = v.loaded /\ l.ok = (v.ok /\ q \notin v.open \cup v.completed)
    BY <1>3
  <1>8. l.ok <=> v.ok
    BY <1>7
  <1>9. Cardinality(H \cup {q}) = Cardinality(H) + 1
    BY OneMore
  <1>10. ASSUME v.ok PROVE e.active = Cardinality(l.open) <=> v.open = H
    <2>1. H \cup {q} \in SUBSET (v.open \cup {q}) /\ v.open \cup {q} \in SUBSET Requests
      BY <1>10 DEF Knows, Verdicts
    <2>2. Cardinality(v.open \cup {q}) = Cardinality(H \cup {q}) <=> v.open \cup {q} = H \cup {q}
      BY <2>1, SameCount
    <2>3. q \notin v.open
      BY <1>10
    <2>4. v.open \cup {q} = H \cup {q} <=> v.open = H
      BY <2>3
    <2> QED
      BY <1>2, <1>7, <1>9, <2>2, <2>4
  <1>11. u.ok <=> v.ok /\ v.open = H
    BY <1>6, <1>8, <1>10, Zenon DEF Tallied
  <1>12. ASSUME u.ok PROVE v.allocated = H
    BY <1>11, <1>12 DEF Knows
  <1>13. u \in Verdicts /\ u.open = v.open \cup {q} /\ u.allocated = v.allocated /\ u.completed = v.completed
    BY <1>6, <1>7 DEF Tallied
  <1>14. ASSUME u.ok PROVE /\ u.peak = Larger(Cardinality(H) + 1, v.peak)
                           /\ u.loaded = Larger(Cardinality(H), v.loaded)
    <2>1. l.open = H \cup {q} /\ l.allocated = H
      BY <1>7, <1>11, <1>12, <1>14
    <2> QED
      BY <1>6, <1>7, <1>9, <2>1, Zenon DEF Tallied
  <1> QED
    BY <1>11, <1>12, <1>13, <1>14 DEF Admitted

Allocated(u, v, q, H) ==
  /\ u \in Verdicts
  /\ u.ok <=> v.ok
  /\ u.ok => /\ u.open = H \cup {q} /\ u.allocated = H \cup {q} /\ u.completed = v.completed
             /\ u.peak = Larger(Cardinality(H) + 1, v.peak)
             /\ u.loaded = Larger(Cardinality(H) + 1, v.loaded)

LEMMA AdvanceAllocated ==
  ASSUME NEW v \in Verdicts, NEW q \in Requests, NEW H \in SUBSET Requests, q \notin H,
         v.ok => v.open = H \cup {q} /\ v.allocated = H,
         NEW u, u = Advance(Record(q, "allocated", Cardinality(H) + 1, FALSE), v)
  PROVE  Allocated(u, v, q, H)
  <1>1. PICK e : e = Record(q, "allocated", Cardinality(H) + 1, FALSE)
    OBVIOUS
  <1>2. e.phase = "allocated" /\ e.sample = q /\ e.active = Cardinality(H) + 1
    BY <1>1 DEF Record
  <1>3. PICK l : l = [ok |-> v.ok /\ q \in v.open \ v.allocated, open |-> v.open,
                      allocated |-> v.allocated \cup {q}, completed |-> v.completed, peak |-> v.peak,
                      loaded |-> v.loaded]
    OBVIOUS
  <1>4. Lifecycle(e, v) = l
    BY <1>2, <1>3 DEF Lifecycle, Verdicts
  <1>5. l \in Verdicts
    BY <1>3 DEF Verdicts
  <1>6. Tallied(u, l, e.active)
    BY <1>1, <1>4, <1>5, AdvanceCounts, Zenon
  <1>7. /\ l.open = v.open /\ l.allocated = v.allocated \cup {q} /\ l.completed = v.completed
        /\ l.peak = v.peak /\ l.loaded = v.loaded /\ l.ok = (v.ok /\ q \in v.open \ v.allocated)
    BY <1>3
  <1>8. l.ok <=> v.ok
    BY <1>7
  <1>9. Cardinality(H \cup {q}) = Cardinality(H) + 1
    BY OneMore
  <1>10. ASSUME v.ok PROVE l.open = H \cup {q} /\ l.allocated = H \cup {q}
    BY <1>7, <1>10
  <1>11. u.ok <=> v.ok
    BY <1>2, <1>6, <1>8, <1>9, <1>10, Zenon DEF Tallied
  <1> QED
    BY <1>6, <1>7, <1>9, <1>10, <1>11, Zenon DEF Tallied, Allocated

Released(u, v, q, H, held) ==
  /\ u \in Verdicts
  /\ u.ok <=> v.ok /\ q \in v.allocated /\ held /\ v.open \ {q} = H
  /\ u.ok => /\ u.open = H /\ u.allocated = H /\ u.completed = v.completed \cup {q}
             /\ u.peak = Larger(Cardinality(H), v.peak)
             /\ u.loaded = Larger(Cardinality(H), v.loaded)

\* A release is accepted only after a full hold and over an exact reconstruction.
LEMMA AdvanceReleased ==
  ASSUME NEW v \in Verdicts, NEW q \in Requests, NEW H \in SUBSET Requests, q \notin H, Knows(v, H),
         NEW held \in BOOLEAN, NEW u, u = Advance(Record(q, "released", Cardinality(H), held), v)
  PROVE  Released(u, v, q, H, held)
  <1>1. PICK e : e = Record(q, "released", Cardinality(H), held)
    OBVIOUS
  <1>2. e.phase = "released" /\ e.sample = q /\ e.active = Cardinality(H) /\ e.held = held
    BY <1>1 DEF Record
  <1>3. PICK l : l = [ok |-> v.ok /\ q \in v.allocated /\ held, open |-> v.open \ {q},
                      allocated |-> v.allocated \ {q}, completed |-> v.completed \cup {q},
                      peak |-> v.peak, loaded |-> v.loaded]
    OBVIOUS
  <1>4. Lifecycle(e, v) = l
    BY <1>2, <1>3 DEF Lifecycle, Verdicts
  <1>5. l \in Verdicts
    BY <1>3 DEF Verdicts
  <1>6. Tallied(u, l, e.active)
    BY <1>1, <1>4, <1>5, AdvanceCounts, Zenon
  <1>7. /\ l.open = v.open \ {q} /\ l.allocated = v.allocated \ {q} /\ l.completed = v.completed \cup {q}
        /\ l.peak = v.peak /\ l.loaded = v.loaded /\ l.ok = (v.ok /\ q \in v.allocated /\ held)
    BY <1>3
  <1>8. l.ok <=> v.ok /\ q \in v.allocated /\ held
    BY <1>7, Zenon
  <1>9. ASSUME v.ok PROVE e.active = Cardinality(l.open) <=> v.open \ {q} = H
    <2>1. H \in SUBSET (v.open \ {q}) /\ v.open \ {q} \in SUBSET Requests
      BY <1>9 DEF Knows, Verdicts
    <2> QED
      BY <1>2, <1>7, <2>1, SameCount
  <1>10. u.ok <=> v.ok /\ q \in v.allocated /\ held /\ v.open \ {q} = H
    BY <1>6, <1>8, <1>9, Zenon DEF Tallied
  <1>11. ASSUME u.ok PROVE l.open = H /\ l.allocated = H
    BY <1>7, <1>10, <1>11 DEF Knows
  <1> QED
    BY <1>6, <1>7, <1>10, <1>11, Zenon DEF Tallied, Released

LEMMA Recorded ==
  ASSUME NEW events \in Seq(Records), NEW e \in Records, NEW next, next = Append(events, e)
  PROVE  /\ next \in Seq(Records) /\ next # <<>>
         /\ Judged(next) = Advance(e, Judged(events))
         /\ next = events \o <<e>>
  <1>1. next \in Seq(Records) /\ next # <<>>
    BY AppendProperties
  <1>2. Judged(next) = Advance(e, Judged(events))
    BY JudgedAppend
  <1>3. next = events \o <<e>>
    BY AppendIsConcat
  <1> QED
    BY <1>1, <1>2, <1>3

\* What the log becomes with the first records of an entry.
LEMMA EntryLines ==
  ASSUME NEW events \in Seq(Records), NEW a \in Records, NEW b \in Records
  PROVE  /\ events \o SubSeq(<<a, b>>, 1, 0) = events
         /\ events \o SubSeq(<<a, b>>, 1, 1) = Append(events, a)
         /\ events \o SubSeq(<<a, b>>, 1, 2) = Append(Append(events, a), b)
         /\ events \o <<a, b>> = Append(Append(events, a), b)
  <1>1. SubSeq(<<a, b>>, 1, 0) = <<>>
    BY SubSeqEmpty
  <1>2. SubSeq(<<a, b>>, 1, 1) = <<a>>
    <2>1. PICK s : s = SubSeq(<<a, b>>, 1, 1)
      OBVIOUS
    <2>2. s \in Seq(Records) /\ Len(s) = 1 /\ s[1] = a
      BY <2>1, SubSeqProperties
    <2>3. <<a>> \in Seq(Records) /\ Len(<<a>>) = 1 /\ \A i \in 1..1 : s[i] = <<a>>[i]
      BY <2>2
    <2>4. s = <<a>>
      BY <2>2, <2>3, SeqEqual
    <2> QED
      BY <2>1, <2>4
  <1>3. SubSeq(<<a, b>>, 1, 2) = <<a, b>>
    <2>1. PICK s : s = SubSeq(<<a, b>>, 1, 2)
      OBVIOUS
    <2>2. s \in Seq(Records) /\ Len(s) = 2 /\ s[1] = a /\ s[2] = b
      BY <2>1, SubSeqProperties
    <2>3. <<a, b>> \in Seq(Records) /\ Len(<<a, b>>) = 2 /\ \A i \in 1..2 : s[i] = <<a, b>>[i]
      BY <2>2
    <2>4. s = <<a, b>>
      BY <2>2, <2>3, SeqEqual
    <2> QED
      BY <2>1, <2>4
  <1>4. /\ events \o <<>> = events
        /\ Append(events, a) = events \o <<a>>
    BY ConcatEmptySeq, AppendIsConcat
  <1>5. Append(Append(events, a), b) = events \o <<a, b>>
    OBVIOUS
  <1> QED
    BY <1>1, <1>2, <1>3, <1>4, <1>5, Zenon

LEMMA WorkMoves ==
  ASSUME MemoryTypes, NEW q \in Requests, NEW s \in {"holding", "over", "refused"},
         work' = [work EXCEPT ![q] = s]
  PROVE  /\ work' \in [Requests -> {"waiting", "holding", "over", "refused"}]
         /\ \A t \in {"holding", "over"} :
              Within(t)' = IF t = s THEN Within(t) \cup {q} ELSE Within(t) \ {q}
         /\ Within("holding") \in SUBSET Requests /\ Within("over") \in SUBSET Requests
  BY DEF MemoryTypes, Within

\* A request that has not begun is unknown to the log.
LEMMA Unknown ==
  ASSUME MemoryInv, NEW q \in Requests, work[q] = "waiting"
  PROVE  /\ q \notin Within("holding") /\ q \notin Within("over") /\ q \notin lost
         /\ Knows(Judged(log), Within("holding"))
         /\ Judged(log).ok => q \notin Judged(log).open \cup Judged(log).completed
  <1>1. q \notin Within("holding") /\ q \notin Within("over")
    BY DEF Within
  <1>2. q \notin lost
    BY <1>1 DEF MemoryInv, MemoryTypes
  <1>3. Judged(log).ok => Reconstructs(Judged(log))
    BY DEF MemoryInv
  <1> QED
    BY <1>1, <1>2, <1>3 DEF Reconstructs, Knows

\* A refused request leaves neither a slot nor a record; nor does close.
LEMMA QuietInv ==
  ASSUME MemoryInv, work' \in [Requests -> {"waiting", "holding", "over", "refused"}],
         Within("holding")' = Within("holding"), Within("over")' = Within("over"),
         UNCHANGED <<active, log, overlapped, most, early, lost>>
  PROVE  MemoryInv'
  <1>1. /\ active' = active /\ log' = log /\ overlapped' = overlapped /\ most' = most
        /\ early' = early /\ lost' = lost
    OBVIOUS
  <1>2. Judged(log)' = Judged(log)
    BY <1>1
  <1>3. MemoryTypes'
    BY <1>1, <1>2 DEF MemoryInv, MemoryTypes
  <1>4. Reconstructs(Judged(log)) => Reconstructs(Judged(log))'
    <2>1. PICK v : v = Judged(log)
      OBVIOUS
    <2>2. Reconstructs(v) => Reconstructs(v)'
      BY <1>1 DEF Reconstructs
    <2> QED
      BY <1>1, <1>2, <2>1, <2>2 DEF Reconstructs
  <1> QED
    BY <1>1, <1>2, <1>3, <1>4, Zenon DEF MemoryInv

LEMMA RefuseInv ==
  ASSUME MemoryInv, NEW q \in Requests, RefuseMemory(q)
  PROVE  MemoryInv'
  <1>1. /\ work[q] = "waiting" /\ work' = [work EXCEPT ![q] = "refused"]
        /\ UNCHANGED <<active, log, overlapped, most, early, lost>>
    BY DEF RefuseMemory
  <1>2. /\ work' \in [Requests -> {"waiting", "holding", "over", "refused"}]
        /\ Within("holding")' = Within("holding") \ {q} /\ Within("over")' = Within("over") \ {q}
    BY <1>1, WorkMoves DEF MemoryInv
  <1>3. q \notin Within("holding") /\ q \notin Within("over")
    BY <1>1, Unknown
  <1>4. Within("holding")' = Within("holding") /\ Within("over")' = Within("over")
    BY <1>2, <1>3
  <1> QED
    BY <1>1, <1>2, <1>4, QuietInv, Zenon

\* The records of an entry: what they are and what the judgement makes of them.
Entering(q, one, two, H) ==
  /\ one \in Seq(Records) /\ one # <<>> /\ two \in Seq(Records) /\ two # <<>>
  /\ log \o SubSeq(Entry(q), 1, 0) = log
  /\ log \o SubSeq(Entry(q), 1, 1) = one
  /\ log \o SubSeq(Entry(q), 1, 2) = two
  /\ log \o Entry(q) = two
  /\ Admitted(Judged(one), Judged(log), q, H)
  /\ Allocated(Judged(two), Judged(one), q, H)

LEMMA Enters ==
  ASSUME MemoryInv, NEW q \in Requests, work[q] = "waiting",
         NEW H, H = Within("holding")
  PROVE  \E one, two : Entering(q, one, two, H)
  <1>1. H \in SUBSET Requests /\ q \notin H /\ Knows(Judged(log), H)
    BY Unknown DEF Within
  <1>2. Judged(log).ok => q \notin Judged(log).open \cup Judged(log).completed
    BY Unknown
  <1>3. log \in Seq(Records) /\ Judged(log) \in Verdicts /\ active \in Nat /\ active = Cardinality(H)
    BY DEF MemoryInv, MemoryTypes
  <1>4. PICK a : a = Record(q, "admitted", active + 1, FALSE)
    OBVIOUS
  <1>5. PICK b : b = Record(q, "allocated", active + 1, FALSE)
    OBVIOUS
  <1>6. a \in Records /\ b \in Records /\ Entry(q) = <<a, b>>
    BY <1>3, <1>4, <1>5 DEF Record, Records, Entry
  <1>7. PICK one : one = Append(log, a)
    OBVIOUS
  <1>8. PICK two : two = Append(one, b)
    OBVIOUS
  <1>9. one \in Seq(Records) /\ one # <<>> /\ Judged(one) = Advance(a, Judged(log))
    BY <1>3, <1>6, <1>7, Recorded, Zenon
  <1>10. two \in Seq(Records) /\ two # <<>> /\ Judged(two) = Advance(b, Judged(one))
    BY <1>6, <1>8, <1>9, Recorded, Zenon
  <1>11. Admitted(Judged(one), Judged(log), q, H)
    BY <1>1, <1>2, <1>3, <1>4, <1>9, AdvanceAdmitted, Zenon
  <1>12. /\ Judged(one) \in Verdicts
         /\ Judged(one).ok => Judged(one).open = H \cup {q} /\ Judged(one).allocated = H
    BY <1>11 DEF Admitted
  <1>13. Allocated(Judged(two), Judged(one), q, H)
    BY <1>1, <1>3, <1>5, <1>10, <1>12, AdvanceAllocated, Zenon
  <1>13a. two = Append(Append(log, a), b)
    BY <1>7, <1>8
  <1>14. /\ log \o SubSeq(Entry(q), 1, 0) = log /\ log \o SubSeq(Entry(q), 1, 1) = one
         /\ log \o SubSeq(Entry(q), 1, 2) = two /\ log \o Entry(q) = two
    BY <1>3, <1>6, <1>7, <1>13a, EntryLines
  <1>15. Entering(q, one, two, H)
    BY <1>9, <1>10, <1>11, <1>13, <1>14, Zenon DEF Entering
  <1> QED
    BY <1>15, Zenon

\* An entry that is judged well was judged over an exact reconstruction; and it is, if
\* nothing was lost.
LEMMA ExactEntry ==
  ASSUME MemoryInv, NEW q, NEW one, NEW two, NEW H, H = Within("holding"),
         Entering(q, one, two, H)
  PROVE  /\ Judged(one).ok <=> Judged(log).ok /\ Judged(log).open = H
         /\ Judged(two).ok <=> Judged(log).ok /\ Judged(log).open = H
         /\ early = {} /\ lost = {} => Judged(two).ok
         /\ Judged(one).ok => Reconstructs(Judged(log))
  <1>1. /\ Judged(one).ok <=> Judged(log).ok /\ Judged(log).open = H
        /\ Judged(two).ok <=> Judged(one).ok
    BY DEF Entering, Admitted, Allocated
  <1>2. Judged(log).ok => Reconstructs(Judged(log))
    BY DEF MemoryInv
  <1>3. ASSUME early = {}, lost = {} PROVE Judged(log).ok /\ Judged(log).open = H
    <2>1. Judged(log).ok
      BY <1>3 DEF MemoryInv
    <2> QED
      BY <1>2, <1>3, <2>1 DEF Reconstructs
  <1> QED
    BY <1>1, <1>2, <1>3, Zenon

\* What the first record o and both records t of an accepted entry say of the service.
GoodEntry(o, t, q) ==
  /\ o \in Verdicts /\ t \in Verdicts
  /\ o.open = Within("holding") \cup {q} /\ o.allocated = Within("holding")
  /\ t.open = Within("holding") \cup {q} /\ t.allocated = Within("holding") \cup {q}
  /\ o.completed = Within("over") \ lost /\ t.completed = Within("over") \ lost
  /\ o.peak = t.peak /\ t.peak >= active + 1
  /\ o.loaded <= most /\ t.loaded <= Larger(active + 1, most)
  /\ early \subseteq lost
  /\ lost = {} => ((overlapped \/ active > 0) <=> t.peak >= 2)

LEMMA EntryIsGood ==
  ASSUME MemoryInv, NEW q \in Requests, NEW one, NEW two, NEW H, H = Within("holding"),
         Entering(q, one, two, H), Judged(one).ok
  PROVE  GoodEntry(Judged(one), Judged(two), q)
  <1>1. PICK v : v = Judged(log)
    OBVIOUS
  <1>2. PICK o : o = Judged(one)
    OBVIOUS
  <1>3. PICK t : t = Judged(two)
    OBVIOUS
  <1>4. v \in Verdicts /\ active \in Nat /\ most \in Nat /\ active <= most /\ active = Cardinality(H)
        /\ overlapped \in BOOLEAN
    BY <1>1 DEF MemoryInv, MemoryTypes
  <1>5. v.ok /\ v.open = H /\ Reconstructs(v) /\ t.ok
    BY <1>1, <1>3, ExactEntry, Zenon
  <1>6. Admitted(o, v, q, H) /\ Allocated(t, o, q, H)
    BY <1>1, <1>2, <1>3, Zenon DEF Entering
  <1>7. /\ o \in Verdicts /\ o.open = H \cup {q} /\ o.allocated = H /\ o.completed = v.completed
        /\ o.peak = Larger(active + 1, v.peak) /\ o.loaded = Larger(active, v.loaded)
    BY <1>2, <1>4, <1>6 DEF Admitted
  <1>8. /\ t \in Verdicts /\ t.open = H \cup {q} /\ t.allocated = H \cup {q} /\ t.completed = o.completed
        /\ t.peak = Larger(active + 1, o.peak) /\ t.loaded = Larger(active + 1, o.loaded)
    BY <1>4, <1>5, <1>6 DEF Allocated
  <1>9. v.peak \in Nat /\ v.loaded \in Nat
    BY <1>4 DEF Verdicts
  <1>10. /\ v.completed = Within("over") \ lost /\ early \subseteq lost
         /\ v.loaded <= most /\ v.peak >= active
         /\ lost = {} => (overlapped <=> v.peak >= 2)
    BY <1>5 DEF Reconstructs
  <1>11. /\ t.peak = Larger(active + 1, v.peak) /\ t.peak >= active + 1
         /\ (overlapped <=> v.peak >= 2) => ((overlapped \/ active > 0) <=> t.peak >= 2)
    BY <1>4, <1>7, <1>8, <1>9, <1>10 DEF Larger
  <1>12. o.loaded <= most /\ t.loaded <= Larger(active + 1, most)
    BY <1>4, <1>7, <1>8, <1>9, <1>10 DEF Larger
  <1>13. GoodEntry(o, t, q)
    BY <1>7, <1>8, <1>10, <1>11, <1>12 DEF GoodEntry
  <1> QED
    BY <1>2, <1>3, <1>13

\* What is left to show of a step that makes x of the judgement.
LEMMA Conclude ==
  ASSUME NEW x \in Verdicts, Judged(log)' = x,
         work' \in [Requests -> {"waiting", "holding", "over", "refused"}],
         active' \in Nat, active' = Cardinality(Within("holding")'), overlapped' \in BOOLEAN,
         most' \in Nat, active' <= most', early' \in SUBSET Requests, lost' \in SUBSET Within("over")',
         log' \in Seq(Records),
         x.ok => Reconstructs(x)',
         early' = {} /\ lost' = {} => x.ok
  PROVE  MemoryInv'
  <1>1. MemoryTypes'
    BY DEF MemoryTypes
  <1>2. Reconstructs(x)' => Reconstructs(Judged(log))'
    BY DEF Reconstructs
  <1> QED
    BY <1>1, <1>2, Zenon DEF MemoryInv

\* An admission that reaches its hold.
LEMMA AdmitInv ==
  ASSUME MemoryInv, NEW q \in Requests, AdmitMemory(q)
  PROVE  MemoryInv'
  <1>1. /\ work[q] = "waiting" /\ work' = [work EXCEPT ![q] = "holding"] /\ active' = active + 1
        /\ log' = log \o Entry(q) /\ overlapped' = (overlapped \/ active > 0)
        /\ most' = Larger(active + 1, most) /\ early' = early /\ lost' = lost
    BY DEF AdmitMemory, Admissible, Loads, Larger
  <1>2. PICK H : H = Within("holding")
    OBVIOUS
  <1>3. PICK one, two : Entering(q, one, two, H)
    BY <1>1, <1>2, Enters, Zenon
  <1>4. PICK x : x = Judged(two)
    OBVIOUS
  <1>5. log' = two /\ two \in Seq(Records) /\ two # <<>> /\ x \in Verdicts
    BY <1>1, <1>3, <1>4 DEF Entering, Allocated
  <1>6. Judged(log)' = x
    BY <1>4, <1>5
  <1>7. /\ work' \in [Requests -> {"waiting", "holding", "over", "refused"}]
        /\ Within("holding")' = H \cup {q} /\ Within("over")' = Within("over") \ {q} /\ H \in SUBSET Requests
    BY <1>1, <1>2, WorkMoves DEF MemoryInv
  <1>8. q \notin H /\ q \notin Within("over") /\ q \notin lost
    BY <1>1, <1>2, Unknown
  <1>9. Within("over")' = Within("over")
    BY <1>7, <1>8
  <1>10. /\ active \in Nat /\ most \in Nat /\ active <= most /\ active = Cardinality(H)
         /\ overlapped \in BOOLEAN /\ early \in SUBSET Requests /\ lost \in SUBSET Within("over")
    BY <1>2 DEF MemoryInv, MemoryTypes
  <1>11. active' = Cardinality(H \cup {q})
    BY <1>1, <1>7, <1>8, <1>10, OneMore
  <1>12. active' \in Nat /\ most' \in Nat /\ active' <= most'
    BY <1>1, <1>10 DEF Larger
  <1>13. ASSUME x.ok PROVE Reconstructs(x)'
    <2>1. Judged(one).ok
      BY <1>2, <1>3, <1>4, <1>13, ExactEntry, Zenon
    <2>2. GoodEntry(Judged(one), x, q)
      BY <1>2, <1>3, <1>4, <2>1, EntryIsGood, Zenon
    <2>3. /\ x.open = H \cup {q} /\ x.allocated = H \cup {q} /\ x.completed = Within("over") \ lost
          /\ x.peak >= active + 1 /\ x.loaded <= Larger(active + 1, most) /\ early \subseteq lost
          /\ lost = {} => ((overlapped \/ active > 0) <=> x.peak >= 2)
      BY <1>2, <2>2 DEF GoodEntry
    <2>4. x.peak >= 1
      BY <1>5, <1>10, <2>3 DEF Verdicts
    <2>5. /\ Within("holding")' \subseteq x.allocated /\ x.allocated \subseteq x.open
          /\ x.open \subseteq Within("holding")' \cup lost'
          /\ x.completed = Within("over")' \ lost' /\ early' \subseteq lost'
      BY <1>1, <1>7, <1>9, <2>3
    <2>6. /\ x.loaded <= most' /\ x.peak >= active'
          /\ lost' = {} => (overlapped' <=> x.peak >= 2)
      BY <1>1, <2>3
    <2> QED
      BY <2>4, <2>5, <2>6 DEF Reconstructs
  <1>14. early' = {} /\ lost' = {} => x.ok
    BY <1>1, <1>2, <1>3, <1>4, ExactEntry, Zenon
  <1>15. overlapped' \in BOOLEAN /\ early' \in SUBSET Requests /\ lost' \in SUBSET Within("over")'
    BY <1>1, <1>9, <1>10
  <1>16. active' = Cardinality(Within("holding")') /\ log' \in Seq(Records)
    BY <1>5, <1>7, <1>11, Zenon
  <1> QED
    BY <1>5, <1>6, <1>7, <1>12, <1>13, <1>14, <1>15, <1>16, Conclude, Zenon

\* A hold that ends, in time or early, with or without its record.
LEMMA ReleaseInv ==
  ASSUME MemoryInv, NEW q \in Requests, NEW held \in BOOLEAN, NEW released \in BOOLEAN,
         ReleaseMemory(q, held, released)
  PROVE  MemoryInv'
  <1>1. /\ work[q] = "holding" /\ work' = [work EXCEPT ![q] = "over"] /\ active' = active - 1
        /\ log' = IF released THEN Append(log, Record(q, "released", active - 1, held)) ELSE log
        /\ early' = IF held THEN early ELSE early \cup {q}
        /\ lost' = IF released THEN lost ELSE lost \cup {q}
        /\ overlapped' = overlapped /\ most' = most
    BY DEF ReleaseMemory
  <1>2. PICK H : H = Within("holding") \ {q}
    OBVIOUS
  <1>3. /\ work' \in [Requests -> {"waiting", "holding", "over", "refused"}]
        /\ Within("holding")' = H /\ Within("over")' = Within("over") \cup {q}
        /\ Within("holding") \in SUBSET Requests
    BY <1>1, <1>2, WorkMoves DEF MemoryInv
  <1>4. q \in Within("holding") /\ q \notin Within("over")
    BY <1>1 DEF Within
  <1>5. /\ active \in Nat /\ most \in Nat /\ active <= most /\ active = Cardinality(Within("holding"))
        /\ overlapped \in BOOLEAN /\ early \in SUBSET Requests /\ lost \in SUBSET Within("over")
        /\ log \in Seq(Records) /\ Judged(log) \in Verdicts
    BY DEF MemoryInv, MemoryTypes
  <1>6. /\ H \in SUBSET Requests /\ q \notin H /\ Within("holding") = H \cup {q} /\ q \notin lost
    BY <1>2, <1>3, <1>4, <1>5
  <1>7. active = Cardinality(H) + 1 /\ Cardinality(H) \in Nat
    BY <1>5, <1>6, OneMore, FiniteWithin
  <1>8. active - 1 = Cardinality(H) /\ active - 1 \in Nat /\ active - 1 <= most
    BY <1>5, <1>7
  <1>9. /\ active' \in Nat /\ active' = Cardinality(Within("holding")') /\ overlapped' \in BOOLEAN
        /\ most' \in Nat /\ active' <= most'
    BY <1>1, <1>3, <1>5, <1>8
  <1>10. early' \in SUBSET Requests /\ lost' \in SUBSET Within("over")'
    BY <1>1, <1>3, <1>5
  <1>11. PICK v : v = Judged(log)
    OBVIOUS
  <1>12. v \in Verdicts /\ (v.ok => Reconstructs(v)) /\ (early = {} /\ lost = {} => v.ok)
    BY <1>5, <1>11, Zenon DEF MemoryInv
  <1>13. ASSUME v.ok
         PROVE  /\ H \cup {q} \subseteq v.allocated /\ v.allocated \subseteq v.open
                /\ v.open \subseteq H \cup {q} \cup lost
                /\ v.completed = Within("over") \ lost /\ early \subseteq lost
                /\ v.loaded <= most /\ v.peak >= active
                /\ lost = {} => (overlapped <=> v.peak >= 2)
                /\ log # <<>> => v.peak >= 1
    BY <1>6, <1>12, <1>13 DEF Reconstructs
  <1>14. v.peak \in Nat /\ v.loaded \in Nat
    BY <1>12 DEF Verdicts
  <1>15. CASE ~released
    <2>1. log' = log /\ lost' = lost \cup {q}
      BY <1>1, <1>15
    <2>2. Judged(log)' = v /\ log' \in Seq(Records)
      BY <1>5, <1>11, <2>1
    <2>3. ASSUME v.ok PROVE Reconstructs(v)'
      <3>1. /\ Within("holding")' \subseteq v.allocated /\ v.allocated \subseteq v.open
            /\ v.open \subseteq Within("holding")' \cup lost'
            /\ v.completed = Within("over")' \ lost' /\ early' \subseteq lost'
        BY <1>1, <1>3, <1>4, <1>13, <2>1, <2>3
      <3>2. v.loaded <= most' /\ v.peak >= active'
        BY <1>1, <1>5, <1>13, <1>14, <2>3
      <3>3. ~(lost' = {}) /\ (log' # <<>> => v.peak >= 1)
        BY <1>13, <2>1, <2>3
      <3> QED
        BY <3>1, <3>2, <3>3 DEF Reconstructs
    <2>4. early' = {} /\ lost' = {} => v.ok
      BY <2>1
    <2> QED
      BY <1>3, <1>9, <1>10, <1>12, <2>2, <2>3, <2>4, Conclude, Zenon
  <1>16. CASE released
    <2>1. PICK b : b = Record(q, "released", active - 1, held)
      OBVIOUS
    <2>2. b \in Records /\ log' = Append(log, b) /\ lost' = lost
      BY <1>1, <1>8, <1>16, <2>1 DEF Record, Records
    <2>3. PICK next : next = Append(log, b)
      OBVIOUS
    <2>4. next \in Seq(Records) /\ Judged(next) = Advance(b, v)
      BY <1>5, <1>11, <2>2, <2>3, Recorded, Zenon
    <2>5. PICK x : x = Judged(next)
      OBVIOUS
    <2>6. Knows(v, H)
      BY <1>13 DEF Knows
    <2>7. Released(x, v, q, H, held)
      BY <1>6, <1>8, <1>12, <2>1, <2>4, <2>5, <2>6, AdvanceReleased, Zenon
    <2>8. /\ x \in Verdicts
          /\ x.ok <=> v.ok /\ q \in v.allocated /\ held /\ v.open \ {q} = H
          /\ x.ok => /\ x.open = H /\ x.allocated = H /\ x.completed = v.completed \cup {q}
                     /\ x.peak = Larger(active - 1, v.peak) /\ x.loaded = Larger(active - 1, v.loaded)
      BY <1>8, <2>7 DEF Released
    <2>9. Judged(log)' = x /\ log' \in Seq(Records)
      BY <2>2, <2>3, <2>4, <2>5
    <2>10. ASSUME x.ok PROVE Reconstructs(x)'
      <3>1. v.ok /\ held /\ early' = early
        BY <1>1, <2>8, <2>10
      <3>2. /\ Within("holding")' \subseteq x.allocated /\ x.allocated \subseteq x.open
            /\ x.open \subseteq Within("holding")' \cup lost'
            /\ x.completed = Within("over")' \ lost' /\ early' \subseteq lost'
        BY <1>3, <1>6, <1>13, <2>2, <2>8, <2>10, <3>1
      <3>3. x.peak = v.peak /\ x.loaded <= most /\ v.peak >= 1 /\ x.peak >= active - 1
        BY <1>5, <1>7, <1>8, <1>13, <1>14, <2>8, <2>10, <3>1 DEF Larger
      <3>4. /\ x.loaded <= most' /\ x.peak >= active' /\ x.peak >= 1
            /\ lost' = {} => (overlapped' <=> x.peak >= 2)
        BY <1>1, <1>13, <2>2, <3>1, <3>3
      <3> QED
        BY <3>2, <3>4 DEF Reconstructs
    <2>11. ASSUME early' = {}, lost' = {} PROVE x.ok
      <3>1. held /\ early = {} /\ lost = {}
        BY <1>1, <2>2, <2>11
      <3>2. v.ok
        BY <1>12, <3>1
      <3> QED
        BY <1>6, <1>13, <2>8, <3>1, <3>2
    <2> QED
      BY <1>3, <1>9, <1>10, <2>8, <2>9, <2>10, <2>11, Conclude, Zenon
  <1> QED
    BY <1>15, <1>16

\* An admission that raises: some of its records, a release or none.
LEMMA FailInv ==
  ASSUME MemoryInv, NEW q \in Requests, FailMemory(q)
  PROVE  MemoryInv'
  <1>1. PICK loaded \in BOOLEAN, captured \in BOOLEAN, released \in BOOLEAN, held \in BOOLEAN :
          LET asked == IF loaded THEN 2 ELSE 1
              lines == IF captured THEN asked ELSE asked - 1
          IN  /\ held => lines = 2
              /\ log' = log \o SubSeq(Entry(q), 1, lines)
                           \o (IF released THEN <<Record(q, "released", active, held)>> ELSE <<>>)
              /\ IF loaded THEN Loads ELSE UNCHANGED most
              /\ early' = IF held THEN early ELSE early \cup {q}
              /\ lost' = IF captured /\ released THEN lost ELSE lost \cup {q}
    BY Zenon DEF FailMemory
  <1>2. /\ work[q] = "waiting" /\ work' = [work EXCEPT ![q] = "over"]
        /\ overlapped' = (overlapped \/ active > 0) /\ active' = active
    BY DEF FailMemory, Admissible
  <1>3. PICK lines : lines = IF captured THEN (IF loaded THEN 2 ELSE 1)
                                         ELSE (IF loaded THEN 2 ELSE 1) - 1
    OBVIOUS
  <1>4. /\ lines \in {0, 1, 2} /\ (lines = 0 => ~captured) /\ (lines = 2 => captured /\ loaded)
    BY <1>3
  <1>5. /\ held => lines = 2
        /\ log' = log \o SubSeq(Entry(q), 1, lines)
                     \o (IF released THEN <<Record(q, "released", active, held)>> ELSE <<>>)
        /\ early' = IF held THEN early ELSE early \cup {q}
        /\ lost' = IF captured /\ released THEN lost ELSE lost \cup {q}
    BY <1>1, <1>3, Zenon
  <1>6. most' = IF loaded THEN Larger(active + 1, most) ELSE most
    BY <1>1 DEF Loads, Larger
  <1>7. PICK H : H = Within("holding")
    OBVIOUS
  <1>8. PICK one, two : Entering(q, one, two, H)
    BY <1>2, <1>7, Enters, Zenon
  <1>9. /\ work' \in [Requests -> {"waiting", "holding", "over", "refused"}]
        /\ Within("holding")' = H \ {q} /\ Within("over")' = Within("over") \cup {q} /\ H \in SUBSET Requests
    BY <1>2, <1>7, WorkMoves DEF MemoryInv
  <1>10. q \notin H /\ q \notin Within("over") /\ q \notin lost /\ Knows(Judged(log), H)
    BY <1>2, <1>7, Unknown
  <1>11. Within("holding")' = H
    BY <1>9, <1>10
  <1>12. /\ active \in Nat /\ most \in Nat /\ active <= most /\ active = Cardinality(H)
         /\ overlapped \in BOOLEAN /\ early \in SUBSET Requests /\ lost \in SUBSET Within("over")
         /\ log \in Seq(Records) /\ Judged(log) \in Verdicts
    BY <1>7 DEF MemoryInv, MemoryTypes
  <1>13. most' \in Nat /\ active' <= most' /\ most <= most' /\ (lines = 2 => most' = Larger(active + 1, most))
    BY <1>2, <1>4, <1>6, <1>12 DEF Larger
  <1>14. /\ active' \in Nat /\ active' = Cardinality(Within("holding")') /\ overlapped' \in BOOLEAN
         /\ early' \in SUBSET Requests /\ lost' \in SUBSET Within("over")'
    BY <1>2, <1>5, <1>9, <1>11, <1>12
  <1>15. PICK w : w = log \o SubSeq(Entry(q), 1, lines)
    OBVIOUS
  <1>16. /\ w \in Seq(Records)
         /\ lines = 0 => w = log
         /\ lines = 1 => w = one /\ w # <<>>
         /\ lines = 2 => w = two /\ w # <<>>
    BY <1>4, <1>8, <1>12, <1>15 DEF Entering
  <1>17. PICK v : v = Judged(w)
    OBVIOUS
  <1>18. v \in Verdicts /\ (lines = 1 => v = Judged(one)) /\ (lines = 2 => v = Judged(two))
         /\ (lines = 0 => v = Judged(log))
    <2>1. Judged(one) \in Verdicts /\ Judged(two) \in Verdicts
      BY <1>8 DEF Entering, Admitted, Allocated
    <2> QED
      BY <1>4, <1>12, <1>16, <1>17, <2>1
  \* An accepted entry, whole or in part, over what was known before.
  <1>19. ASSUME v.ok, lines # 0 PROVE Judged(one).ok /\ GoodEntry(Judged(one), Judged(two), q)
    <2>1. Judged(one).ok
      BY <1>4, <1>7, <1>8, <1>18, <1>19, ExactEntry, Zenon
    <2> QED
      BY <1>7, <1>8, <2>1, EntryIsGood, Zenon
  <1>20. ASSUME v.ok, lines # 0
         PROVE  /\ v.open = H \cup {q} /\ v.allocated = IF lines = 2 THEN H \cup {q} ELSE H
                /\ v.completed = Within("over") \ lost /\ early \subseteq lost
                /\ v.peak >= active + 1 /\ v.loaded <= most'
                /\ lost = {} => (overlapped' <=> v.peak >= 2)
    <2>1. GoodEntry(Judged(one), Judged(two), q)
      BY <1>19, <1>20
    <2>2. PICK o : o = Judged(one)
      OBVIOUS
    <2>3. PICK t : t = Judged(two)
      OBVIOUS
    <2>4. v = IF lines = 2 THEN t ELSE o
      BY <1>4, <1>18, <1>20, <2>2, <2>3
    <2>5. GoodEntry(o, t, q)
      BY <2>1, <2>2, <2>3
    <2>6. /\ o.open = H \cup {q} /\ o.allocated = H
          /\ t.open = H \cup {q} /\ t.allocated = H \cup {q}
          /\ o.completed = Within("over") \ lost /\ t.completed = Within("over") \ lost
          /\ o.peak = t.peak /\ t.peak >= active + 1 /\ o.loaded <= most
          /\ t.loaded <= Larger(active + 1, most) /\ early \subseteq lost
          /\ lost = {} => ((overlapped \/ active > 0) <=> t.peak >= 2)
          /\ o.loaded \in Nat /\ t.loaded \in Nat
      BY <1>7, <2>5 DEF GoodEntry, Verdicts
    <2>7. v.loaded <= most'
      BY <1>12, <1>13, <2>4, <2>6
    <2> QED
      BY <1>2, <2>4, <2>6, <2>7
  <1>21. ASSUME v.ok, lines = 0 PROVE Reconstructs(v) /\ v.allocated \subseteq v.open /\ q \notin v.open
    <2>1. Reconstructs(v) /\ q \notin v.open
      BY <1>2, <1>18, <1>21, Unknown DEF MemoryInv
    <2> QED
      BY <2>1 DEF Reconstructs
  <1>22. CASE ~released
    <2>1. log' = w /\ lost' = lost \cup {q}
      <3>1. log' = w \o <<>>
        BY <1>5, <1>15, <1>22
      <3>2. w \o <<>> = w
        BY <1>16, ConcatEmptySeq
      <3> QED
        BY <1>5, <1>22, <3>1, <3>2
    <2>2. Judged(log)' = v /\ log' \in Seq(Records)
      BY <1>16, <1>17, <2>1
    <2>3. ASSUME v.ok PROVE Reconstructs(v)'
      <3>1. CASE lines = 0
        <4>1. log' = log /\ Reconstructs(v)
          BY <1>16, <1>21, <2>1, <2>3, <3>1
        <4>2. /\ H \subseteq v.allocated /\ v.allocated \subseteq v.open /\ v.open \subseteq H \cup lost
              /\ v.completed = Within("over") \ lost /\ early \subseteq lost
              /\ v.loaded <= most /\ v.peak >= active /\ (log # <<>> => v.peak >= 1)
          BY <1>7, <4>1 DEF Reconstructs
        <4>3. /\ Within("holding")' \subseteq v.allocated /\ v.allocated \subseteq v.open
              /\ v.open \subseteq Within("holding")' \cup lost'
              /\ v.completed = Within("over")' \ lost' /\ early' \subseteq lost'
          BY <1>5, <1>9, <1>10, <1>11, <2>1, <4>2
        <4>4. v.loaded <= most' /\ v.peak >= active'
          BY <1>2, <1>12, <1>13, <1>18, <4>2 DEF Verdicts
        <4>5. lost' # {} /\ (log' # <<>> => v.peak >= 1)
          BY <2>1, <4>1, <4>2
        <4> QED
          BY <4>3, <4>4, <4>5 DEF Reconstructs
      <3>2. CASE lines # 0
        <4>1. /\ v.open = H \cup {q} /\ v.allocated = IF lines = 2 THEN H \cup {q} ELSE H
              /\ v.completed = Within("over") \ lost /\ early \subseteq lost
              /\ v.peak >= active + 1 /\ v.loaded <= most'
          BY <1>20, <2>3, <3>2
        <4>2. /\ Within("holding")' \subseteq v.allocated /\ v.allocated \subseteq v.open
              /\ v.open \subseteq Within("holding")' \cup lost'
              /\ v.completed = Within("over")' \ lost' /\ early' \subseteq lost'
          BY <1>5, <1>9, <1>10, <1>11, <2>1, <4>1
        <4>3. v.peak >= active' /\ v.peak >= 1 /\ lost' # {}
          BY <1>2, <1>12, <1>18, <2>1, <4>1 DEF Verdicts
        <4> QED
          BY <4>1, <4>2, <4>3 DEF Reconstructs
      <3> QED
        BY <3>1, <3>2
    <2>4. early' = {} /\ lost' = {} => v.ok
      BY <2>1
    <2> QED
      BY <1>9, <1>13, <1>14, <1>18, <2>2, <2>3, <2>4, Conclude, Zenon
  <1>23. CASE released
    <2>1. PICK b : b = Record(q, "released", active, held)
      OBVIOUS
    <2>2. b \in Records /\ log' = w \o <<b>>
      BY <1>5, <1>12, <1>15, <1>23, <2>1 DEF Record, Records
    <2>3. PICK next : next = Append(w, b)
      OBVIOUS
    <2>4. next \in Seq(Records) /\ Judged(next) = Advance(b, v) /\ next = w \o <<b>>
      BY <1>16, <1>17, <2>2, <2>3, Recorded, Zenon
    <2>5. PICK x : x = Judged(next)
      OBVIOUS
    <2>6. Knows(v, H)
      <3>1. lines = 0 => Knows(v, H)
        BY <1>10, <1>18
      <3>2. lines # 0 => Knows(v, H)
        BY <1>20 DEF Knows
      <3> QED
        BY <3>1, <3>2
    <2>7. Released(x, v, q, H, held)
      <3>1. x = Advance(Record(q, "released", Cardinality(H), held), v)
        BY <1>12, <2>1, <2>4, <2>5, Zenon
      <3>2. v \in Verdicts /\ H \in SUBSET Requests /\ q \notin H
        BY <1>9, <1>10, <1>18
      <3> QED
        BY <2>6, <3>1, <3>2, AdvanceReleased, Zenon
    <2>8. /\ x \in Verdicts
          /\ x.ok <=> v.ok /\ q \in v.allocated /\ held /\ v.open \ {q} = H
          /\ x.ok => /\ x.open = H /\ x.allocated = H /\ x.completed = v.completed \cup {q}
                     /\ x.peak = Larger(active, v.peak) /\ x.loaded = Larger(active, v.loaded)
      BY <1>12, <2>7 DEF Released
    <2>9. Judged(log)' = x /\ log' \in Seq(Records)
      BY <2>2, <2>4, <2>5
    <2>10. ASSUME x.ok PROVE Reconstructs(x)'
      <3>1. v.ok /\ held /\ lines = 2 /\ early' = early /\ lost' = lost
        BY <1>4, <1>5, <1>23, <2>8, <2>10
      <3>2. /\ v.completed = Within("over") \ lost /\ early \subseteq lost
            /\ v.peak >= active + 1 /\ v.loaded <= most'
            /\ lost = {} => (overlapped' <=> v.peak >= 2)
        BY <1>20, <3>1
      <3>3. /\ Within("holding")' \subseteq x.allocated /\ x.allocated \subseteq x.open
            /\ x.open \subseteq Within("holding")' \cup lost'
            /\ x.completed = Within("over")' \ lost' /\ early' \subseteq lost'
        BY <1>9, <1>10, <1>11, <2>8, <2>10, <3>1, <3>2
      <3>4. v.peak \in Nat /\ v.loaded \in Nat /\ active <= most'
        BY <1>2, <1>13, <1>18 DEF Verdicts
      <3>5. x.peak = v.peak /\ x.loaded <= most' /\ x.peak >= active /\ x.peak >= 1
        BY <1>12, <1>13, <2>8, <2>10, <3>2, <3>4 DEF Larger
      <3>6. /\ x.loaded <= most' /\ x.peak >= active' /\ x.peak >= 1
            /\ lost' = {} => (overlapped' <=> x.peak >= 2)
        BY <1>2, <3>1, <3>2, <3>5
      <3> QED
        BY <3>3, <3>6 DEF Reconstructs
    <2>11. ASSUME early' = {}, lost' = {} PROVE x.ok
      <3>1. held /\ lines = 2 /\ early = {} /\ lost = {}
        BY <1>4, <1>5, <1>23, <2>11
      <3>2. v.ok
        BY <1>7, <1>8, <1>18, <3>1, ExactEntry, Zenon
      <3>3. v.open = H \cup {q} /\ v.allocated = H \cup {q}
        BY <1>20, <3>1, <3>2
      <3> QED
        BY <1>10, <2>8, <3>1, <3>2, <3>3
    <2> QED
      BY <1>9, <1>13, <1>14, <2>8, <2>9, <2>10, <2>11, Conclude, Zenon
  <1> QED
    BY <1>22, <1>23

LEMMA MemoryInitInv == MemoryInit => MemoryInv
  <1> SUFFICES ASSUME MemoryInit PROVE MemoryInv
    OBVIOUS
  <1>1. /\ work = [q \in Requests |-> "waiting"] /\ active = 0 /\ log = <<>> /\ overlapped = FALSE
        /\ most = 0 /\ early = {} /\ lost = {}
    BY DEF MemoryInit
  <1>2. Within("holding") = {} /\ Within("over") = {}
    BY <1>1 DEF Within
  <1>3. Judged(log) = Judging /\ Judging \in Verdicts /\ Judging.ok
    BY <1>1, JudgedEmpty DEF Judging, Verdicts
  <1>4. Reconstructs(Judging)
    BY <1>1, <1>2 DEF Reconstructs, Judging
  <1>5. Cardinality(Within("holding")) = 0
    BY <1>2, FS_EmptySet
  <1>6. MemoryTypes
    <2>1. work \in [Requests -> {"waiting", "holding", "over", "refused"}] /\ log \in Seq(Records)
      BY <1>1
    <2>2. active \in Nat /\ most \in Nat /\ active <= most /\ active = Cardinality(Within("holding"))
      BY <1>1, <1>5
    <2>3. overlapped \in BOOLEAN /\ early \in SUBSET Requests /\ lost \in SUBSET Within("over")
      BY <1>1
    <2> QED
      BY <1>3, <2>1, <2>2, <2>3 DEF MemoryTypes
  <1> QED
    BY <1>3, <1>4, <1>6 DEF MemoryInv

LEMMA MemoryNextInv == MemoryInv /\ [MemoryNext]_memoryVars => MemoryInv'
  <1>1. ASSUME MemoryInv, CloseMemory PROVE MemoryInv'
    <2>1. UNCHANGED <<work, active, log, overlapped, most, early, lost>>
      BY <1>1 DEF CloseMemory
    <2>2. work' \in [Requests -> {"waiting", "holding", "over", "refused"}]
      BY <1>1, <2>1 DEF MemoryInv, MemoryTypes
    <2>3. Within("holding")' = Within("holding") /\ Within("over")' = Within("over")
      BY <2>1 DEF Within
    <2> QED
      BY <1>1, <2>1, <2>2, <2>3, QuietInv
  <1>2. ASSUME MemoryInv, UNCHANGED memoryVars PROVE MemoryInv'
    <2>1. UNCHANGED <<work, active, log, overlapped, most, early, lost>>
      BY <1>2 DEF memoryVars
    <2>2. work' \in [Requests -> {"waiting", "holding", "over", "refused"}]
      BY <1>2, <2>1 DEF MemoryInv, MemoryTypes
    <2>3. Within("holding")' = Within("holding") /\ Within("over")' = Within("over")
      BY <2>1 DEF Within
    <2> QED
      BY <1>2, <2>1, <2>2, <2>3, QuietInv
  <1>3. ASSUME MemoryInv, MemoryNext PROVE MemoryInv'
    BY <1>1, <1>3, RefuseInv, AdmitInv, FailInv, ReleaseInv, Zenon DEF MemoryNext
  <1> QED
    BY <1>2, <1>3

LEMMA MemoryInvJudges == MemoryInv => MemoryJudgement
  <1> SUFFICES ASSUME MemoryInv PROVE MemoryJudgement
    OBVIOUS
  <1>1. PICK v : v = Judged(log)
    OBVIOUS
  <1>2. (v.ok => Reconstructs(v)) /\ (early = {} /\ lost = {} => v.ok) /\ v \in Verdicts
    BY <1>1, Zenon DEF MemoryInv, MemoryTypes
  <1>3. /\ active = Cardinality(Within("holding")) /\ lost \subseteq Within("over") /\ most \in Nat
        /\ work \in [Requests -> {"waiting", "holding", "over", "refused"}]
    BY DEF MemoryInv, MemoryTypes
  <1>4. SerialAccepted(log) <=> log # <<>> /\ v.ok /\ v.open = {} /\ v.completed = Requests /\ v.peak = 1
    BY <1>1, Zenon DEF SerialAccepted
  <1>5. ASSUME SerialAccepted(log)
        PROVE  (\A q \in Requests : work[q] = "over") /\ ~overlapped /\ early = {} /\ lost = {}
    <2>1. v.completed = Requests /\ v.peak = 1 /\ Reconstructs(v)
      BY <1>2, <1>4, <1>5
    <2>2. Requests = Within("over") \ lost /\ early \subseteq lost
      BY <2>1 DEF Reconstructs
    <2>3. lost = {} /\ early = {} /\ \A q \in Requests : work[q] = "over"
      BY <1>3, <2>2 DEF Within
    <2>4. ~overlapped
      BY <2>1, <2>3 DEF Reconstructs
    <2> QED
      BY <2>3, <2>4
  <1>6. ASSUME \A q \in Requests : work[q] = "over", ~overlapped, early = {}, lost = {}
        PROVE  SerialAccepted(log)
    <2>1. v.ok /\ Reconstructs(v) /\ v.peak \in Nat
      BY <1>2, <1>6 DEF Verdicts
    <2>2. Within("holding") = {} /\ Within("over") = Requests
      BY <1>6 DEF Within
    <2>3. v.open = {} /\ v.completed = Requests /\ ~(v.peak >= 2) /\ (log # <<>> => v.peak >= 1)
      BY <1>6, <2>1, <2>2 DEF Reconstructs
    <2>4. log # <<>>
      <3>1. SUFFICES ASSUME log = <<>> PROVE FALSE
        OBVIOUS
      <3>2. v.completed = {}
        BY <1>1, <3>1, JudgedEmpty DEF Judging
      <3> QED
        BY <2>3, <3>2, MemoryAssumption
    <2>5. v.peak = 1
      BY <2>1, <2>3, <2>4
    <2> QED
      BY <1>4, <2>1, <2>3, <2>4, <2>5
  <1>7. ASSUME ParallelAccepted(log) PROVE most >= MinAllocated
    <2>1. v.ok /\ v.loaded >= MinAllocated
      BY <1>1, <1>7, Zenon DEF ParallelAccepted
    <2>2. v.loaded <= most /\ v.loaded \in Nat
      BY <1>2, <2>1 DEF Reconstructs, Verdicts
    <2> QED
      BY <1>3, <2>1, <2>2, MemoryAssumption
  <1>8. SerialAccepted(log) <=>
          (\A q \in Requests : work[q] = "over") /\ ~overlapped /\ early = {} /\ lost = {}
    BY <1>5, <1>6, Zenon
  <1>9. early = {} /\ lost = {} => Judged(log).ok
    BY <1>1, <1>2
  <1> QED
    BY <1>3, <1>7, <1>8, <1>9, Zenon DEF MemoryJudgement, Within

(* MemoryJudgement: for any finite workload, any MAX_ACTIVE and any number *)
(* of required allocations, whatever records failed to be captured: the    *)
(* validator of the concurrency evidence takes a log for a serial control  *)
(* exactly if the memory service really was serial, no hold ended early    *)
(* and no record was lost; it takes one for a parallel run only if so many *)
(* requests really held memory at once; it refuses none without a cause;   *)
(* and self.active counts the requests that hold.                          *)
THEOREM JudgementIsRight == MemorySpec => []MemoryJudgement
  BY MemoryInitInv, MemoryNextInv, MemoryInvJudges, PTL DEF MemorySpec

-----------------------------------------------------------------------------
(* TraceReads: what one more line does to the objects of a log.            *)

Nodes == [id : Nat \ {0}, parent : Nat]

Opens(lines) == Kinds(lines, {"open"})
Complete(lines) == {i \in Opens(lines) : ClosedAt(lines, i)}
Stray(lines) == {i \in Kinds(lines, {"close", "span", "outside", "bad"}) : ~InObject(lines, i)}

\* Whether the log ends inside an object.
EndsOpen(lines) == InObject(lines, Len(lines) + 1)

LEMMA KindsAppend ==
  ASSUME NEW lines \in Seq(Lines), NEW line \in Lines, NEW kinds
  PROVE  /\ Kinds(lines, kinds) \subseteq 1..Len(lines)
         /\ Kinds(Append(lines, line), kinds)
            = IF line.kind \in kinds THEN Kinds(lines, kinds) \cup {Len(lines) + 1} ELSE Kinds(lines, kinds)
  <1> DEFINE n == Len(lines)
             next == Append(lines, line)
  <1>1. /\ n \in Nat /\ DOMAIN lines = 1..n /\ DOMAIN next = 1..(n + 1)
        /\ next[n + 1] = line /\ \A i \in 1..n : next[i] = lines[i]
    BY AppendProperties, LenProperties
  <1> HIDE DEF n, next
  <1>2. 1..(n + 1) = (1..n) \cup {n + 1}
    BY <1>1
  <1>3. Kinds(lines, kinds) \subseteq 1..n
    BY <1>1 DEF Kinds
  <1>4. Kinds(next, kinds) = IF line.kind \in kinds THEN Kinds(lines, kinds) \cup {n + 1} ELSE Kinds(lines, kinds)
    BY <1>1, <1>2 DEF Kinds
  <1> QED
    BY <1>3, <1>4 DEF n, next

\* The sets the counts are about, before and after the line m.
Grown(lines, line) ==
  LET next == Append(lines, line)
      m == Len(lines) + 1
  IN  /\ Opens(next) = IF line.kind = "open" THEN Opens(lines) \cup {m} ELSE Opens(lines)
      /\ Stray(next) = IF line.kind \in {"close", "span", "outside", "bad"} /\ ~EndsOpen(lines)
                       THEN Stray(lines) \cup {m} ELSE Stray(lines)
      /\ EndsOpen(next) <=> \/ line.kind = "open"
                            \/ line.kind # "close" /\ EndsOpen(lines)
      /\ IF line.kind = "close" /\ EndsOpen(lines)
         THEN \E last \in Opens(lines) \ Complete(lines) : Complete(next) = Complete(lines) \cup {last}
         ELSE Complete(next) = Complete(lines)

LEMMA LineGrows ==
  ASSUME NEW lines \in Seq(Lines), NEW line \in Lines
  PROVE  Grown(lines, line)
  <1> DEFINE next == Append(lines, line)
             n == Len(lines)
             m == n + 1
             O == Kinds(lines, {"open"})
             C == Kinds(lines, {"close"})
             B == Kinds(lines, {"close", "span", "outside", "bad"})
  <1>1. n \in Nat /\ m \in Nat /\ Len(next) = m
    BY AppendProperties, LenProperties
  <1>2. /\ O \subseteq 1..n /\ C \subseteq 1..n /\ B \subseteq 1..n
    BY KindsAppend
  <1>3. /\ Kinds(next, {"open"}) = IF line.kind = "open" THEN O \cup {m} ELSE O
        /\ Kinds(next, {"close"}) = IF line.kind = "close" THEN C \cup {m} ELSE C
        /\ Kinds(next, {"close", "span", "outside", "bad"})
           = IF line.kind \in {"close", "span", "outside", "bad"} THEN B \cup {m} ELSE B
    <2>1. line.kind \in {"open"} <=> line.kind = "open"
      OBVIOUS
    <2>2. line.kind \in {"close"} <=> line.kind = "close"
      OBVIOUS
    <2> QED
      BY <2>1, <2>2, KindsAppend, Zenon
  <1> HIDE DEF next, n, O, C, B
  <1>4. ASSUME NEW i \in 1..m PROVE InObject(next, i) <=> InObject(lines, i)
    <2>1. \A j \in Kinds(next, {"open"}) : j < i => j \in O
      BY <1>1, <1>2, <1>3
    <2>2. \A j \in Kinds(next, {"close"}) : j < i => j \in C
      BY <1>1, <1>2, <1>3
    <2>3. O \subseteq Kinds(next, {"open"}) /\ C \subseteq Kinds(next, {"close"})
      BY <1>3
    <2> QED
      BY <2>1, <2>2, <2>3 DEF InObject, O, C
  <1>5. EndsOpen(lines) <=> InObject(lines, m)
    BY DEF EndsOpen, n
  <1>6. EndsOpen(next) <=> InObject(next, m + 1)
    BY <1>1 DEF EndsOpen
  <1>7. Opens(next) = IF line.kind = "open" THEN Opens(lines) \cup {m} ELSE Opens(lines)
    BY <1>3 DEF Opens, O
  <1>8. Stray(next) = IF line.kind \in {"close", "span", "outside", "bad"} /\ ~EndsOpen(lines)
                      THEN Stray(lines) \cup {m} ELSE Stray(lines)
    <2>1. B \subseteq 1..m /\ m \in 1..m /\ m \notin B
      BY <1>1, <1>2
    <2>2. Stray(lines) = {i \in B : ~InObject(lines, i)}
      BY DEF Stray, B
    <2>3. Stray(next) = {i \in Kinds(next, {"close", "span", "outside", "bad"}) : ~InObject(next, i)}
      BY DEF Stray
    <2>4. CASE line.kind \in {"close", "span", "outside", "bad"}
      <3>1. Stray(next) = {i \in B \cup {m} : ~InObject(next, i)}
        BY <1>3, <2>3, <2>4
      <3>2. Stray(next) = {i \in B : ~InObject(lines, i)} \cup {i \in {m} : ~InObject(lines, m)}
        BY <1>4, <2>1, <3>1
      <3> QED
        BY <1>5, <2>2, <2>4, <3>2
    <2>5. CASE line.kind \notin {"close", "span", "outside", "bad"}
      <3>1. Stray(next) = {i \in B : ~InObject(next, i)}
        BY <1>3, <2>3, <2>5
      <3> QED
        BY <1>4, <2>1, <2>2, <2>5, <3>1
    <2> QED
      BY <2>4, <2>5
  <1>9. EndsOpen(next) <=> \/ line.kind = "open"
                           \/ line.kind # "close" /\ EndsOpen(lines)
    <2>1. CASE line.kind = "open"
      <3>1. m \in Kinds(next, {"open"}) /\ m < m + 1
        BY <1>1, <1>3, <2>1
      <3>2. \A k \in Kinds(next, {"close"}) : ~(m < k /\ k < m + 1)
        <4>1. Kinds(next, {"close"}) = C
          BY <1>3, <2>1
        <4>2. ASSUME NEW k \in C PROVE ~(m < k /\ k < m + 1)
          BY <1>1, <1>2
        <4> QED
          BY <4>1, <4>2
      <3> QED
        BY <1>6, <2>1, <3>1, <3>2 DEF InObject
    <2>2. CASE line.kind = "close"
      <3>1. m \in Kinds(next, {"close"}) /\ \A j \in Kinds(next, {"open"}) : j < m /\ m < m + 1
        <4>1. Kinds(next, {"close"}) = C \cup {m} /\ Kinds(next, {"open"}) = O
          BY <1>3, <2>2
        <4>2. ASSUME NEW j \in O PROVE j < m /\ m < m + 1
          BY <1>1, <1>2
        <4>3. m \in C \cup {m}
          OBVIOUS
        <4> QED
          BY <4>1, <4>2, <4>3
      <3> QED
        BY <1>6, <2>2, <3>1 DEF InObject
    <2>3. CASE line.kind # "open" /\ line.kind # "close"
      <3>1. Kinds(next, {"open"}) = O /\ Kinds(next, {"close"}) = C
        BY <1>3, <2>3
      <3>2. \A i \in O \cup C : i < m + 1 /\ i < m
        BY <1>1, <1>2
      <3>3. InObject(next, m + 1) <=> InObject(lines, m)
        BY <3>1, <3>2 DEF InObject, O, C
      <3> QED
        BY <1>5, <1>6, <2>3, <3>3
    <2> QED
      BY <2>1, <2>2, <2>3
  <1>10. Complete(lines) = {i \in O : ClosedAt(lines, i)} /\ Opens(lines) = O
    BY DEF Complete, Opens, O
  <1>11. ASSUME line.kind # "close" PROVE Complete(next) = Complete(lines)
    <2>1. Kinds(next, {"close"}) = C
      BY <1>3, <1>11
    <2>2. ASSUME NEW i \in 1..m PROVE ClosedAt(next, i) <=> ClosedAt(lines, i)
      <3>1. \A j \in C : \A k \in Kinds(next, {"open"}) : k < j => k \in O
        BY <1>1, <1>2, <1>3
      <3>2. O \subseteq Kinds(next, {"open"})
        BY <1>3
      <3> QED
        BY <2>1, <3>1, <3>2 DEF ClosedAt, O, C
    <2>3. ~ClosedAt(lines, m)
      BY <1>1, <1>2 DEF ClosedAt, C
    <2>4. Kinds(next, {"open"}) = O \cup {m} \/ Kinds(next, {"open"}) = O
      BY <1>3
    <2>5. O \subseteq 1..m /\ m \in 1..m
      BY <1>1, <1>2
    <2>6. Complete(next) = {i \in Kinds(next, {"open"}) : ClosedAt(next, i)}
      BY DEF Complete, Opens
    <2> QED
      BY <1>10, <2>2, <2>3, <2>4, <2>5, <2>6
  <1>12. ASSUME line.kind = "close" PROVE /\ Complete(next) = {i \in O : ClosedAt(next, i)}
                                          /\ \A i \in O : ClosedAt(next, i) <=> \/ ClosedAt(lines, i)
                                                                                \/ \A k \in O : ~(i < k)
    <2>1. Kinds(next, {"close"}) = C \cup {m} /\ Kinds(next, {"open"}) = O
      BY <1>3, <1>12
    <2>2. \A i \in O : i < m
      BY <1>1, <1>2
    <2>3. Complete(next) = {i \in O : ClosedAt(next, i)}
      BY <2>1 DEF Complete, Opens
    <2>4. ASSUME NEW i \in O PROVE ClosedAt(next, i) <=> ClosedAt(lines, i) \/ \A k \in O : ~(i < k)
      BY <2>1, <2>2 DEF ClosedAt, O, C
    <2> QED
      BY <2>3, <2>4
  <1>13. ASSUME line.kind = "close", EndsOpen(lines)
         PROVE  \E last \in Opens(lines) \ Complete(lines) : Complete(next) = Complete(lines) \cup {last}
    <2>1. PICK j \in O : j < m /\ \A k \in C : ~(j < k /\ k < m)
      BY <1>5, <1>13 DEF InObject, O, C
    <2>2. Max(O) \in O /\ \A t \in O : t <= Max(O)
      BY <1>1, <1>2, <2>1, Greatest
    <2>3. PICK last \in O : \A t \in O : t <= last
      BY <2>2
    <2>4. ~ClosedAt(lines, last)
      <3>1. \A k \in C : k < m /\ k \in Nat
        BY <1>1, <1>2
      <3>2. j <= last /\ j \in Nat /\ last \in Nat
        BY <1>2, <2>1, <2>3
      <3>3. \A k \in C : ~(last < k)
        BY <2>1, <3>1, <3>2
      <3> QED
        BY <3>3 DEF ClosedAt, C
    <2>5. \A i \in O : (\A k \in O : ~(i < k)) <=> i = last
      BY <1>2, <2>3
    <2>6. \A i \in O : ClosedAt(next, i) <=> ClosedAt(lines, i) \/ i = last
      BY <1>12, <1>13, <2>5
    <2>7. Complete(next) = Complete(lines) \cup {last}
      BY <1>10, <1>12, <1>13, <2>6
    <2> QED
      BY <1>10, <2>4, <2>7
  <1>14. ASSUME line.kind = "close", ~EndsOpen(lines) PROVE Complete(next) = Complete(lines)
    <2>1. ASSUME NEW i \in O, \A k \in O : ~(i < k) PROVE ClosedAt(lines, i)
      <3>1. i < m
        BY <1>1, <1>2
      <3>2. PICK k \in C : i < k /\ k < m
        BY <1>5, <1>14, <3>1 DEF InObject, O, C
      <3> QED
        BY <2>1, <3>2 DEF ClosedAt, O, C
    <2> QED
      BY <1>10, <1>12, <1>14, <2>1
  <1>15. IF line.kind = "close" /\ EndsOpen(lines)
         THEN \E last \in Opens(lines) \ Complete(lines) : Complete(next) = Complete(lines) \cup {last}
         ELSE Complete(next) = Complete(lines)
    BY <1>11, <1>13, <1>14
  <1> QED
    BY <1>7, <1>8, <1>9, <1>15 DEF Grown, next, n

-----------------------------------------------------------------------------
(* TraceReads: the framing of a log.                                       *)

GoodLines(lines) == /\ lines \in Seq(Lines)
                    /\ \A i \in DOMAIN lines : lines[i].kind = "span" => lines[i].id # 0

Frames == [open : BOOLEAN, body : {"none", "bad", "span", "outside"}, span : Seq(Nodes),
           spans : Seq(Nodes), partial : Nat, malformed : Nat, excluded : Nat]

FrameType(v) == v \in Frames /\ (v.body = "span" => Len(v.span) = 1)

\* What one more line does to the frame, count by count.
Stepped(v, line, u) ==
  /\ FrameType(u)
  /\ u.open <=> line.kind = "open" \/ (line.kind # "close" /\ v.open)
  /\ Len(u.spans) + u.malformed + u.excluded
     = Len(v.spans) + v.malformed + v.excluded + IF line.kind = "close" /\ v.open THEN 1 ELSE 0
  /\ u.partial = v.partial + IF \/ line.kind = "open" /\ v.open
                                \/ line.kind \notin {"open", "other"} /\ ~v.open THEN 1 ELSE 0

LEMMA FrameSteps ==
  ASSUME NEW v, FrameType(v), NEW line \in Lines, line.kind = "span" => line.id # 0
  PROVE  Stepped(v, line, Frame(v, line))
  <1>1. v \in Frames /\ (v.body = "span" => Len(v.span) = 1)
    BY DEF FrameType
  <1>2. /\ v.open \in BOOLEAN /\ v.spans \in Seq(Nodes) /\ v.span \in Seq(Nodes) /\ v.partial \in Nat
        /\ v.malformed \in Nat /\ v.excluded \in Nat /\ v.body \in {"none", "bad", "span", "outside"}
    BY <1>1 DEF Frames
  <1>3. line.kind \in LineKinds /\ line.id \in Nat /\ line.parent \in Nat
    BY DEF Lines
  <1>4. Len(v.spans) \in Nat
    BY <1>2, LenProperties
  <1>5. CASE line.kind = "open"
    <2>1. PICK more \in Nat : more = IF v.open THEN v.partial + 1 ELSE v.partial
      BY <1>2
    <2>2. Frame(v, line) = [v EXCEPT !.open = TRUE, !.body = "none", !.partial = more]
      BY <1>5, <2>1 DEF Frame
    <2>3. PICK u : u = Frame(v, line)
      OBVIOUS
    <2>4. /\ u.open = TRUE /\ u.body = "none" /\ u.span = v.span /\ u.spans = v.spans
          /\ u.partial = more /\ u.malformed = v.malformed /\ u.excluded = v.excluded /\ u \in Frames
      BY <1>1, <1>2, <2>2, <2>3 DEF Frames
    <2>5. u.partial = v.partial + IF v.open THEN 1 ELSE 0
      BY <1>2, <2>1, <2>4
    <2> QED
      BY <1>2, <1>4, <1>5, <2>3, <2>4, <2>5 DEF Stepped, FrameType
  <1>6. CASE line.kind # "open" /\ ~v.open
    <2>1. PICK more \in Nat : more = IF line.kind = "other" THEN v.partial ELSE v.partial + 1
      BY <1>2
    <2>2. Frame(v, line) = [v EXCEPT !.partial = more]
      BY <1>6, <2>1 DEF Frame
    <2>3. PICK u : u = Frame(v, line)
      OBVIOUS
    <2>4. /\ u.open = v.open /\ u.body = v.body /\ u.span = v.span /\ u.spans = v.spans
          /\ u.partial = more /\ u.malformed = v.malformed /\ u.excluded = v.excluded /\ u \in Frames
      BY <1>1, <1>2, <2>2, <2>3 DEF Frames
    <2>5. u.partial = v.partial + IF line.kind \notin {"open", "other"} THEN 1 ELSE 0
      BY <1>2, <1>6, <2>1, <2>4
    <2> QED
      BY <1>1, <1>2, <1>4, <1>6, <2>3, <2>4, <2>5 DEF Stepped, FrameType
  <1>7. CASE line.kind = "close" /\ v.open
    <2> DEFINE closed == [v EXCEPT !.open = FALSE, !.body = "none", !.span = <<>>]
    <2>1. Frame(v, line) = ClosedObject(v)
      BY <1>7 DEF Frame
    <2>2. PICK u : u = Frame(v, line)
      OBVIOUS
    <2>3. <<>> \in Seq(Nodes)
      OBVIOUS
    <2>4. CASE v.body = "span"
      <3>1. u = [closed EXCEPT !.spans = v.spans \o v.span]
        BY <1>1, <2>1, <2>2, <2>4 DEF ClosedObject, Frames
      <3>2. v.spans \o v.span \in Seq(Nodes) /\ Len(v.spans \o v.span) = Len(v.spans) + 1
        <4>1. Len(v.span) = 1 /\ v.spans \in Seq(Nodes) /\ v.span \in Seq(Nodes)
          BY <1>1, <1>2, <2>4
        <4>2. PICK t \in Seq(Nodes) : t = v.spans
          BY <4>1
        <4>3. PICK x \in Seq(Nodes) : x = v.span
          BY <4>1
        <4>4. t \o x \in Seq(Nodes) /\ Len(t \o x) = Len(t) + Len(x)
          BY ConcatProperties
        <4> QED
          BY <4>1, <4>2, <4>3, <4>4
      <3>3. /\ u.open = FALSE /\ u.body = "none" /\ Len(u.spans) = Len(v.spans) + 1 /\ u.partial = v.partial
            /\ u.malformed = v.malformed /\ u.excluded = v.excluded /\ u \in Frames
        BY <1>1, <1>2, <2>3, <3>1, <3>2 DEF Frames
      <3> QED
        BY <1>2, <1>4, <1>7, <2>2, <3>3 DEF Stepped, FrameType
    <2>5. CASE v.body = "outside"
      <3>1. u = [closed EXCEPT !.excluded = v.excluded + 1]
        BY <1>1, <2>1, <2>2, <2>5 DEF ClosedObject, Frames
      <3>2. PICK more \in Nat : more = v.excluded + 1
        BY <1>2
      <3>3. /\ u.open = FALSE /\ u.body = "none" /\ u.spans = v.spans /\ u.partial = v.partial
            /\ u.excluded = more /\ u.malformed = v.malformed /\ u \in Frames
        BY <1>1, <1>2, <2>3, <3>1, <3>2 DEF Frames
      <3>4. Len(u.spans) + u.malformed + u.excluded = Len(v.spans) + v.malformed + v.excluded + 1
        <4>1. Len(u.spans) = Len(v.spans)
          BY <3>3
        <4>2. v.malformed \in Nat /\ v.excluded \in Nat
          BY <1>2
        <4> QED
          BY <1>4, <3>2, <3>3, <4>1, <4>2
      <3> QED
        BY <1>2, <1>7, <2>2, <3>3, <3>4 DEF Stepped, FrameType
    <2>6. CASE v.body # "span" /\ v.body # "outside"
      <3>1. u = [closed EXCEPT !.malformed = v.malformed + 1]
        BY <1>1, <2>1, <2>2, <2>6 DEF ClosedObject, Frames
      <3>2. PICK more \in Nat : more = v.malformed + 1
        BY <1>2
      <3>3. /\ u.open = FALSE /\ u.body = "none" /\ u.spans = v.spans /\ u.partial = v.partial
            /\ u.malformed = more /\ u.excluded = v.excluded /\ u \in Frames
        BY <1>1, <1>2, <2>3, <3>1, <3>2 DEF Frames
      <3>4. Len(u.spans) + u.malformed + u.excluded = Len(v.spans) + v.malformed + v.excluded + 1
        <4>1. Len(u.spans) = Len(v.spans)
          BY <3>3
        <4>2. v.malformed \in Nat /\ v.excluded \in Nat
          BY <1>2
        <4> QED
          BY <1>4, <3>2, <3>3, <4>1, <4>2
      <3> QED
        BY <1>2, <1>7, <2>2, <3>3, <3>4 DEF Stepped, FrameType
    <2> QED
      BY <2>4, <2>5, <2>6
  <1>8. CASE line.kind \notin {"open", "close"} /\ v.open
    <2>1. Frame(v, line) = Held(v, line)
      BY <1>8 DEF Frame
    <2>2. PICK u : u = Frame(v, line)
      OBVIOUS
    <2>3. line.kind \in {"span", "outside", "bad", "other"}
      BY <1>3, <1>8 DEF LineKinds
    <2>4. /\ u \in Frames /\ (u.body = "span" => Len(u.span) = 1)
          /\ u.open = v.open /\ u.spans = v.spans /\ u.partial = v.partial
          /\ u.malformed = v.malformed /\ u.excluded = v.excluded
      <3>1. CASE line.kind = "bad" \/ v.body = "bad" \/ (line.kind = "span" /\ line.id = line.parent)
        <4>1. u = [v EXCEPT !.body = "bad"]
          BY <2>1, <2>2, <3>1 DEF Held
        <4> QED
          BY <1>1, <1>2, <4>1 DEF Frames
      <3>2. CASE ~(line.kind = "bad" \/ v.body = "bad" \/ (line.kind = "span" /\ line.id = line.parent))
        <4> DEFINE node == [id |-> line.id, parent |-> line.parent]
        <4>1. u = [v EXCEPT !.body = IF line.kind = "other" THEN v.body ELSE line.kind,
                            !.span = IF line.kind = "span" THEN <<node>> ELSE v.span]
          BY <2>1, <2>2, <3>2 DEF Held
        <4>2. line.kind = "span" => node \in Nodes
          BY <1>3 DEF Nodes
        <4>3. line.kind = "span" => <<node>> \in Seq(Nodes) /\ Len(<<node>>) = 1
          BY <4>2
        <4> HIDE DEF node
        <4> QED
          BY <1>1, <1>2, <2>3, <3>2, <4>1, <4>3 DEF Frames
      <3> QED
        BY <3>1, <3>2
    <2> QED
      BY <1>2, <1>4, <1>8, <2>2, <2>4 DEF Stepped, FrameType
  <1> QED
    BY <1>2, <1>5, <1>6, <1>7, <1>8

\* The frame agrees with the log, count by count.
Counted(lines, v) ==
  /\ FrameType(v)
  /\ v.open <=> EndsOpen(lines)
  /\ Len(v.spans) + v.malformed + v.excluded = Cardinality(Complete(lines))
  /\ v.partial + (IF v.open THEN 1 ELSE 0)
     = Cardinality(Opens(lines) \ Complete(lines)) + Cardinality(Stray(lines))

LEMMA LineSets ==
  ASSUME NEW lines \in Seq(Lines)
  PROVE  /\ IsFiniteSet(Opens(lines)) /\ IsFiniteSet(Complete(lines)) /\ IsFiniteSet(Stray(lines))
         /\ IsFiniteSet(Opens(lines) \ Complete(lines))
         /\ Len(lines) + 1 \notin Opens(lines) \cup Stray(lines) /\ Complete(lines) \subseteq Opens(lines)
  <1>1. Len(lines) \in Nat /\ DOMAIN lines = 1..Len(lines)
    BY LenProperties
  <1>2. IsFiniteSet(1..Len(lines))
    BY <1>1, FS_Interval
  <1>3. /\ Opens(lines) \subseteq 1..Len(lines) /\ Stray(lines) \subseteq 1..Len(lines)
        /\ Complete(lines) \subseteq Opens(lines)
    BY <1>1 DEF Opens, Stray, Complete, Kinds
  <1>4. Len(lines) + 1 \notin 1..Len(lines)
    BY <1>1
  <1>5. IsFiniteSet(Opens(lines)) /\ IsFiniteSet(Stray(lines))
    BY <1>2, <1>3, FS_Subset
  <1>6. IsFiniteSet(Complete(lines)) /\ IsFiniteSet(Opens(lines) \ Complete(lines))
    BY <1>3, <1>5, FS_Subset
  <1> QED
    BY <1>3, <1>4, <1>5, <1>6

LEMMA CountedAppend ==
  ASSUME NEW lines \in Seq(Lines), NEW line \in Lines, line.kind = "span" => line.id # 0,
         NEW v, Counted(lines, v)
  PROVE  Counted(Append(lines, line), Frame(v, line))
  <1> DEFINE next == Append(lines, line)
             m == Len(lines) + 1
  <1>1. PICK u : u = Frame(v, line)
    OBVIOUS
  <1>2. FrameType(v) /\ (v.open <=> EndsOpen(lines))
    BY DEF Counted
  <1>3. Stepped(v, line, u)
    BY <1>1, <1>2, FrameSteps
  <1>4. Grown(lines, line)
    BY LineGrows
  <1>5. /\ Opens(next) = IF line.kind = "open" THEN Opens(lines) \cup {m} ELSE Opens(lines)
        /\ Stray(next) = IF line.kind \in {"close", "span", "outside", "bad"} /\ ~EndsOpen(lines)
                         THEN Stray(lines) \cup {m} ELSE Stray(lines)
        /\ EndsOpen(next) <=> line.kind = "open" \/ (line.kind # "close" /\ EndsOpen(lines))
        /\ IF line.kind = "close" /\ EndsOpen(lines)
           THEN \E last \in Opens(lines) \ Complete(lines) : Complete(next) = Complete(lines) \cup {last}
           ELSE Complete(next) = Complete(lines)
    BY <1>4, Zenon DEF Grown
  <1> HIDE DEF next
  <1>6. PICK a \in Nat, b \in Nat, c \in Nat :
          a = Cardinality(Complete(lines)) /\ b = Cardinality(Opens(lines) \ Complete(lines))
          /\ c = Cardinality(Stray(lines))
    <2>1. /\ Cardinality(Complete(lines)) \in Nat /\ Cardinality(Opens(lines) \ Complete(lines)) \in Nat
          /\ Cardinality(Stray(lines)) \in Nat
      BY LineSets, FS_CardinalityType
    <2> QED
      BY <2>1
  <1>7. PICK x \in Nat, y \in Nat : x = Len(v.spans) + v.malformed + v.excluded /\ y = v.partial
    <2>1. v.spans \in Seq(Nodes) /\ v.malformed \in Nat /\ v.excluded \in Nat /\ v.partial \in Nat
      BY <1>2 DEF FrameType, Frames
    <2>2. Len(v.spans) \in Nat
      BY <2>1, LenProperties
    <2>3. Len(v.spans) + v.malformed + v.excluded \in Nat
      BY <2>1, <2>2
    <2> QED
      BY <2>1, <2>3
  <1>8. v.open \in BOOLEAN /\ u.open \in BOOLEAN /\ FrameType(u)
    BY <1>2, <1>3 DEF Stepped, FrameType, Frames
  <1>9. x = a /\ y + (IF v.open THEN 1 ELSE 0) = b + c
    BY <1>6, <1>7 DEF Counted
  <1>10. /\ u.open <=> EndsOpen(next)
         /\ Len(u.spans) + u.malformed + u.excluded = x + IF line.kind = "close" /\ v.open THEN 1 ELSE 0
         /\ u.partial = y + IF \/ line.kind = "open" /\ v.open
                               \/ line.kind \notin {"open", "other"} /\ ~v.open THEN 1 ELSE 0
    BY <1>2, <1>3, <1>5, <1>7 DEF Stepped
  <1>11. m \notin Opens(lines) /\ m \notin Stray(lines) /\ m \notin Complete(lines)
    BY LineSets
  <1>12. line.kind \in {"open", "close", "span", "outside", "bad", "other"}
    BY DEF Lines, LineKinds
  <1>13. SUFFICES /\ Cardinality(Complete(next)) = a + IF line.kind = "close" /\ v.open THEN 1 ELSE 0
                  /\ u.partial + (IF u.open THEN 1 ELSE 0)
                     = Cardinality(Opens(next) \ Complete(next)) + Cardinality(Stray(next))
    BY <1>1, <1>8, <1>9, <1>10 DEF Counted, next
  <1>14. CASE line.kind = "open"
    <2>1. /\ Opens(next) \ Complete(next) = (Opens(lines) \ Complete(lines)) \cup {m}
          /\ Complete(next) = Complete(lines) /\ Stray(next) = Stray(lines) /\ EndsOpen(next)
      BY <1>5, <1>11, <1>14
    <2>2. Cardinality(Opens(next) \ Complete(next)) = b + 1
      BY <1>6, <1>11, <2>1, LineSets, FS_AddElement
    <2>3. u.partial = y + (IF v.open THEN 1 ELSE 0) /\ u.open
      BY <1>10, <1>14, <2>1
    <2> QED
      BY <1>6, <1>9, <1>14, <2>1, <2>2, <2>3
  <1>15. CASE line.kind = "close" /\ v.open
    <2>1. PICK last \in Opens(lines) \ Complete(lines) : Complete(next) = Complete(lines) \cup {last}
      BY <1>2, <1>5, <1>15
    <2>2. /\ Opens(next) \ Complete(next) = (Opens(lines) \ Complete(lines)) \ {last}
          /\ Stray(next) = Stray(lines) /\ ~EndsOpen(next)
      BY <1>2, <1>5, <1>15, <2>1
    <2>3. Cardinality(Complete(next)) = a + 1
      BY <1>6, <2>1, LineSets, FS_AddElement
    <2>4. Cardinality(Opens(next) \ Complete(next)) = b - 1
      <3> DEFINE unclosed == Opens(lines) \ Complete(lines)
      <3>1. IsFiniteSet(unclosed) /\ last \in unclosed
        BY <2>1, LineSets
      <3>2. Cardinality(unclosed \ {last}) = Cardinality(unclosed) - 1
        <4> HIDE DEF unclosed
        <4> QED
          BY <3>1, FS_RemoveElement
      <3> QED
        BY <1>6, <2>2, <3>2
    <2>5. u.partial = y /\ ~u.open
      BY <1>10, <1>15, <2>2
    <2>6. y + 1 = b + c
      BY <1>9, <1>15
    <2>7. y + 0 = (b - 1) + c
      BY <2>6
    <2>8. Cardinality(Stray(next)) = c
      BY <1>6, <2>2
    <2> QED
      BY <1>15, <2>3, <2>4, <2>5, <2>7, <2>8
  <1>16. CASE line.kind \in {"close", "span", "outside", "bad"} /\ ~v.open
    <2>1. /\ Opens(next) = Opens(lines) /\ Complete(next) = Complete(lines)
          /\ Stray(next) = Stray(lines) \cup {m} /\ ~EndsOpen(next)
      BY <1>2, <1>5, <1>16
    <2>2. Cardinality(Stray(next)) = c + 1
      BY <1>6, <1>11, <2>1, LineSets, FS_AddElement
    <2>3. u.partial = y + 1 /\ ~u.open
      BY <1>10, <1>16, <2>1
    <2> QED
      BY <1>6, <1>9, <1>16, <2>1, <2>2, <2>3
  <1>17. CASE line.kind \in {"span", "outside", "bad"} /\ v.open
    <2>1. /\ Opens(next) = Opens(lines) /\ Complete(next) = Complete(lines)
          /\ Stray(next) = Stray(lines) /\ EndsOpen(next)
      BY <1>2, <1>5, <1>17
    <2>2. u.partial = y /\ u.open
      BY <1>10, <1>17, <2>1
    <2> QED
      BY <1>6, <1>9, <1>17, <2>1, <2>2
  <1>18. CASE line.kind = "other"
    <2>1. /\ Opens(next) = Opens(lines) /\ Complete(next) = Complete(lines)
          /\ Stray(next) = Stray(lines) /\ (EndsOpen(next) <=> v.open)
      BY <1>2, <1>5, <1>18
    <2>2. u.partial = y /\ (u.open <=> v.open)
      BY <1>10, <1>18, <2>1
    <2> QED
      BY <1>6, <1>9, <1>18, <2>1, <2>2
  <1> QED
    BY <1>8, <1>12, <1>14, <1>15, <1>16, <1>17, <1>18

LEMMA FramedCounts ==
  ASSUME NEW lines, GoodLines(lines)
  PROVE  Counted(lines, Framed(lines))
  <1> DEFINE n == Len(lines)
             Prefix(k) == SubSeq(lines, 1, k)
             K == {k \in Nat : k <= n => Counted(Prefix(k), Framed(Prefix(k)))}
  <1>1. n \in Nat /\ DOMAIN lines = 1..n /\ lines \in Seq(Lines)
    BY LenProperties DEF GoodLines
  <1>2. 0 \in K
    <2>1. Prefix(0) = <<>>
      BY <1>1, SubSeqEmpty
    <2>2. <<>> \in Seq(Lines) /\ Len(<<>>) = 0 /\ DOMAIN <<>> = {}
      OBVIOUS
    <2>3. Opens(<<>>) = {} /\ Complete(<<>>) = {} /\ Stray(<<>>) = {} /\ ~EndsOpen(<<>>)
      BY <2>2 DEF Opens, Complete, Stray, EndsOpen, InObject, Kinds
    <2>4. Cardinality({}) = 0 /\ {} \ {} = {}
      BY FS_EmptySet
    <2>5. FrameType(Framing)
      BY DEF FrameType, Framing, Frames
    <2>6. /\ ~Framing.open /\ Framing.spans = <<>> /\ Framing.malformed = 0 /\ Framing.excluded = 0
          /\ Framing.partial = 0
      BY DEF Framing
    <2>7. Counted(<<>>, Framing)
      <3>1. Len(Framing.spans) = 0 /\ Len(Framing.spans) + Framing.malformed + Framing.excluded = 0
        BY <2>2, <2>6
      <3>2. Cardinality(Opens(<<>>) \ Complete(<<>>)) + Cardinality(Stray(<<>>)) = 0
        <4>1. Opens(<<>>) \ Complete(<<>>) = {} /\ Stray(<<>>) = {}
          BY <2>3
        <4>2. Cardinality(Opens(<<>>) \ Complete(<<>>)) = 0 /\ Cardinality(Stray(<<>>)) = 0
          BY <2>4, <4>1, Zenon
        <4> QED
          BY <4>2
      <3>3. Framing.partial + (IF Framing.open THEN 1 ELSE 0) = 0
        BY <2>6
      <3> QED
        BY <2>3, <2>4, <2>5, <2>6, <3>1, <3>2, <3>3, Zenon DEF Counted
    <2> QED
      BY <2>1, <2>7, FramedEmpty
  <1>3. ASSUME NEW k \in K PROVE k + 1 \in K
    <2>1. SUFFICES ASSUME k + 1 <= n PROVE Counted(Prefix(k + 1), Framed(Prefix(k + 1)))
      OBVIOUS
    <2>2. k \in Nat /\ k <= n /\ k + 1 \in 1..n
      BY <1>1, <2>1
    <2>3. Counted(Prefix(k), Framed(Prefix(k)))
      BY <2>2
    <2>4. lines[k + 1] \in Lines /\ (lines[k + 1].kind = "span" => lines[k + 1].id # 0)
      BY <1>1, <2>2, ElementOfSeq DEF GoodLines
    <2>5. Prefix(k) \in Seq(Lines) /\ Prefix(k + 1) = Append(Prefix(k), lines[k + 1])
      BY <1>1, <2>2
    <2>6. Framed(Append(Prefix(k), lines[k + 1])) = Frame(Framed(Prefix(k)), lines[k + 1])
      BY <2>4, <2>5, FramedAppend
    <2> HIDE DEF Prefix
    <2>7. Counted(Append(Prefix(k), lines[k + 1]), Frame(Framed(Prefix(k)), lines[k + 1]))
      BY <2>3, <2>4, <2>5, CountedAppend
    <2> QED
      BY <2>5, <2>6, <2>7
  <1>4. K = Nat
    BY <1>2, <1>3, Induct
  <1>5. Prefix(n) = lines
    BY <1>1, SubSeqFull
  <1>6. n \in Nat /\ n \in K /\ n <= n
    BY <1>1, <1>4
  <1>7. Counted(Prefix(n), Framed(Prefix(n)))
    BY <1>6
  <1> QED
    BY <1>5, <1>7, Zenon

\* Every object and every stray line of a log is accounted for, whatever the log holds.
LEMMA ParsedAccounts ==
  ASSUME NEW c, GoodLines(c.lines), c.parsed = Parsed(c.lines)
  PROVE  Accounted(c) /\ c.parsed.spans \in Seq(Nodes)
  <1>1. PICK v : v = Framed(c.lines)
    OBVIOUS
  <1>2. Counted(c.lines, v)
    BY <1>1, FramedCounts
  <1>3. v.open \in BOOLEAN /\ v.partial \in Nat /\ v.spans \in Seq(Nodes)
    BY <1>2 DEF Counted, FrameType, Frames
  <1>4. c.parsed = [spans |-> v.spans, malformed |-> v.malformed, excluded |-> v.excluded,
                    partial |-> IF v.open THEN v.partial + 1 ELSE v.partial]
    BY <1>1 DEF Parsed
  <1>5. /\ c.parsed.spans = v.spans /\ c.parsed.malformed = v.malformed /\ c.parsed.excluded = v.excluded
        /\ c.parsed.partial = v.partial + IF v.open THEN 1 ELSE 0
    BY <1>3, <1>4
  <1>6. /\ Len(c.parsed.spans) + c.parsed.malformed + c.parsed.excluded = Cardinality(Complete(c.lines))
        /\ c.parsed.partial = Cardinality(Opens(c.lines) \ Complete(c.lines)) + Cardinality(Stray(c.lines))
    BY <1>2, <1>5 DEF Counted
  <1>7. Accounted(c)
    BY <1>6, Zenon DEF Accounted, Complete, Opens, Stray
  <1> QED
    BY <1>3, <1>5, <1>7

-----------------------------------------------------------------------------
(* TraceReads: the walk of summarize_graph and the forest it leaves.       *)

LEMMA FiniteRange ==
  ASSUME NEW f, IsFiniteSet(DOMAIN f), f = [x \in DOMAIN f |-> f[x]]
  PROVE  IsFiniteSet(Range(f)) /\ Cardinality(Range(f)) <= Cardinality(DOMAIN f)
  <1>1. f \in [DOMAIN f -> Range(f)]
    BY DEF Range
  <1>2. f \in Surjection(DOMAIN f, Range(f))
    BY <1>1 DEF Surjection, Range
  <1> QED
    BY <1>2, FS_Surjection

ParentOf(nodes, id) ==
  IF \E s \in nodes : s.id = id THEN (CHOOSE s \in nodes : s.id = id).parent ELSE 0

Climbs(nodes, span, up, k) ==
  up = [n \in 0..k |-> IF n = 0 THEN span.id ELSE ParentOf(nodes, up[n - 1])]

LEMMA ClimbExists ==
  ASSUME NEW nodes, NEW span, NEW k \in Nat PROVE \E up : Climbs(nodes, span, up, k)
  <1> DEFINE K == {j \in Nat : \E up : Climbs(nodes, span, up, j)}
  <1>1. 0 \in K
    <2> DEFINE up == [n \in 0..0 |-> span.id]
    <2>1. \A n \in 0..0 : n = 0
      OBVIOUS
    <2>2. up = [n \in 0..0 |-> IF n = 0 THEN span.id ELSE ParentOf(nodes, up[n - 1])]
      BY <2>1
    <2>3. \E g : Climbs(nodes, span, g, 0)
      BY <2>2 DEF Climbs
    <2> QED
      BY <2>3
  <1>2. ASSUME NEW j \in K PROVE j + 1 \in K
    <2>1. j \in Nat
      OBVIOUS
    <2>2. PICK f : Climbs(nodes, span, f, j)
      OBVIOUS
    <2> DEFINE g == [n \in 0..(j + 1) |-> IF n = j + 1 THEN ParentOf(nodes, f[j]) ELSE f[n]]
    <2>3. ASSUME NEW n \in 0..(j + 1)
          PROVE  g[n] = IF n = 0 THEN span.id ELSE ParentOf(nodes, g[n - 1])
      <3>1. CASE n = j + 1
        <4>1. n # 0 /\ n - 1 = j /\ j \in 0..(j + 1) /\ j # j + 1
          BY <2>1, <3>1
        <4>2. g[n] = ParentOf(nodes, f[j]) /\ g[j] = f[j]
          BY <3>1, <4>1
        <4> HIDE DEF g
        <4> QED
          BY <4>1, <4>2
      <3>2. CASE n # j + 1
        <4>1. n \in 0..j
          BY <2>1, <3>2
        <4>2. g[n] = f[n] /\ f[n] = IF n = 0 THEN span.id ELSE ParentOf(nodes, f[n - 1])
          BY <2>2, <3>2, <4>1 DEF Climbs
        <4>3. CASE n # 0
          <5>1. n - 1 \in 0..(j + 1) /\ n - 1 # j + 1
            BY <2>1, <4>1, <4>3
          <5>2. g[n - 1] = f[n - 1]
            BY <5>1
          <5> HIDE DEF g
          <5> QED
            BY <4>2, <4>3, <5>2
        <4> QED
          BY <4>2, <4>3
      <3> QED
        BY <3>1, <3>2
    <2>4. g = [n \in 0..(j + 1) |-> g[n]]
      BY Zenon
    <2> HIDE DEF g
    <2>5. g = [n \in 0..(j + 1) |-> IF n = 0 THEN span.id ELSE ParentOf(nodes, g[n - 1])]
      BY <2>3, <2>4, Zenon
    <2>6. Climbs(nodes, span, g, j + 1)
      BY <2>5, Zenon DEF Climbs
    <2> QED
      BY <2>1, <2>6
  <1>3. K = Nat
    BY <1>1, <1>2, Induct
  <1> QED
    BY <1>3

LEMMA AncestorClimbs ==
  ASSUME NEW nodes, NEW span, Cardinality(nodes) \in Nat
  PROVE  Climbs(nodes, span, Ancestor(nodes, span), Cardinality(nodes))
  <1> DEFINE k == Cardinality(nodes)
  <1>1. Ancestor(nodes, span) = CHOOSE up : Climbs(nodes, span, up, k)
    BY Zenon DEF Ancestor, Climbs, ParentOf
  <1>2. \E up : Climbs(nodes, span, up, k)
    BY ClimbExists, Zenon
  <1> QED
    BY <1>1, <1>2, Zenon

\* A walk that never leaves a finite set of spans comes back to one of them.
LEMMA NoCycleIsForest ==
  ASSUME NEW nodes \in SUBSET Nodes, IsFiniteSet(nodes), ~Conflict(nodes), ~Cyclic(nodes)
  PROVE  Forest(nodes)
  <1>1. SUFFICES ASSUME NEW set \in SUBSET nodes, set # {}, \A s \in set : \E t \in set : t.id = s.parent
                 PROVE  FALSE
    BY DEF Forest
  <1>2. PICK span \in set : TRUE
    BY <1>1
  <1> DEFINE k == Cardinality(nodes)
  <1>3. k \in Nat
    BY FS_CardinalityType
  <1>4. PICK up : up = Ancestor(nodes, span)
    OBVIOUS
  <1>5. up = [n \in 0..k |-> IF n = 0 THEN span.id ELSE ParentOf(nodes, up[n - 1])]
    <2>1. Climbs(nodes, span, up, k)
      BY <1>3, <1>4, AncestorClimbs
    <2> QED
      BY <2>1, Zenon DEF Climbs
  <1> HIDE DEF k
  <1>6. DOMAIN up = 0..k /\ up[0] = span.id /\ \A n \in Nat : n + 1 <= k => up[n + 1] = ParentOf(nodes, up[n])
    <2>1. DOMAIN up = 0..k
      BY <1>5
    <2>2. up[0] = span.id
      BY <1>3, <1>5
    <2>3. ASSUME NEW n \in Nat, n + 1 <= k PROVE up[n + 1] = ParentOf(nodes, up[n])
      <3>1. n + 1 \in 0..k /\ n + 1 # 0 /\ (n + 1) - 1 = n
        BY <1>3, <2>3
      <3> QED
        BY <1>5, <3>1
    <2> QED
      BY <2>1, <2>2, <2>3
  <1>7. ASSUME NEW s \in set PROVE ParentOf(nodes, s.id) = s.parent
    <2>1. s \in nodes /\ \A t \in nodes : t.id = s.id => t = s
      BY DEF Conflict
    <2>2. (CHOOSE t \in nodes : t.id = s.id) = s
      BY <2>1
    <2> QED
      BY <2>1, <2>2 DEF ParentOf
  <1> DEFINE K == {n \in Nat : n <= k => \E s \in set : s.id = up[n]}
  <1>8. 0 \in K
    BY <1>2, <1>6
  <1>9. ASSUME NEW n \in K PROVE n + 1 \in K
    <2>1. SUFFICES ASSUME n + 1 <= k PROVE \E s \in set : s.id = up[n + 1]
      OBVIOUS
    <2>2. n \in Nat /\ n <= k
      BY <1>3, <2>1
    <2>3. PICK s \in set : s.id = up[n]
      BY <2>2
    <2>4. up[n + 1] = s.parent
      BY <1>6, <1>7, <2>1, <2>2, <2>3
    <2> QED
      BY <1>1, <2>4
  <1>10. K = Nat
    BY <1>8, <1>9, Induct
  <1>11. ASSUME NEW n \in 0..k PROVE \E s \in nodes : s.id = up[n]
    <2>1. n \in K /\ n <= k
      BY <1>3, <1>10
    <2> QED
      BY <2>1
  <1> DEFINE f == [n \in 0..k |-> CHOOSE s \in nodes : s.id = up[n]]
  <1>12. ASSUME NEW n \in 0..k PROVE f[n] \in nodes /\ f[n].id = up[n]
    BY <1>11
  <1>13. f \in [0..k -> nodes]
    BY <1>12
  <1>14. IsFiniteSet(0..k) /\ Cardinality(nodes) < Cardinality(0..k)
    <2>1. IsFiniteSet(0..k) /\ Cardinality(0..k) = k + 1
      BY <1>3, FS_Interval
    <2> QED
      BY <1>3, <2>1 DEF k
  <1>15. PICK x \in 0..k, y \in 0..k : x # y /\ f[x] = f[y]
    <2> HIDE DEF f
    <2> QED
      BY <1>13, <1>14, FS_PigeonHole
  <1>16. up[x] = up[y] /\ up[x] # 0
    BY <1>12, <1>15 DEF Nodes
  <1>17. (x < y \/ y < x) /\ x \in DOMAIN up /\ y \in DOMAIN up
    BY <1>6, <1>15
  <1>18. \E n, m \in DOMAIN up : n < m /\ up[n] = up[m] /\ up[n] # 0
    BY <1>16, <1>17
  <1> QED
    BY <1>4, <1>18 DEF Cyclic

LEMMA SummaryCounts ==
  ASSUME NEW nodes, IsFiniteSet(nodes), NEW g, g = Summary(nodes)
  PROVE  g.nodes = nodes /\ g.resolved + g.unresolved + g.roots = Cardinality(nodes)
  <1> DEFINE resolved == {s \in nodes : \E t \in nodes : t.id = s.parent}
             roots == {s \in nodes : s.parent = 0}
  <1>1. Cardinality(nodes) \in Nat /\ Cardinality(resolved) \in Nat /\ Cardinality(roots) \in Nat
    <2>1. resolved \subseteq nodes /\ roots \subseteq nodes
      OBVIOUS
    <2> HIDE DEF resolved, roots
    <2> QED
      BY <2>1, FS_Subset, FS_CardinalityType
  <1>2. /\ g.nodes = nodes /\ g.resolved = Cardinality(resolved) /\ g.roots = Cardinality(roots)
        /\ g.unresolved = Cardinality(nodes) - Cardinality(resolved) - Cardinality(roots)
    BY DEF Summary
  <1> HIDE DEF resolved, roots
  <1> QED
    BY <1>1, <1>2

-----------------------------------------------------------------------------
(* TraceReads: the reader among the cluster's changes.                     *)

Pods == [owner : Nat, uid : Nat, restarts : Nat]

TraceType ==
  /\ deployment \in Nat /\ changes \in Nat /\ pods \in [Slots -> Pods] /\ text \in Texts
  /\ trace.at \in {"deployment", "list", "next", "logs", "after", "failed", "published"}
  /\ trace = [at |-> trace.at, deployment |-> trace.deployment, todo |-> trace.todo, pod |-> trace.pod,
              source |-> trace.source, commands |-> trace.commands]
  /\ trace.commands \in Nat /\ IsFiniteSet(trace.todo)

\* A uid is never given twice.
UidInv ==
  /\ \A s \in Slots : pods[s].uid <= Cardinality(Slots) + changes /\ (pods[s].uid = 0 => pods[s] = NoPod)
  /\ \A s, t \in Slots : pods[s].uid = pods[t].uid /\ pods[s].uid # 0 => s = t

\* A pod as it once was: the live pod with its uid, if any, has its owner and has since only
\* restarted.
Known(x) ==
  /\ x \in Pods /\ x.uid # 0 /\ x.uid <= Cardinality(Slots) + changes
  /\ \A s \in Slots : pods[s].uid = x.uid => pods[s].owner = x.owner /\ x.restarts <= pods[s].restarts

ReaderInv ==
  /\ \A x \in trace.todo : Known(x)
  /\ trace.at \in {"logs", "after"} => Known(trace.pod) /\ trace.pod.owner = trace.deployment
  /\ trace.at = "after" => /\ Known(trace.source) /\ trace.source.uid = trace.pod.uid
                           /\ trace.source.owner = trace.pod.owner
                           /\ trace.pod.restarts <= trace.source.restarts

CaptureInv ==
  /\ IsFiniteSet(captures) /\ (trace.at \in {"deployment", "list"} => captures = {})
  /\ \A c \in captures : /\ c.source = c.pod /\ c.pod.owner = trace.deployment
                         /\ GoodLines(c.lines) /\ c.parsed = Parsed(c.lines)

\* The commands left to the pod being read.
Left == CASE trace.at = "logs" -> 2 [] trace.at = "after" -> 1 [] OTHER -> 0

CommandInv ==
  /\ trace.at = "deployment" => trace.commands = 0
  /\ trace.at = "list" => trace.commands = 1
  /\ trace.at \in {"deployment", "list"} => trace.todo = {}
  /\ trace.at \notin {"deployment", "list"} =>
       trace.commands + Left + 3 * Cardinality(trace.todo) <= 2 + 3 * Cardinality(Slots)

GraphInv == Forest(graph.nodes) /\ graph.resolved + graph.unresolved + graph.roots = Cardinality(graph.nodes)

TraceInv == TraceType /\ UidInv /\ ReaderInv /\ CaptureInv /\ CommandInv /\ GraphInv

LEMMA SlotsCount == Cardinality(Slots) \in Nat /\ IsFiniteSet(Slots) /\ Slots = 1..Cardinality(Slots)
  BY TraceAssumption, FS_CardinalityType

LEMMA TraceInvHonest == TraceInv => TraceHonest
  <1> SUFFICES ASSUME TraceInv PROVE TraceHonest
    OBVIOUS
  <1>1. \A c \in captures : c.source = c.pod /\ c.pod.owner = trace.deployment /\ Accounted(c)
    BY ParsedAccounts DEF TraceInv, CaptureInv
  <1>2. trace.commands <= MaxCommands
    <2>1. PICK n \in Nat, k \in Nat, t \in Nat :
            n = Cardinality(Slots) /\ k = trace.commands /\ t = Cardinality(trace.todo)
      BY SlotsCount, FS_CardinalityType DEF TraceInv, TraceType
    <2>2. Left \in Nat
      BY DEF Left
    <2>3. MaxCommands \in Nat /\ 2 + 3 * n <= MaxCommands
      BY <2>1, TraceAssumption
    <2>4. CASE trace.at \in {"deployment", "list"}
      BY <2>1, <2>3, <2>4 DEF TraceInv, CommandInv
    <2>5. CASE trace.at \notin {"deployment", "list"}
      <3>1. k + Left + 3 * t <= 2 + 3 * n
        BY <2>1, <2>5 DEF TraceInv, CommandInv
      <3> QED
        BY <2>1, <2>2, <2>3, <3>1
    <2> QED
      BY <2>4, <2>5
  <1> QED
    BY <1>1, <1>2 DEF TraceInv, GraphInv, TraceHonest

LEMMA TraceInitInv == TraceInit => TraceInv
  <1> SUFFICES ASSUME TraceInit PROVE TraceInv
    OBVIOUS
  <1>1. IsFiniteSet({}) /\ Cardinality({}) = 0
    BY FS_EmptySet
  <1>2. TraceType
    BY <1>1, SlotsCount DEF TraceInit, TraceType, Pods
  <1>3. UidInv
    BY SlotsCount DEF TraceInit, UidInv
  <1>4. ReaderInv /\ CommandInv
    BY DEF TraceInit, ReaderInv, CommandInv
  <1>5. CaptureInv
    BY <1>1 DEF TraceInit, CaptureInv
  <1>6. GraphInv
    BY <1>1 DEF TraceInit, NoGraph, GraphInv, Forest
  <1> QED
    BY <1>2, <1>3, <1>4, <1>5, <1>6 DEF TraceInv

\* What a change of the cluster has to preserve.
ClusterKept ==
  /\ changes' = changes + 1 /\ pods' \in [Slots -> Pods] /\ deployment' \in Nat
  /\ UNCHANGED <<text, trace, captures, graph>>
  /\ UidInv'
  /\ \A x : Known(x) => Known(x)'

LEMMA ClusterInv == TraceInv /\ ClusterKept => TraceInv'
  <1> SUFFICES ASSUME TraceInv, ClusterKept PROVE TraceInv'
    OBVIOUS
  <1>1. text' = text /\ trace' = trace /\ captures' = captures /\ graph' = graph /\ \A x : Known(x) => Known(x)'
    BY DEF ClusterKept
  <1>2. TraceType'
    BY <1>1 DEF TraceInv, TraceType, ClusterKept
  <1>3. ReaderInv'
    BY <1>1 DEF TraceInv, ReaderInv
  <1>4. CaptureInv' /\ CommandInv' /\ GraphInv'
    BY <1>1 DEF TraceInv, CaptureInv, CommandInv, Left, GraphInv
  <1> QED
    BY <1>2, <1>3, <1>4 DEF TraceInv, ClusterKept

LEMMA RestartKeeps ==
  ASSUME TraceInv, NEW s \in Slots, RestartContainer(s) PROVE ClusterKept
  <1>1. /\ changes' = changes + 1 /\ deployment' = deployment /\ pods[s] # NoPod
        /\ UNCHANGED <<text, trace, captures, graph>> /\ pods' = [pods EXCEPT ![s].restarts = @ + 1]
    BY DEF RestartContainer, Changed
  <1>2. /\ changes \in Nat /\ deployment \in Nat /\ pods \in [Slots -> Pods] /\ Cardinality(Slots) \in Nat
    BY SlotsCount DEF TraceInv, TraceType
  <1>3. ASSUME NEW t \in Slots
        PROVE  /\ pods'[t] \in Pods /\ pods'[t].uid = pods[t].uid /\ pods'[t].owner = pods[t].owner
               /\ pods[t].restarts <= pods'[t].restarts /\ (t # s => pods'[t] = pods[t])
    BY <1>1, <1>2 DEF Pods
  <1>4. pods' \in [Slots -> Pods]
    <2>1. DOMAIN pods' = Slots /\ pods' = [t \in DOMAIN pods' |-> pods'[t]]
      BY <1>1, <1>2
    <2> QED
      BY <1>3, <2>1
  <1>5. UidInv'
    <2>1. ASSUME NEW t \in Slots
          PROVE  pods'[t].uid <= Cardinality(Slots) + changes' /\ (pods'[t].uid = 0 => pods'[t] = NoPod)
      <3>1. pods[t].uid <= Cardinality(Slots) + changes /\ (pods[t].uid = 0 => pods[t] = NoPod) /\ pods[t].uid \in Nat
        BY <1>2 DEF TraceInv, UidInv, Pods
      <3>2. pods[s].uid # 0
        BY <1>1 DEF TraceInv, UidInv
      <3> QED
        BY <1>1, <1>2, <1>3, <3>1, <3>2
    <2>2. ASSUME NEW t \in Slots, NEW u \in Slots, pods'[t].uid = pods'[u].uid, pods'[t].uid # 0 PROVE t = u
      BY <1>3, <2>2 DEF TraceInv, UidInv
    <2> QED
      BY <2>1, <2>2 DEF UidInv
  <1>6. ASSUME NEW x, Known(x) PROVE Known(x)'
    <2>1. x \in Pods /\ x.uid # 0 /\ x.uid <= Cardinality(Slots) + changes /\ x.uid \in Nat /\ x.restarts \in Nat
      BY <1>6 DEF Known, Pods
    <2>2. ASSUME NEW t \in Slots, pods'[t].uid = x.uid
          PROVE  pods'[t].owner = x.owner /\ x.restarts <= pods'[t].restarts
      <3>1. pods[t].owner = x.owner /\ x.restarts <= pods[t].restarts
        BY <1>3, <1>6, <2>2 DEF Known
      <3>2. pods[t].restarts \in Nat /\ pods'[t].restarts \in Nat
        BY <1>2, <1>3 DEF Pods
      <3> QED
        BY <1>3, <2>1, <3>1, <3>2
    <2>3. x.uid <= Cardinality(Slots) + changes'
      BY <1>1, <1>2, <2>1
    <2> QED
      BY <2>1, <2>2, <2>3 DEF Known
  <1> QED
    BY <1>1, <1>2, <1>4, <1>5, <1>6 DEF ClusterKept

LEMMA ReplaceKeeps ==
  ASSUME TraceInv, NEW s \in Slots, ReplacePod(s) PROVE ClusterKept
  <1>1. PICK new \in {NoPod, [owner |-> deployment, uid |-> Cardinality(Slots) + changes + 1, restarts |-> 0]} :
          pods' = [pods EXCEPT ![s] = new]
    BY DEF ReplacePod
  <1>2. /\ changes' = changes + 1 /\ deployment' = deployment /\ UNCHANGED <<text, trace, captures, graph>>
    BY DEF ReplacePod, Changed
  <1>3. /\ changes \in Nat /\ deployment \in Nat /\ pods \in [Slots -> Pods] /\ Cardinality(Slots) \in Nat
    BY SlotsCount DEF TraceInv, TraceType
  <1>4. new \in Pods /\ new.uid \in {0, Cardinality(Slots) + changes + 1} /\ (new.uid = 0 => new = NoPod)
    BY <1>3 DEF NoPod, Pods
  <1>5. /\ pods' \in [Slots -> Pods] /\ pods'[s] = new /\ \A t \in Slots : t # s => pods'[t] = pods[t]
    BY <1>1, <1>3, <1>4
  <1>6. \A t \in Slots : /\ pods[t].uid \in Nat /\ pods[t].uid <= Cardinality(Slots) + changes
                         /\ (pods[t].uid = 0 => pods[t] = NoPod)
    BY <1>3 DEF TraceInv, UidInv, Pods
  <1>7. UidInv'
    <2>1. ASSUME NEW t \in Slots
          PROVE  pods'[t].uid <= Cardinality(Slots) + changes' /\ (pods'[t].uid = 0 => pods'[t] = NoPod)
      <3>1. CASE t = s
        BY <1>2, <1>3, <1>4, <1>5, <3>1
      <3>2. CASE t # s
        BY <1>2, <1>3, <1>5, <1>6, <3>2
      <3> QED
        BY <3>1, <3>2
    <2>2. ASSUME NEW t \in Slots, NEW u \in Slots, pods'[t].uid = pods'[u].uid, pods'[t].uid # 0 PROVE t = u
      <3>1. CASE t # s /\ u # s
        BY <1>5, <2>2, <3>1 DEF TraceInv, UidInv
      <3>2. CASE t = s /\ u # s
        BY <1>3, <1>4, <1>5, <1>6, <2>2, <3>2
      <3>3. CASE t # s /\ u = s
        BY <1>3, <1>4, <1>5, <1>6, <2>2, <3>3
      <3> QED
        BY <3>1, <3>2, <3>3
    <2> QED
      BY <2>1, <2>2 DEF UidInv
  <1>8. ASSUME NEW x, Known(x) PROVE Known(x)'
    <2>1. x \in Pods /\ x.uid # 0 /\ x.uid <= Cardinality(Slots) + changes /\ x.uid \in Nat
      BY <1>8 DEF Known, Pods
    <2>2. ASSUME NEW t \in Slots, pods'[t].uid = x.uid
          PROVE  pods'[t].owner = x.owner /\ x.restarts <= pods'[t].restarts
      <3>1. t # s
        BY <1>3, <1>4, <1>5, <2>1, <2>2
      <3> QED
        BY <1>5, <1>8, <2>2, <3>1 DEF Known
    <2>3. x.uid <= Cardinality(Slots) + changes'
      BY <1>2, <1>3, <2>1
    <2> QED
      BY <2>1, <2>2, <2>3 DEF Known
  <1> QED
    BY <1>2, <1>3, <1>5, <1>7, <1>8 DEF ClusterKept

LEMMA RecreateKeeps ==
  ASSUME TraceInv, RecreateDeployment PROVE ClusterKept
  <1>1. /\ changes' = changes + 1 /\ deployment' = deployment + 1 /\ pods' = pods
        /\ UNCHANGED <<text, trace, captures, graph>>
    BY DEF RecreateDeployment, Changed
  <1>2. /\ changes \in Nat /\ deployment \in Nat /\ pods \in [Slots -> Pods] /\ Cardinality(Slots) \in Nat
    BY SlotsCount DEF TraceInv, TraceType
  <1>3. \A t \in Slots : pods[t].uid \in Nat
    BY <1>2 DEF Pods
  <1>4. UidInv'
    <2>1. ASSUME NEW t \in Slots PROVE pods[t].uid <= Cardinality(Slots) + changes'
      BY <1>1, <1>2, <1>3 DEF TraceInv, UidInv
    <2> QED
      BY <1>1, <2>1 DEF TraceInv, UidInv
  <1>5. ASSUME NEW x, Known(x) PROVE Known(x)'
    <2>1. x.uid <= Cardinality(Slots) + changes /\ x.uid \in Nat
      BY <1>5 DEF Known, Pods
    <2>2. x.uid <= Cardinality(Slots) + changes'
      BY <1>1, <1>2, <2>1
    <2> QED
      BY <1>1, <1>5, <2>2 DEF Known
  <1> QED
    BY <1>1, <1>2, <1>4, <1>5 DEF ClusterKept

\* A step of the reader leaves the cluster, and so what is known of it, as it was.
LEMMA ReaderKeeps ==
  ASSUME TraceInv, Reader
  PROVE  /\ UidInv' /\ \A x : Known(x) => Known(x)'
         /\ deployment' \in Nat /\ changes' \in Nat /\ pods' \in [Slots -> Pods] /\ text' \in Texts
  <1>1. deployment' = deployment /\ pods' = pods /\ text' = text /\ changes' = changes
    BY DEF Reader
  <1>2. ASSUME NEW x, Known(x) PROVE Known(x)'
    BY <1>1, <1>2 DEF Known
  <1>3. UidInv'
    BY <1>1 DEF TraceInv, UidInv
  <1> QED
    BY <1>1, <1>2, <1>3 DEF TraceInv, TraceType

LEMMA GiveUpTraceInv ==
  ASSUME TraceInv, GiveUpTrace PROVE TraceInv'
  <1>1. /\ Reader /\ captures' = captures /\ graph' = graph /\ trace' = [trace EXCEPT !.at = "failed"]
        /\ trace.at \notin {"failed", "published"}
    BY DEF GiveUpTrace
  <1>2. /\ trace'.at = "failed" /\ trace'.deployment = trace.deployment /\ trace'.todo = trace.todo
        /\ trace'.pod = trace.pod /\ trace'.source = trace.source /\ trace'.commands = trace.commands
        /\ trace' = [at |-> trace'.at, deployment |-> trace'.deployment, todo |-> trace'.todo, pod |-> trace'.pod,
                     source |-> trace'.source, commands |-> trace'.commands]
    BY <1>1 DEF TraceInv, TraceType
  <1>3. TraceType'
    BY <1>1, <1>2, ReaderKeeps DEF TraceInv, TraceType
  <1>4. ReaderInv'
    BY <1>1, <1>2, ReaderKeeps DEF TraceInv, ReaderInv
  <1>5. CaptureInv'
    BY <1>1, <1>2 DEF TraceInv, CaptureInv
  <1>6. CommandInv'
    <2>1. PICK n \in Nat, k \in Nat, t \in Nat :
            n = Cardinality(Slots) /\ k = trace.commands /\ t = Cardinality(trace.todo)
      BY SlotsCount, FS_CardinalityType DEF TraceInv, TraceType
    <2>2. Left \in Nat /\ Left' = 0
      BY <1>2 DEF Left
    <2>3. k + 3 * t <= 2 + 3 * n
      <3>1. CASE trace.at \notin {"deployment", "list"}
        <4>1. k + Left + 3 * t <= 2 + 3 * n
          BY <2>1, <3>1 DEF TraceInv, CommandInv
        <4> QED
          BY <2>1, <2>2, <4>1
      <3>2. CASE trace.at \in {"deployment", "list"}
        <4>1. k <= 1 /\ trace.todo = {}
          BY <2>1, <3>2 DEF TraceInv, CommandInv
        <4>2. t = 0
          BY <2>1, <4>1, FS_EmptySet
        <4> QED
          BY <2>1, <4>1, <4>2
      <3> QED
        BY <3>1, <3>2
    <2> QED
      BY <1>2, <2>1, <2>2, <2>3 DEF CommandInv
  <1>7. GraphInv'
    BY <1>1 DEF TraceInv, GraphInv
  <1> QED
    BY <1>1, <1>3, <1>4, <1>5, <1>6, <1>7, ReaderKeeps DEF TraceInv

LEMMA ReadDeploymentInv ==
  ASSUME TraceInv, ReadDeployment PROVE TraceInv'
  <1>1. /\ Reader /\ captures' = captures /\ graph' = graph /\ trace.at = "deployment"
        /\ trace' = [trace EXCEPT !.at = "list", !.commands = trace.commands + 1, !.deployment = deployment]
    BY DEF ReadDeployment
  <1>2. trace.commands = 0 /\ trace.todo = {} /\ captures = {}
    BY <1>1 DEF TraceInv, CommandInv, CaptureInv
  <1>3. /\ trace'.at = "list" /\ trace'.todo = {} /\ trace'.commands = 1
        /\ trace' = [at |-> trace'.at, deployment |-> trace'.deployment, todo |-> trace'.todo, pod |-> trace'.pod,
                     source |-> trace'.source, commands |-> trace'.commands]
    <2>1. /\ trace'.at = "list" /\ trace'.todo = trace.todo /\ trace'.commands = trace.commands + 1
          /\ trace' = [at |-> trace'.at, deployment |-> trace'.deployment, todo |-> trace'.todo,
                       pod |-> trace'.pod, source |-> trace'.source, commands |-> trace'.commands]
      BY <1>1 DEF TraceInv, TraceType
    <2> QED
      BY <1>2, <2>1
  <1>4. TraceType'
    <2>1. trace'.at = "list" /\ trace'.commands \in Nat /\ IsFiniteSet(trace'.todo)
      BY <1>3, FS_EmptySet
    <2> QED
      BY <1>1, <1>3, <2>1, ReaderKeeps DEF TraceType
  <1>5. ReaderInv' /\ CommandInv'
    BY <1>3 DEF ReaderInv, CommandInv
  <1>6. CaptureInv'
    BY <1>1, <1>2, <1>3, FS_EmptySet DEF CaptureInv
  <1>7. GraphInv'
    BY <1>1 DEF TraceInv, GraphInv
  <1> QED
    BY <1>1, <1>4, <1>5, <1>6, <1>7, ReaderKeeps DEF TraceInv

LEMMA ListPodsInv ==
  ASSUME TraceInv, ListPods PROVE TraceInv'
  <1>1. /\ Reader /\ captures' = captures /\ graph' = graph /\ trace.at = "list"
        /\ trace' = [trace EXCEPT !.at = "next", !.commands = trace.commands + 1, !.todo = Range(pods) \ {NoPod}]
    BY DEF ListPods
  <1>2. trace.commands = 1 /\ captures = {}
    BY <1>1 DEF TraceInv, CommandInv, CaptureInv
  <1>3. /\ trace'.at = "next" /\ trace'.todo = Range(pods) \ {NoPod} /\ trace'.commands = 2
        /\ trace' = [at |-> trace'.at, deployment |-> trace'.deployment, todo |-> trace'.todo, pod |-> trace'.pod,
                     source |-> trace'.source, commands |-> trace'.commands]
    <2>1. /\ trace'.at = "next" /\ trace'.todo = Range(pods) \ {NoPod} /\ trace'.commands = trace.commands + 1
          /\ trace' = [at |-> trace'.at, deployment |-> trace'.deployment, todo |-> trace'.todo,
                       pod |-> trace'.pod, source |-> trace'.source, commands |-> trace'.commands]
      BY <1>1 DEF TraceInv, TraceType
    <2> QED
      BY <1>2, <2>1
  <1>4. /\ IsFiniteSet(trace'.todo) /\ Cardinality(trace'.todo) <= Cardinality(Slots)
        /\ Cardinality(trace'.todo) \in Nat
    <2>1. DOMAIN pods = Slots /\ pods = [x \in DOMAIN pods |-> pods[x]]
      BY DEF TraceInv, TraceType
    <2>2. IsFiniteSet(Range(pods)) /\ Cardinality(Range(pods)) <= Cardinality(Slots)
      BY <2>1, SlotsCount, FiniteRange
    <2>3. /\ IsFiniteSet(Range(pods) \ {NoPod}) /\ Cardinality(Range(pods) \ {NoPod}) <= Cardinality(Range(pods))
      BY <2>2, FS_Subset
    <2>4. /\ Cardinality(Range(pods) \ {NoPod}) \in Nat /\ Cardinality(Range(pods)) \in Nat
      BY <2>2, <2>3, FS_CardinalityType
    <2> QED
      BY <1>3, <2>2, <2>3, <2>4, SlotsCount
  <1>5. TraceType'
    BY <1>1, <1>3, <1>4, ReaderKeeps DEF TraceType
  <1>6. ASSUME NEW x \in trace'.todo PROVE Known(x)
    <2>1. PICK s \in Slots : x = pods[s] /\ pods[s] # NoPod
      BY <1>3 DEF TraceInv, TraceType, Range
    <2>2. x \in Pods /\ x.uid # 0 /\ x.uid <= Cardinality(Slots) + changes
      BY <2>1 DEF TraceInv, TraceType, UidInv
    <2>3. ASSUME NEW t \in Slots, pods[t].uid = x.uid PROVE pods[t] = x
      BY <2>1, <2>2, <2>3 DEF TraceInv, UidInv
    <2>4. x.restarts <= x.restarts
      BY <2>2 DEF Pods
    <2> QED
      BY <2>2, <2>3, <2>4 DEF Known
  <1>7. ReaderInv'
    BY <1>1, <1>3, <1>6, ReaderKeeps DEF ReaderInv
  <1>8. CaptureInv'
    BY <1>1, <1>2, <1>3, FS_EmptySet DEF CaptureInv
  <1>9. CommandInv'
    <2>1. Left' = 0
      BY <1>3 DEF Left
    <2>2. trace'.commands + Left' + 3 * Cardinality(trace'.todo) <= 2 + 3 * Cardinality(Slots)
      BY <1>3, <1>4, <2>1, SlotsCount
    <2> QED
      BY <1>3, <2>2 DEF CommandInv
  <1>10. GraphInv'
    BY <1>1 DEF TraceInv, GraphInv
  <1> QED
    BY <1>1, <1>5, <1>7, <1>8, <1>9, <1>10, ReaderKeeps DEF TraceInv

LEMMA ReadReplicaInv ==
  ASSUME TraceInv, ReadReplica PROVE TraceInv'
  <1>1. PICK pod \in trace.todo :
          /\ pod.owner = trace.deployment
          /\ trace' = [trace EXCEPT !.at = "logs", !.commands = trace.commands + 1, !.pod = pod,
                                    !.todo = trace.todo \ {pod}]
    BY DEF ReadReplica
  <1>2. Reader /\ captures' = captures /\ graph' = graph /\ trace.at = "next"
    BY DEF ReadReplica
  <1>3. /\ trace'.at = "logs" /\ trace'.deployment = trace.deployment /\ trace'.todo = trace.todo \ {pod}
        /\ trace'.pod = pod /\ trace'.commands = trace.commands + 1
        /\ trace' = [at |-> trace'.at, deployment |-> trace'.deployment, todo |-> trace'.todo, pod |-> trace'.pod,
                     source |-> trace'.source, commands |-> trace'.commands]
    BY <1>1 DEF TraceInv, TraceType
  <1>4. PICK n \in Nat, k \in Nat, t \in Nat :
          n = Cardinality(Slots) /\ k = trace.commands /\ t = Cardinality(trace.todo)
    BY SlotsCount, FS_CardinalityType DEF TraceInv, TraceType
  <1>5. IsFiniteSet(trace'.todo) /\ Cardinality(trace'.todo) = t - 1
    BY <1>1, <1>3, <1>4, FS_RemoveElement DEF TraceInv, TraceType
  <1>6. TraceType'
    BY <1>2, <1>3, <1>4, <1>5, ReaderKeeps DEF TraceType
  <1>7. ReaderInv'
    BY <1>1, <1>2, <1>3, ReaderKeeps DEF TraceInv, ReaderInv
  <1>8. CaptureInv'
    BY <1>2, <1>3 DEF TraceInv, CaptureInv
  <1>9. CommandInv'
    <2>1. Left = 0 /\ Left' = 2
      BY <1>2, <1>3 DEF Left
    <2>2. k + 3 * t <= 2 + 3 * n
      BY <1>2, <1>4, <2>1 DEF TraceInv, CommandInv
    <2>3. trace'.commands + Left' + 3 * Cardinality(trace'.todo) <= 2 + 3 * Cardinality(Slots)
      BY <1>3, <1>4, <1>5, <2>1, <2>2
    <2> QED
      BY <1>3, <2>3 DEF CommandInv
  <1>10. GraphInv'
    BY <1>2 DEF TraceInv, GraphInv
  <1> QED
    BY <1>2, <1>6, <1>7, <1>8, <1>9, <1>10, ReaderKeeps DEF TraceInv

LEMMA ReadLogInv ==
  ASSUME TraceInv, ReadLog PROVE TraceInv'
  <1>1. PICK s \in Slots :
          /\ pods[s].uid = trace.pod.uid
          /\ trace' = [trace EXCEPT !.at = "after", !.commands = trace.commands + 1, !.source = pods[s]]
    BY DEF ReadLog
  <1>2. Reader /\ captures' = captures /\ graph' = graph /\ trace.at = "logs"
    BY DEF ReadLog
  <1>3. /\ trace'.at = "after" /\ trace'.deployment = trace.deployment /\ trace'.todo = trace.todo
        /\ trace'.pod = trace.pod /\ trace'.source = pods[s] /\ trace'.commands = trace.commands + 1
        /\ trace' = [at |-> trace'.at, deployment |-> trace'.deployment, todo |-> trace'.todo, pod |-> trace'.pod,
                     source |-> trace'.source, commands |-> trace'.commands]
    BY <1>1 DEF TraceInv, TraceType
  <1>4. PICK n \in Nat, k \in Nat, t \in Nat :
          n = Cardinality(Slots) /\ k = trace.commands /\ t = Cardinality(trace.todo)
    BY SlotsCount, FS_CardinalityType DEF TraceInv, TraceType
  <1>5. TraceType'
    BY <1>2, <1>3, <1>4, ReaderKeeps DEF TraceInv, TraceType
  <1>6. /\ Known(trace.pod) /\ trace.pod.owner = trace.deployment
        /\ pods[s].owner = trace.pod.owner /\ trace.pod.restarts <= pods[s].restarts
    BY <1>1, <1>2 DEF TraceInv, ReaderInv, Known
  <1>7. Known(pods[s])
    <2>1. /\ pods[s] \in Pods /\ pods[s].uid # 0 /\ pods[s].uid <= Cardinality(Slots) + changes
      BY <1>1, <1>6 DEF Known, TraceInv, TraceType, UidInv
    <2>2. ASSUME NEW u \in Slots, pods[u].uid = pods[s].uid PROVE u = s
      BY <2>1, <2>2 DEF TraceInv, UidInv
    <2>3. pods[s].restarts <= pods[s].restarts
      BY <2>1 DEF Pods
    <2> QED
      BY <2>1, <2>2, <2>3 DEF Known
  <1>8. ReaderInv'
    BY <1>1, <1>2, <1>3, <1>6, <1>7, ReaderKeeps DEF TraceInv, ReaderInv
  <1>9. CaptureInv'
    BY <1>2, <1>3 DEF TraceInv, CaptureInv
  <1>10. CommandInv'
    <2>1. Left = 2 /\ Left' = 1
      BY <1>2, <1>3 DEF Left
    <2>2. k + 2 + 3 * t <= 2 + 3 * n
      BY <1>2, <1>4, <2>1 DEF TraceInv, CommandInv
    <2>3. trace'.commands + Left' + 3 * Cardinality(trace'.todo) <= 2 + 3 * Cardinality(Slots)
      BY <1>3, <1>4, <2>1, <2>2
    <2> QED
      BY <1>3, <2>3 DEF CommandInv
  <1>11. GraphInv'
    BY <1>2 DEF TraceInv, GraphInv
  <1> QED
    BY <1>2, <1>5, <1>8, <1>9, <1>10, <1>11, ReaderKeeps DEF TraceInv

\* The identity read after the log is the one read before it, so it was the log's.
LEMMA ReadAgainInv ==
  ASSUME TraceInv, ReadAgain PROVE TraceInv'
  <1>1. PICK s \in Slots :
          /\ pods[s] = trace.pod
          /\ captures' = captures \cup {[pod |-> trace.pod, source |-> trace.source, lines |-> text[s],
                                         parsed |-> Parsed(text[s])]}
    BY Zenon DEF ReadAgain, SameIdentity
  <1>2. /\ Reader /\ graph' = graph /\ trace.at = "after"
        /\ trace' = [trace EXCEPT !.at = "next", !.commands = trace.commands + 1]
    BY DEF ReadAgain, ReadTo
  <1>3. /\ trace'.at = "next" /\ trace'.deployment = trace.deployment /\ trace'.todo = trace.todo
        /\ trace'.pod = trace.pod /\ trace'.commands = trace.commands + 1
        /\ trace' = [at |-> trace'.at, deployment |-> trace'.deployment, todo |-> trace'.todo, pod |-> trace'.pod,
                     source |-> trace'.source, commands |-> trace'.commands]
    BY <1>2 DEF TraceInv, TraceType
  <1>4. PICK n \in Nat, k \in Nat, t \in Nat :
          n = Cardinality(Slots) /\ k = trace.commands /\ t = Cardinality(trace.todo)
    BY SlotsCount, FS_CardinalityType DEF TraceInv, TraceType
  <1>5. TraceType'
    BY <1>2, <1>3, <1>4, ReaderKeeps DEF TraceInv, TraceType
  <1>6. ReaderInv'
    BY <1>2, <1>3, ReaderKeeps DEF TraceInv, ReaderInv
  <1>7. trace.source = trace.pod /\ trace.pod.owner = trace.deployment
    <2>1. /\ Known(trace.pod) /\ Known(trace.source) /\ trace.source.uid = trace.pod.uid
          /\ trace.source.owner = trace.pod.owner /\ trace.pod.restarts <= trace.source.restarts
          /\ trace.pod.owner = trace.deployment
      BY <1>2 DEF TraceInv, ReaderInv
    <2>2. trace.source.restarts <= trace.pod.restarts /\ trace.source \in Pods /\ trace.pod \in Pods
      BY <1>1, <2>1 DEF Known
    <2>3. trace.source.restarts = trace.pod.restarts
      BY <2>1, <2>2 DEF Pods
    <2> QED
      BY <2>1, <2>2, <2>3 DEF Pods
  <1>8. GoodLines(text[s])
    BY TraceAssumption DEF TraceInv, TraceType, GoodLines
  <1>9. CaptureInv'
    <2> DEFINE new == [pod |-> trace.pod, source |-> trace.source, lines |-> text[s], parsed |-> Parsed(text[s])]
    <2>1. IsFiniteSet(captures')
      <3>1. IsFiniteSet(captures)
        BY DEF TraceInv, CaptureInv
      <3> HIDE DEF new
      <3>2. IsFiniteSet(captures \cup {new})
        BY <3>1, FS_AddElement
      <3> QED
        BY <1>1, <3>2 DEF new
    <2>2. /\ new.source = new.pod /\ new.pod.owner = trace'.deployment
          /\ GoodLines(new.lines) /\ new.parsed = Parsed(new.lines)
      BY <1>3, <1>7, <1>8
    <2>3. ASSUME NEW c \in captures
          PROVE  /\ c.source = c.pod /\ c.pod.owner = trace'.deployment
                 /\ GoodLines(c.lines) /\ c.parsed = Parsed(c.lines)
      BY <1>3 DEF TraceInv, CaptureInv
    <2>4. captures' = captures \cup {new}
      BY <1>1
    <2> HIDE DEF new
    <2> QED
      BY <1>3, <2>1, <2>2, <2>3, <2>4 DEF CaptureInv
  <1>10. CommandInv'
    <2>1. Left = 1 /\ Left' = 0
      BY <1>2, <1>3 DEF Left
    <2>2. k + 1 + 3 * t <= 2 + 3 * n
      BY <1>2, <1>4, <2>1 DEF TraceInv, CommandInv
    <2>3. trace'.commands + Left' + 3 * Cardinality(trace'.todo) <= 2 + 3 * Cardinality(Slots)
      BY <1>3, <1>4, <2>1, <2>2
    <2> QED
      BY <1>3, <2>3 DEF CommandInv
  <1>11. GraphInv'
    BY <1>2 DEF TraceInv, GraphInv
  <1> QED
    BY <1>2, <1>5, <1>6, <1>9, <1>10, <1>11, ReaderKeeps DEF TraceInv

LEMMA SpansFinite ==
  ASSUME TraceInv PROVE IsFiniteSet(Spans) /\ Spans \in SUBSET Nodes
  <1>1. ASSUME NEW c \in captures PROVE IsFiniteSet(Range(c.parsed.spans)) /\ Range(c.parsed.spans) \subseteq Nodes
    <2>1. c.parsed.spans \in Seq(Nodes)
      BY ParsedAccounts DEF TraceInv, CaptureInv
    <2>2. PICK q \in Seq(Nodes) : q = c.parsed.spans
      BY <2>1
    <2>3. Len(q) \in Nat /\ DOMAIN q = 1..Len(q) /\ \A i \in 1..Len(q) : q[i] \in Nodes
      BY LenProperties, ElementOfSeq
    <2>4. IsFiniteSet(DOMAIN q)
      BY <2>3, FS_Interval
    <2>5. q = [i \in DOMAIN q |-> q[i]]
      OBVIOUS
    <2>6. IsFiniteSet(Range(q)) /\ Range(q) \subseteq Nodes
      BY <2>3, <2>4, <2>5, FiniteRange DEF Range
    <2> QED
      BY <2>2, <2>6
  <1> DEFINE f == [c \in captures |-> Range(c.parsed.spans)]
  <1>2. Range(f) = {Range(c.parsed.spans) : c \in captures}
    BY DEF Range
  <1>3. IsFiniteSet(Range(f))
    <2>1. DOMAIN f = captures /\ f = [x \in DOMAIN f |-> f[x]] /\ IsFiniteSet(captures)
      BY DEF TraceInv, CaptureInv
    <2> HIDE DEF f
    <2> QED
      BY <2>1, FiniteRange
  <1>4. \A T \in Range(f) : IsFiniteSet(T) /\ T \subseteq Nodes
    BY <1>1, <1>2
  <1>5. Spans = UNION Range(f)
    BY <1>2 DEF Spans
  <1> HIDE DEF f
  <1>6. IsFiniteSet(UNION Range(f))
    BY <1>3, <1>4, FS_UNION
  <1> QED
    BY <1>4, <1>5, <1>6

LEMMA PublishTraceInv ==
  ASSUME TraceInv, PublishTrace PROVE TraceInv'
  <1>1. /\ Reader /\ captures' = captures /\ trace.at = "next" /\ ~Conflict(Spans) /\ ~Cyclic(Spans)
        /\ graph' = Summary(Spans) /\ trace' = [trace EXCEPT !.at = "published"]
    BY DEF PublishTrace
  <1>2. /\ trace'.at = "published" /\ trace'.deployment = trace.deployment /\ trace'.todo = trace.todo
        /\ trace'.pod = trace.pod /\ trace'.source = trace.source /\ trace'.commands = trace.commands
        /\ trace' = [at |-> trace'.at, deployment |-> trace'.deployment, todo |-> trace'.todo, pod |-> trace'.pod,
                     source |-> trace'.source, commands |-> trace'.commands]
    BY <1>1 DEF TraceInv, TraceType
  <1>3. TraceType'
    BY <1>1, <1>2, ReaderKeeps DEF TraceInv, TraceType
  <1>4. ReaderInv'
    BY <1>1, <1>2, ReaderKeeps DEF TraceInv, ReaderInv
  <1>5. CaptureInv'
    BY <1>1, <1>2 DEF TraceInv, CaptureInv
  <1>6. CommandInv'
    BY <1>1, <1>2 DEF TraceInv, CommandInv, Left
  <1>7. Forest(Spans)
    BY <1>1, SpansFinite, NoCycleIsForest
  <1>8. GraphInv'
    BY <1>1, <1>7, SpansFinite, SummaryCounts DEF GraphInv
  <1> QED
    BY <1>1, <1>3, <1>4, <1>5, <1>6, <1>8, ReaderKeeps DEF TraceInv

LEMMA TraceNextInv ==
  TraceInv /\ [TraceNext]_traceVars => TraceInv'
  <1> SUFFICES ASSUME TraceInv, [TraceNext]_traceVars PROVE TraceInv'
    OBVIOUS
  <1>1. CASE UNCHANGED traceVars
    <2>1. /\ deployment' = deployment /\ pods' = pods /\ text' = text /\ changes' = changes
          /\ trace' = trace /\ captures' = captures /\ graph' = graph
      BY <1>1 DEF traceVars
    <2>2. TraceType' /\ UidInv' /\ ReaderInv'
      BY <2>1 DEF TraceInv, TraceType, UidInv, ReaderInv, Known
    <2>3. CaptureInv' /\ CommandInv' /\ GraphInv'
      BY <2>1 DEF TraceInv, CaptureInv, CommandInv, Left, GraphInv
    <2> QED
      BY <2>2, <2>3 DEF TraceInv
  <1>2. CASE (\E s \in Slots : RestartContainer(s) \/ ReplacePod(s)) \/ RecreateDeployment
    BY <1>2, RestartKeeps, ReplaceKeeps, RecreateKeeps, ClusterInv
  <1> QED
    BY <1>1, <1>2, ReadDeploymentInv, ListPodsInv, ReadReplicaInv, ReadLogInv, ReadAgainInv,
       PublishTraceInv, GiveUpTraceInv DEF TraceNext

\* Whatever containers restart, pods are replaced and deployments recreated between the reads,
\* and whatever the logs hold: a kept log was written by the container recorded with it, every
\* object and stray line in it is counted once, a published graph is a forest with every edge
\* counted, and the reservation of commands is never exceeded (tools/traces.py,
\* parse_console_log, summarize_graph).
THEOREM TracesStayHonest == TraceSpec => []TraceHonest
  <1>1. TraceInit => TraceInv
    BY TraceInitInv
  <1> QED
    BY <1>1, TraceNextInv, TraceInvHonest, PTL DEF TraceSpec
=============================================================================
