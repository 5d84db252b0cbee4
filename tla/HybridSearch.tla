---------------------------- MODULE HybridSearch ----------------------------
(***************************************************************************)
(* HybridSearchUseCase of apps/ai-service: the vector and the text search  *)
(* are fused by reciprocal ranks, reranked, cut to topK and widened by the *)
(* neighbours of the hits; a compound question is split into sub-queries   *)
(* whose results are fused once more.                                      *)
(***************************************************************************)
EXTENDS Integers, Sequences, FiniteSets, Functions, SequencesExt, FiniteSetsExt

CONSTANTS
  LastStored,       \* the chunks of a document are 1..LastStored, by chunkIndex
  Parent,           \* parentChunkId of each chunk, or "none"
  CandidateK,       \* HYBRID_CANDIDATE_K
  RrfK,             \* RRF_K
  RerankerTopN,     \* RERANKER_TOP_N
  TopK,             \* topK of the command
  MaxSubQueries,    \* MAX_SUB_QUERIES
  Denominator       \* scores are multiples of 1 / Denominator

ASSUME SearchAssumption ==
  /\ LastStored \in Nat \ {0} /\ DOMAIN Parent = 1..LastStored
  /\ {CandidateK, RrfK, RerankerTopN, TopK, MaxSubQueries, Denominator} \subseteq Nat \ {0}
  /\ \A rank \in 1..LastStored : Denominator % (RrfK + rank) = 0

VARIABLE search   \* the search: pc, the lists to fuse, the chunks so far

searchVars == <<search>>

Stored == 1..LastStored

\* Lists of at most n of the members of S, none twice.
Lists(S, n) == UNION {Injection(1..k, S) : k \in 0..n}

\* The vector search and the text search: the best of what is stored, by a score of
\* their own, without order between them.
SimilaritySearch == Lists(Stored, CandidateK)
LexicalSearch == Lists(Stored, CandidateK)

Take(s, n) == IF Len(s) <= n THEN s ELSE SubSeq(s, 1, n)

\* The members of S, ordered by R.
Ordered(S, R) ==
  CHOOSE s \in Bijection(1..Cardinality(S), S) : \A i, j \in DOMAIN s : i < j => <<s[i], s[j]>> \in R

-----------------------------------------------------------------------------
(* RrfFusionService                                                        *)

RrfScore(rank) == Denominator \div (RrfK + rank)
Hit(list, i) == [chunk |-> list[i], score |-> RrfScore(i)]

\* Mutant: a chunk that is found again takes the score of its last list.
SetScore(scores, hit) ==
  IF \E i \in DOMAIN scores : scores[i].chunk = hit.chunk
  THEN [i \in DOMAIN scores |-> IF scores[i].chunk # hit.chunk THEN scores[i] ELSE hit]
  ELSE Append(scores, hit)

\* scoreMap keeps the order in which the chunks were first seen.
AddScore(scores, hit) ==
  IF \E i \in DOMAIN scores : scores[i].chunk = hit.chunk
  THEN [i \in DOMAIN scores |->
          IF scores[i].chunk # hit.chunk THEN scores[i]
          ELSE [scores[i] EXCEPT !.score = @ + hit.score]]
  ELSE Append(scores, hit)

AddHits(scores, list) ==
  LET after[i \in 0..Len(list)] ==
        IF i = 0 THEN scores ELSE AddScore(after[i - 1], Hit(list, i))
  IN  after[Len(list)]

ScoreMap(lists) ==
  LET after[l \in 0..Len(lists)] ==
        IF l = 0 THEN <<>> ELSE AddHits(after[l - 1], lists[l])
  IN  after[Len(lists)]

\* The sort is stable.
ByScore(scores) ==
  {p \in (DOMAIN scores) \X (DOMAIN scores) :
     \/ scores[p[1]].score > scores[p[2]].score
     \/ scores[p[1]].score = scores[p[2]].score /\ p[1] < p[2]}

Fuse(lists) ==
  LET scores == ScoreMap(lists)
      order == Ordered(DOMAIN scores, ByScore(scores))
  IN  [i \in DOMAIN order |-> scores[order[i]].chunk]

-----------------------------------------------------------------------------
(* expandWithSiblings                                                      *)

HitIndex(chunks, p) == Max({i \in DOMAIN chunks : Parent[chunks[i]] = p})

Adjacent(m, n) == m - n \in {-1, 0, 1}

ExpandWithSiblings(chunks, stored) ==
  LET hits == ToSet(chunks)
      parents == {Parent[n] : n \in hits} \ {"none"}
      siblings == {s \in stored \ hits :
                     Parent[s] \in parents /\ Adjacent(s, chunks[HitIndex(chunks, Parent[s])])}
  IN  chunks \o Ordered(siblings, {p \in Stored \X Stored : p[1] < p[2]})

-----------------------------------------------------------------------------
(* buildRagMessages                                                        *)

\* A chunk without a parent counts as its own.
ParentKey(n) == <<Parent[n], IF Parent[n] = "none" THEN n ELSE 0>>

\* seenParents: of chunks under one parent the first.
AddParent(seen, n) ==
  IF \E i \in DOMAIN seen : ParentKey(seen[i]) = ParentKey(n) THEN seen ELSE Append(seen, n)

\* The numbered sources of the prompt.
PromptSources(chunks) ==
  LET after[i \in 0..Len(chunks)] ==
        IF i = 0 THEN <<>> ELSE AddParent(after[i - 1], chunks[i])
  IN  after[Len(chunks)]

-----------------------------------------------------------------------------
Search(pc, subQueries) ==
  [pc |-> pc, subQueries |-> subQueries, lists |-> <<>>, chunks |-> <<>>, stored |-> {},
   parts |-> <<>>]

\* subQueries: 0 for a question that is not decomposed.
SearchInit == \E n \in 0..MaxSubQueries : search = Search("search", n)

\* The two searches, in parallel, and their fusion.
FuseResults ==
  /\ search.pc = "search"
  /\ \E dense \in SimilaritySearch, lexical \in LexicalSearch :
       search' = [search EXCEPT !.pc = "rerank", !.lists = <<dense, lexical>>,
                                !.chunks = Fuse(<<dense, lexical>>)]

\* The reranker picks and orders any topN of them; disabled, it leaves them as
\* they are, and failing, it leaves the first topN.
Rerank ==
  /\ search.pc = "rerank"
  /\ \E ranked \in Injection(1..Len(Take(search.chunks, RerankerTopN)), ToSet(search.chunks))
                   \cup {search.chunks, Take(search.chunks, RerankerTopN)} :
       search' = [search EXCEPT !.pc = "expand", !.lists = <<>>, !.chunks = Take(ranked, TopK)]

\* By now documents may have been removed or ingested.
Expand ==
  /\ search.pc = "expand"
  /\ \E stored \in SUBSET Stored :
       search' = [search EXCEPT !.pc = "expanded", !.lists = <<search.chunks>>, !.stored = stored,
                                !.chunks = ExpandWithSiblings(search.chunks, stored)]

\* executeDecomposed: the next sub-query, or the fusion of all of them.
NextPart ==
  LET parts == Append(search.parts, search.chunks) IN
  /\ search.pc = "expanded"
  /\ search' = IF search.subQueries = 0 THEN [Search("done", 0) EXCEPT !.chunks = search.chunks]
               ELSE IF Len(parts) < search.subQueries
               THEN [Search("search", search.subQueries) EXCEPT !.parts = parts]
               ELSE [Search("fused", 0) EXCEPT !.lists = parts, !.chunks = Fuse(parts)]

TakeParts ==
  /\ search.pc = "fused"
  /\ search' = [Search("done", 0) EXCEPT !.chunks = Take(search.chunks, TopK)]

BuildRagMessages ==
  /\ search.pc = "done"
  /\ search' = [search EXCEPT !.pc = "prompt", !.lists = <<search.chunks>>,
                              !.chunks = PromptSources(search.chunks)]

SearchNext == FuseResults \/ Rerank \/ Expand \/ NextPart \/ TakeParts \/ BuildRagMessages

SearchSpec == SearchInit /\ [][SearchNext]_searchVars

-----------------------------------------------------------------------------
SearchTypeOK ==
  /\ search.pc \in {"search", "rerank", "expand", "expanded", "fused", "done", "prompt"}
  /\ IsInjective(search.chunks) /\ ToSet(search.chunks) \subseteq Stored
  /\ Len(search.parts) < MaxSubQueries

\* The reciprocal ranks of a chunk, summed over the lists it is in.
ReciprocalRank(list, n) ==
  IF n \in ToSet(list) THEN RrfScore(CHOOSE i \in DOMAIN list : list[i] = n) ELSE 0

ReciprocalRanks(lists, n) ==
  LET sum[l \in 0..Len(lists)] ==
        IF l = 0 THEN 0 ELSE sum[l - 1] + ReciprocalRank(lists[l], n)
  IN  sum[Len(lists)]

\* A fused list has every chunk of the lists once, ordered by the sum of the
\* reciprocal ranks; of two with the same sum the one of the earlier list is first.
FusedByReciprocalRanks ==
  LET lists == search.lists
      chunks == search.chunks
      First(n) == Min({l \in DOMAIN lists : n \in ToSet(lists[l])})
  IN  search.pc \in {"rerank", "fused"} =>
        /\ ToSet(chunks) = UNION {ToSet(lists[l]) : l \in DOMAIN lists}
        /\ \A i, j \in DOMAIN chunks : i < j =>
             LET m == ReciprocalRanks(lists, chunks[i])
                 n == ReciprocalRanks(lists, chunks[j])
             IN  m > n \/ (m = n /\ First(chunks[i]) <= First(chunks[j]))

\* Expansion keeps the hits, in front, and adds neighbours of hits under the same
\* parent only.  It misses a stored neighbour of a hit only if a later hit has the
\* same parent.
NeighboursFollowHits ==
  search.pc = "expanded" =>
    LET hits == search.lists[1]
        chunks == search.chunks
        Neighbours(n) == {s \in Stored : Adjacent(s, n) /\ Parent[n] # "none" /\ Parent[s] = Parent[n]}
    IN  /\ IsPrefix(hits, chunks)
        /\ \A i \in DOMAIN chunks : i > Len(hits) => \E n \in ToSet(hits) : chunks[i] \in Neighbours(n)
        /\ \A i \in DOMAIN hits : \A s \in Neighbours(hits[i]) \cap search.stored :
             \/ s \in ToSet(chunks)
             \/ \E j \in DOMAIN hits : j > i /\ Parent[hits[j]] = Parent[hits[i]]

\* The prompt has a source for the parent of every chunk found and no parent twice; the
\* sources are in the order of the first chunks of their parents, so that source n is
\* never behind the n-th chunk.
SourcesOfPrompt ==
  search.pc = "prompt" =>
    LET chunks == search.lists[1]
        First(n) == Min({i \in DOMAIN chunks : ParentKey(chunks[i]) = ParentKey(n)})
    IN  /\ {ParentKey(n) : n \in ToSet(chunks)} = {ParentKey(n) : n \in ToSet(search.chunks)}
        /\ \A i \in DOMAIN search.chunks : chunks[First(search.chunks[i])] = search.chunks[i]
        /\ \A i, j \in DOMAIN search.chunks : i < j => First(search.chunks[i]) < First(search.chunks[j])

=============================================================================
