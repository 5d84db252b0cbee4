-------------------------- MODULE QuestionAnswering -------------------------
(***************************************************************************)
(* POST rag/ask of apps/ai-service.  A simple question is answered from    *)
(* the exact cache, the semantic cache or the LLM gateway, a complex one by*)
(* rounds of search, answer and critique; at the end the turn is written   *)
(* into the copy of the session that was read at the beginning.            *)
(***************************************************************************)
EXTENDS ServiceCalls

CONSTANTS
  Questions,         \* questions that embedding similarity tells apart
  ComplexQuestions,  \* those that QueryComplexityRouter calls complex
  CompoundQuestions, \* those that QueryDecomposer splits
  UseHyde,           \* the values of useHyde that the requests have
  Conversations,     \* sessions that exist at the beginning
  SourceDocs,        \* documents that may be found
  MaxIterations,     \* of IterationBudget
  ConfidenceThreshold  \* AGENTIC_CONFIDENCE_THRESHOLD, in tenths

ASSUME AskAssumption ==
  /\ ComplexQuestions \subseteq Questions /\ CompoundQuestions \subseteq Questions
  /\ UseHyde \subseteq BOOLEAN
  /\ Conversations \cap Calls = {} /\ "none" \notin Conversations \cup Calls
  /\ MaxIterations \in Nat \ {0} /\ ConfidenceThreshold \in 0..10

VARIABLES
  sessions,       \* conversation_sessions; a new one has the id of its call
  llmCache,       \* Redis llm:cache:*, by question and documents
  semanticCache,  \* Redis sem:cache:*, by the embedding of the search
  ask             \* ask[c]: the request of call c

askVars == <<sessions, llmCache, semanticCache, ask, callFaults>>

SessionIds == Conversations \cup Calls

\* queryEmbedding, by the query it is like; own: the query searched with is that one.
Embedding(query, own) == [like |-> query, own |-> own]
NoEmbedding == Embedding("none", FALSE)
NoAnswer == [question |-> "none", query |-> "none", embedding |-> NoEmbedding,
             docs |-> {}, text |-> "none"]

\* text: full; blank (white space only); or empty, when every line was filtered.
Answer(a, text) == [question |-> a.question, query |-> a.query, embedding |-> a.embedding,
                    docs |-> a.docs, text |-> text]

Ask(pc, q, s, copy, peers) ==
  [pc |-> pc, question |-> q, query |-> q, embedding |-> NoEmbedding, session |-> s, copy |-> copy,
   peers |-> peers, sources |-> {}, docs |-> {}, rounds |-> 0, answer |-> NoAnswer, from |-> "none"]

Ended == {"idle", "done", "broken"}
Broken == Ask("broken", "none", "none", <<>>, {})

\* What is still of interest of an ask that has ended.
Done(a) == [Ask("done", "none", a.session, <<>>, a.peers) EXCEPT !.answer.text = a.answer.text]
InProgress(s) == {c \in Calls : ask[c].session = s /\ ask[c].pc \notin Ended}

AskStep(c, from, to) == ask[c].pc = from /\ ask' = [ask EXCEPT ![c].pc = to]
Deliver(c, answer, from, pc) ==
  ask' = [ask EXCEPT ![c] = [@ EXCEPT !.pc = pc, !.answer = answer, !.from = from]]

AskInit ==
  /\ sessions = [s \in SessionIds |-> [live |-> s \in Conversations, turns |-> <<>>]]
  /\ llmCache = {}
  /\ semanticCache = {}
  /\ ask = [c \in Calls |-> Ask("idle", "none", "none", <<>>, {})]
  /\ callFaults = 0

Route(q) == IF q \in ComplexQuestions THEN "search" ELSE "history"

\* findById for the named session; calls that use it at the same time are peers.
OpenSession(c, q, s) ==
  LET peers == IF sessions[s].live THEN InProgress(s) ELSE {} IN
  /\ ask[c].pc = "idle"
  /\ ask' = [d \in Calls |->
       IF d = c THEN Ask(Route(q), q, IF sessions[s].live THEN s ELSE "none",
                         sessions[s].turns, peers)
       ELSE IF d \in peers THEN [ask[d] EXCEPT !.peers = @ \cup {c}] ELSE ask[d]]
  /\ UNCHANGED <<sessions, llmCache, semanticCache, callFaults>>

\* A user without a session gets a new one.
CreateSession(c, q) ==
  /\ ask[c].pc = "idle"
  /\ sessions' = [sessions EXCEPT ![c].live = TRUE]
  /\ ask' = [ask EXCEPT ![c] = Ask(Route(q), q, c, <<>>, {})]
  /\ UNCHANGED <<llmCache, semanticCache, callFaults>>

\* A question that follows up is told by its words.  The rewriting is the model's,
\* or if that is empty, the question.
IsFollowUp(history, words) == history /\ words
Rewrite(question, output) == IF output = "" THEN question ELSE output

SearchQuestions(question, history) ==
  UNION {IF IsFollowUp(history, words) THEN {Rewrite(question, output) : output \in Questions \cup {""}}
         ELSE {question} : words \in BOOLEAN}

\* AskUseCase: the history is the request's or else read once more; a follow-up
\* question is rewritten with it.
ReadHistory(c, given) ==
  LET s == ask[c].session
      history == given \/ (s # "none" /\ sessions[s].live /\ sessions[s].turns # <<>>)
  IN  /\ ask[c].pc = "history"
      /\ \E query \in SearchQuestions(ask[c].question, history) :
           ask' = [ask EXCEPT ![c] = [@ EXCEPT !.pc = "search", !.query = query]]
      /\ UNCHANGED <<sessions, llmCache, semanticCache, callFaults>>

\* The embedding that comes back from a search: of the first of the parts that the
\* model makes of a compound query, or averaged with that of a hypothetical answer;
\* else the query's own.
Embeddings(query) ==
  UNION {IF query \in CompoundQuestions \/ hyde THEN [like : Questions, own : {FALSE}]
         ELSE {Embedding(query, TRUE)} : hyde \in UseHyde}

\* HybridSearchUseCase finds chunks of any documents: they are ingested and
\* removed all the time.  The sources of the first round are sent to the client.
\* The rounds of a complex question have no use for the embedding.
SearchDocs(c) ==
  /\ ask[c].pc = "search"
  /\ \E D \in SUBSET SourceDocs,
        embedding \in IF ask[c].question \in ComplexQuestions THEN {NoEmbedding}
                     ELSE Embeddings(ask[c].query) :
       ask' = [ask EXCEPT ![c] = [@ EXCEPT
         !.docs = D, !.embedding = embedding,
         !.sources = IF ask[c].rounds = 0 THEN D ELSE ask[c].sources,
         !.pc = IF ask[c].question \in ComplexQuestions THEN "generate" ELSE "llmCache"]]
  /\ UNCHANGED <<sessions, llmCache, semanticCache, callFaults>>

\* Mutant: the key does not hold the documents.
QuestionKey(a) == <<a.question, {}>>
BuildCacheKey(a) == <<a.question, a.docs>>

\* An empty answer is falsy.
LlmCacheGet(c) ==
  LET hits == {e \in llmCache : e.key = BuildCacheKey(ask[c]) /\ e.answer.text # "empty"} IN
  /\ ask[c].pc = "llmCache"
  /\ IF hits = {} THEN AskStep(c, "llmCache", "semantic")
     ELSE \E e \in hits : Deliver(c, e.answer, "llmCache", "save")
  /\ UNCHANGED <<sessions, llmCache, semanticCache, callFaults>>

\* findSimilar: an empty answer is a hit, sent as a blank chunk.
FindSimilar(c) ==
  LET hits == {e \in semanticCache : e.embedding.like = ask[c].embedding.like} IN
  /\ ask[c].pc = "semantic"
  /\ IF hits = {} THEN AskStep(c, "semantic", "generate")
     ELSE \E e \in hits :
            Deliver(c, [e EXCEPT !.text = IF @ = "empty" THEN "blank" ELSE @], "semantic", "save")
  /\ UNCHANGED <<sessions, llmCache, semanticCache, callFaults>>

Simple(c) == ask[c].question \notin ComplexQuestions

\* The tokens of a simple answer are sent as they come.
StreamAnswer(c) ==
  /\ ask[c].pc = "generate" /\ Simple(c)
  /\ \E text \in {"full", "blank", "empty"} : Deliver(c, Answer(ask[c], text), "llm", "storeLlm")
  /\ UNCHANGED <<sessions, llmCache, semanticCache, callFaults>>

SetWithTtl(c) ==
  LET key == BuildCacheKey(ask[c]) IN
  /\ AskStep(c, "storeLlm", "storeSemantic")
  /\ llmCache' = {e \in llmCache : e.key # key} \cup {[key |-> key, answer |-> ask[c].answer]}
  /\ UNCHANGED <<sessions, semanticCache, callFaults>>

StoreSemantic(c) ==
  /\ AskStep(c, "storeSemantic", "save")
  /\ semanticCache' = semanticCache \cup {ask[c].answer}
  /\ UNCHANGED <<sessions, llmCache, callFaults>>

\* Mutant: the iterations are not limited.
IsSpent(iterations, spent) == spent
\* IterationBudget; spent: its tokens or its time.
IsExhausted(iterations, spent) == iterations >= MaxIterations \/ spent

\* AgenticAskUseCase: an answer is collected, and sent when the budget is exhausted.
Collect(c) ==
  /\ ask[c].pc = "generate" /\ ~Simple(c)
  /\ \E text \in {"full", "blank"}, spent \in BOOLEAN :
       ask' = [ask EXCEPT ![c] = [@ EXCEPT
         !.pc = IF IsExhausted(ask[c].rounds + 1, spent) THEN "save" ELSE "critique",
         !.rounds = ask[c].rounds + 1, !.from = "llm", !.answer = Answer(ask[c], text)]]
  /\ UNCHANGED <<sessions, llmCache, semanticCache, callFaults>>

-----------------------------------------------------------------------------
(* CritiqueGeneratorService, confidence in tenths                          *)

Critiques(confidences) ==
  [answered : BOOLEAN, missing : BOOLEAN, nextQuery : Questions \cup {""}, confidence : confidences]

\* The structured output follows the schema, or the call throws and the tokens of
\* the gateway are parsed.
StructuredCritiques == Critiques(0..10)

FallbackCritique == [answered |-> TRUE, missing |-> FALSE, nextQuery |-> "", confidence |-> 7]

\* The tokens are no JSON, or an object whose fields have any values.
ParseCritique(raw) == [raw EXCEPT !.confidence = IF @ \in 0..10 THEN @ ELSE 7]

StreamedCritiques == {FallbackCritique} \cup {ParseCritique(raw) : raw \in Critiques(-1..11)}

AllCritiques == StructuredCritiques \cup StreamedCritiques

IsSatisfied(critique) == critique.answered /\ critique.confidence >= ConfidenceThreshold
SatisfiedCritiques == {critique \in AllCritiques : IsSatisfied(critique)}

\* QueryRefinerService: a question with what is missing is like any other.
Refine(question, critique) ==
  IF critique.nextQuery # "" THEN {critique.nextQuery}
  ELSE IF critique.missing THEN Questions ELSE {question}

\* The queries by which an answer may be improved.
RefinedQueries ==
  [question \in Questions |->
     UNION {Refine(question, critique) :
              critique \in AllCritiques \ SatisfiedCritiques}]

\* The answer is sent, or the next round searches with a refined query.
GenerateCritique(c) ==
  /\ \/ /\ AskStep(c, "critique", "save")
        /\ SatisfiedCritiques # {}
     \/ /\ ask[c].pc = "critique"
        /\ \E query \in RefinedQueries[ask[c].question] :
             ask' = [ask EXCEPT ![c] = [@ EXCEPT !.pc = "search", !.query = query]]
  /\ UNCHANGED <<sessions, llmCache, semanticCache, callFaults>>

-----------------------------------------------------------------------------
\* ConversationTurn: no blank content.
ValidTurn(text) == text = "full"

AppendTurn(turns, c) == Append(turns, c)

\* QaController: the copy with the turn replaces the turns, if the session is
\* still there; a blank answer makes appendTurn throw; an empty one is no turn.
UpdateSession(c) ==
  LET s == ask[c].session
      text == ask[c].answer.text
  IN  /\ ask[c].pc = "save"
      /\ ask' = [ask EXCEPT ![c] = IF s # "none" /\ text # "empty" /\ ~ValidTurn(text)
                                  THEN Broken ELSE Done(@)]
      /\ sessions' = IF s # "none" /\ ValidTurn(text) /\ sessions[s].live
                     THEN [sessions EXCEPT ![s].turns = AppendTurn(ask[c].copy, c)] ELSE sessions
      /\ UNCHANGED <<llmCache, semanticCache, callFaults>>

\* Whatever is awaited rejects, or the process dies: the request ends there.
AskBreaks(c) ==
  /\ ask[c].pc \notin Ended
  /\ CallFault
  /\ ask' = [ask EXCEPT ![c] = Broken]
  /\ UNCHANGED <<sessions, llmCache, semanticCache>>

\* DELETE rag/sessions/s, or its ttl index.
DeleteSession(s) ==
  /\ sessions[s].live
  /\ sessions' = [sessions EXCEPT ![s] = [live |-> FALSE, turns |-> <<>>]]
  /\ UNCHANGED <<llmCache, semanticCache, ask, callFaults>>

ExpireCaches ==
  /\ \/ \E e \in llmCache : llmCache' = llmCache \ {e} /\ UNCHANGED semanticCache
     \/ \E e \in semanticCache : semanticCache' = semanticCache \ {e} /\ UNCHANGED llmCache
  /\ UNCHANGED <<sessions, ask, callFaults>>

AskNext ==
  \/ \E c \in Calls :
       \/ \E q \in Questions :
            \/ \E s \in SessionIds \ {c} : OpenSession(c, q, s)
            \/ CreateSession(c, q)
       \/ \E given \in BOOLEAN : ReadHistory(c, given)
       \/ SearchDocs(c) \/ LlmCacheGet(c) \/ FindSimilar(c)
       \/ StreamAnswer(c) \/ SetWithTtl(c) \/ StoreSemantic(c)
       \/ Collect(c) \/ GenerateCritique(c)
       \/ UpdateSession(c) \/ AskBreaks(c)
  \/ \E s \in SessionIds : DeleteSession(s)
  \/ ExpireCaches

AskSpec == AskInit /\ [][AskNext]_askVars

-----------------------------------------------------------------------------
AskTypeOK ==
  /\ \A s \in SessionIds : sessions[s].live \in BOOLEAN /\ ToSet(sessions[s].turns) \subseteq Calls
  /\ \A c \in Calls :
       /\ ask[c].pc \in Ended \cup {"history", "search", "llmCache", "semantic", "generate",
                                    "storeLlm", "storeSemantic", "critique", "save"}
       /\ ask[c].session \in SessionIds \cup {"none"}
       /\ ask[c].rounds \in 0..MaxIterations

\* The turn of an ask that was answered to the end is in its session as long as
\* the session lives; where others of the session were open at the same time, one
\* of them at least is.
TurnsKept ==
  \A c \in Calls :
    LET s == ask[c].session IN
    (ask[c].pc = "done" /\ s # "none" /\ ask[c].answer.text = "full" /\ sessions[s].live) =>
      \E d \in ask[c].peers \cup {c} : d \in ToSet(sessions[s].turns)

\* An answer was made for the question asked and from the documents announced
\* with it; in a later round of a complex question, from any documents.  One from
\* the semantic cache, of any documents, was made for this query if both searches had
\* the embeddings of their own queries; where a query was split or averaged, all that
\* is kept is that the two embeddings are alike, and a part answers for the whole.
AnswerFitsSources ==
  \A c \in Calls :
    LET a == ask[c].answer IN
    (a # NoAnswer /\ ask[c].pc \notin Ended) =>
      IF ask[c].from = "semantic"
      THEN IF a.embedding.own /\ ask[c].embedding.own THEN a.query = ask[c].query
           ELSE a.embedding.like = ask[c].embedding.like
      ELSE a.question = ask[c].question /\ (ask[c].rounds <= 1 => a.docs = ask[c].sources)

\* A conversation keeps its turns in order, and an answer cites only what it was given.
AnswersKept == TurnsKept /\ AnswerFitsSources

=============================================================================
