------------------------------ MODULE Services ------------------------------
(***************************************************************************)
(* The request-response services side by side.  They keep no state in      *)
(* common, so that a behaviour of one has all that the others can do to it:*)
(* a behaviour of this module is that of the service chosen at the start.  *)
(***************************************************************************)
EXTENDS LlmGateway, PromptTemplates, KnowledgeIngest, QuestionAnswering,
        HybridSearch, DocumentSplit, PaymentReconciliation, AdminSignup, AdminAccess,
        Accounts

VARIABLE service   \* the service of this behaviour

llmState       == <<now, breaker, stream, costLog, failures>>
promptState    == <<templates, inserted, prompt, crossed>>
ingestState    == <<document, chunks, job, ingest, removal, removedAmid, stalled>>
askState       == <<sessions, llmCache, semanticCache, ask>>
searchState    == <<search>>
reconcileState == <<clock, due, pg, settled, run, reported, lastTo, late, gaps>>
signupState    == <<users, signup, mailJob, mails, answered>>
accessState    == <<admins, tokens, access>>
splitState     == <<split>>
accountState   == <<accounts, live, drawn, told, refused, login>>

servicesVars == <<service, llmState, promptState, ingestState, askState, searchState, splitState,
                  reconcileState, signupState, accessState, accountState, callFaults>>

ServicesInit ==
  /\ service \in {"llm", "prompt", "ingest", "ask", "search", "split", "reconcile", "signup",
                 "access", "account"}
  /\ LlmInit /\ PromptInit /\ IngestInit /\ AskInit /\ ReconcileInit /\ SignupInit
  /\ AccessInit /\ AccountsInit
  /\ IF service = "search" THEN SearchInit ELSE search = Search("done", 0)
  /\ IF service = "split" THEN SplitInit ELSE split = Split("placed", NoText, <<>>, <<>>, <<>>)

\* The other services stand still; the two that make no faults leave their count alone.
OthersStay(s) ==
  /\ UNCHANGED service
  /\ IF s = "llm" THEN TRUE ELSE UNCHANGED llmState
  /\ IF s = "prompt" THEN TRUE ELSE UNCHANGED promptState
  /\ IF s = "ingest" THEN TRUE ELSE UNCHANGED ingestState
  /\ IF s = "ask" THEN TRUE ELSE UNCHANGED askState
  /\ IF s = "search" THEN TRUE ELSE UNCHANGED searchState
  /\ IF s = "split" THEN TRUE ELSE UNCHANGED splitState
  /\ IF s = "reconcile" THEN TRUE ELSE UNCHANGED reconcileState
  /\ IF s = "signup" THEN TRUE ELSE UNCHANGED signupState
  /\ IF s = "access" THEN TRUE ELSE UNCHANGED accessState
  /\ IF s = "account" THEN TRUE ELSE UNCHANGED accountState
  /\ IF s \in {"search", "split"} THEN UNCHANGED callFaults ELSE TRUE

ServicesNext ==
  \/ service = "llm" /\ LlmNext /\ OthersStay("llm")
  \/ service = "prompt" /\ PromptNext /\ OthersStay("prompt")
  \/ service = "ingest" /\ IngestNext /\ OthersStay("ingest")
  \/ service = "ask" /\ AskNext /\ OthersStay("ask")
  \/ service = "search" /\ SearchNext /\ OthersStay("search")
  \/ service = "split" /\ SplitNext /\ OthersStay("split")
  \/ service = "reconcile" /\ ReconcileNext /\ OthersStay("reconcile")
  \/ service = "signup" /\ SignupNext /\ OthersStay("signup")
  \/ service = "access" /\ AccessNext /\ OthersStay("access")
  \/ service = "account" /\ AccountsNext /\ OthersStay("account")

ServicesSpec == ServicesInit /\ [][ServicesNext]_servicesVars

-----------------------------------------------------------------------------
\* The types of the service chosen: every request is at a point of its handler,
\* and what is stored has the shape of its schema.
ServicesTypeOK ==
  CASE service = "llm"       -> LlmTypeOK
    [] service = "prompt"    -> PromptTypeOK
    [] service = "ingest"    -> IngestTypeOK
    [] service = "ask"       -> AskTypeOK
    [] service = "search"    -> SearchTypeOK
    [] service = "reconcile" -> ReconcileTypeOK
    [] service = "signup"    -> SignupTypeOK
    [] service = "access"    -> AccessTypeOK
    [] service = "account"   -> AccountsTypeOK
    [] service = "split"     -> SplitTypeOK

\* The lists of the search, the sources of the prompt, and the chunks of a document and
\* their places, are what their definitions say.
RetrievalIsAsDefined ==
  /\ FusedByReciprocalRanks /\ NeighboursFollowHits /\ SourcesOfPrompt
  /\ SplitIsWhole /\ OffsetsNotLate

=============================================================================
