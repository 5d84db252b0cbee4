--------------------------- MODULE PromptTemplates --------------------------
(***************************************************************************)
(* The versions of one prompt name in apps/ai-service and their requests   *)
(* through the gateway: administrators keep the shared versions, users     *)
(* their own.  Creation reads the versions and inserts the next, activation*)
(* switches the others off and then one on, each in several awaits.        *)
(***************************************************************************)
EXTENDS ServiceCalls, FiniteSetsExt

CONSTANTS
  Users,        \* users with templates of their own
  MaxSlots,     \* MAX_USER_PROMPT_SLOTS
  MaxTemplates  \* bound: the templates ever inserted

ASSUME PromptAssumption == "shared" \notin Users /\ MaxSlots \in Nat /\ MaxTemplates \in Nat

VARIABLES
  templates,  \* the collection prompt_templates
  inserted,   \* the number of templates ever inserted, and the last _id
  prompt,     \* prompt[c]: the request of call c and what it has read
  crossed     \* history: owners of a template that a request of another activated,
              \* or whose activations overlapped

promptVars == <<templates, inserted, prompt, crossed, callFaults>>

\* userId; "shared" stands for a document or a request without it.
Owners == Users \cup {"shared"}
Versions == 1..(MaxTemplates + 1)

Template(id, owner, version, overlapped) ==
  [id |-> id, owner |-> owner, version |-> version, active |-> FALSE,
   overlapped |-> overlapped]

Request(op, owner, version) == [op |-> op, owner |-> owner, version |-> version, then |-> FALSE]

\* The number of a version that a request names: any that may exist.
Named(op) == IF op \in {"activate", "delete"} THEN 1..MaxTemplates ELSE {0}

\* PromptProxyController: for the shared prompt or a user's.
AdminRequests(op) == {Request(op, o, v) : o \in Owners, v \in Named(op)}

\* MyPromptProxyController: for the user's own; saveMine also activates what it
\* has created.
MyRequests(op) ==
  {[Request(op, u, v) EXCEPT !.then = b] :
     u \in Users, v \in Named(op), b \in {then \in BOOLEAN : then => op = "create"}}

At(pc, r) == [pc |-> pc, req |-> r, next |-> 0, target |-> 0, overlapped |-> FALSE]
Idle == At("idle", Request("none", "shared", 0))
Ends(c) == prompt' = [prompt EXCEPT ![c] = Idle]

FindAllByName(o) == {t \in templates : t.owner = o}
\* Without a userId the query has no condition on it.
FindByNameAndVersion(v, o) ==
  {t \in templates : t.version = v /\ (o = "shared" \/ t.owner = o)}
DeactivateAll(o) == {IF t.owner = o THEN [t EXCEPT !.active = FALSE] ELSE t : t \in templates}

\* Mutant: the number of templates is taken for the last version.
NextVersionByCount(found) == Cardinality(found) + 1
NextVersion(found) == IF found = {} THEN 1 ELSE Max({t.version : t \in found}) + 1

PromptInit ==
  /\ templates = {}
  /\ inserted = 0
  /\ prompt = [c \in Calls |-> Idle]
  /\ crossed = {}
  /\ callFaults = 0

\* PromptController: the requests that call c may begin with.
Receives(c, op) == IF prompt[c].pc = "idle" THEN AdminRequests(op) \cup MyRequests(op) ELSE {}

\* CreatePromptUseCase: the slots of a user, the next version.
ListVersions(c, r) ==
  LET found == FindAllByName(r.owner) IN
  /\ inserted < MaxTemplates
  /\ r.owner # "shared" => Cardinality(found) < MaxSlots
  /\ prompt' = [prompt EXCEPT ![c] = [At("persist", r) EXCEPT !.next = NextVersion(found)]]
  /\ UNCHANGED <<templates, inserted, crossed, callFaults>>

Creates(c, o) == prompt[c].pc = "persist" /\ prompt[c].req.owner = o

\* persist, and where saveMine asks for it the activation request after it.
\* A creation that is between its two steps is marked as overlapped.
PersistTemplate(c) ==
  LET r == prompt[c].req
      peers == {d \in Calls \ {c} : Creates(d, r.owner)}
  IN  /\ prompt[c].pc = "persist"
      /\ inserted < MaxTemplates
      /\ inserted' = inserted + 1
      /\ templates' = templates \cup {Template(inserted + 1, r.owner, prompt[c].next,
                                               peers # {} \/ prompt[c].overlapped)}
      /\ prompt' = [d \in Calls |->
           IF d \in peers THEN [prompt[d] EXCEPT !.overlapped = TRUE]
           ELSE IF d # c THEN prompt[d]
           ELSE IF r.then THEN At("find", Request("activate", r.owner, prompt[c].next))
           ELSE Idle]
      /\ UNCHANGED <<crossed, callFaults>>

\* ActivatePromptUseCase looks for the version of any owner; findOne takes any.
\* Without one, or with another user's, the request is refused.
FindTarget(c, r) ==
  /\ LET found == FindByNameAndVersion(r.version, "shared") IN
     IF found = {} THEN Ends(c)
     ELSE \E t \in found :
            IF {r.owner, t.owner} \subseteq Users /\ t.owner # r.owner THEN Ends(c)
            ELSE prompt' = [prompt EXCEPT ![c] = [At("switchOff", [r EXCEPT !.version = 0]) EXCEPT !.target = t.id]]
  /\ UNCHANGED <<templates, inserted, crossed, callFaults>>

\* Mutant: the versions that are active stay so.
SwitchOffNothing(c) ==
  /\ prompt[c].pc = "switchOff"
  /\ prompt' = [prompt EXCEPT ![c].pc = "switchOn"]
  /\ UNCHANGED <<templates, inserted, crossed, callFaults>>

SwitchOff(c) ==
  LET o == prompt[c].req.owner IN
  /\ prompt[c].pc = "switchOff"
  /\ templates' = DeactivateAll(o)
  /\ prompt' = [prompt EXCEPT ![c].pc = "switchOn"]
  /\ crossed' = IF \E d \in Calls : prompt[d].pc = "switchOn" /\ prompt[d].req.owner = o
                THEN crossed \cup {o} ELSE crossed
  /\ UNCHANGED <<inserted, callFaults>>

\* update: by _id, without effect if the document is gone.
SwitchOn(c) ==
  LET hit == {t \in templates : t.id = prompt[c].target} IN
  /\ prompt[c].pc = "switchOn"
  /\ templates' = (templates \ hit) \cup {[t EXCEPT !.active = TRUE] : t \in hit}
  /\ crossed' = crossed \cup {t.owner : t \in {t \in hit : t.owner # prompt[c].req.owner}}
  /\ Ends(c)
  /\ UNCHANGED <<inserted, callFaults>>

DeactivateActive(r) ==
  /\ templates' = DeactivateAll(r.owner)
  /\ UNCHANGED <<inserted, prompt, crossed, callFaults>>

\* deleteOne takes any of the documents found.
DeleteVersion(r) ==
  /\ \E t \in FindByNameAndVersion(r.version, r.owner) : templates' = templates \ {t}
  /\ UNCHANGED <<inserted, prompt, crossed, callFaults>>

\* A store call rejects or the process dies: the request ends where it is.
PromptStops(c) ==
  /\ prompt[c].pc # "idle"
  /\ CallFault
  /\ Ends(c)
  /\ UNCHANGED <<templates, inserted, crossed>>

PromptNext ==
  \E c \in Calls :
    \/ \E r \in Receives(c, "create") : ListVersions(c, r)
    \/ \E r \in Receives(c, "activate") : FindTarget(c, r)
    \/ prompt[c].pc = "find" /\ FindTarget(c, prompt[c].req)
    \/ \E r \in Receives(c, "deactivate") : DeactivateActive(r)
    \/ \E r \in Receives(c, "delete") : DeleteVersion(r)
    \/ PersistTemplate(c) \/ SwitchOff(c) \/ SwitchOn(c) \/ PromptStops(c)

PromptSpec == PromptInit /\ [][PromptNext]_promptVars

-----------------------------------------------------------------------------
PromptTypeOK ==
  /\ templates \subseteq [id : 1..inserted, owner : Owners, version : Versions,
                          active : BOOLEAN, overlapped : BOOLEAN]
  /\ inserted \in 0..MaxTemplates
  /\ crossed \subseteq Owners
  /\ \A c \in Calls :
       /\ prompt[c].pc \in {"idle", "persist", "find", "switchOff", "switchOn"}
       /\ prompt[c].target \in 0..inserted

\* An owner has two versions with one number only if their creations overlapped,
\* whatever is deleted in between.
VersionsUnique ==
  \A s, t \in templates :
    (s # t /\ s.owner = t.owner /\ s.version = t.version) => (s.overlapped \/ t.overlapped)

\* An owner has two active versions only if two activations overlapped, or a
\* user's activation took the shared version of that number for the user's own.
OneActivePerOwner ==
  \A s, t \in templates :
    (s # t /\ s.owner = t.owner /\ s.active /\ t.active) => s.owner \in crossed

=============================================================================
