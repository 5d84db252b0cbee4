------------------------------ MODULE Accounts ------------------------------
(***************************************************************************)
(* Registration and login of players, from the gateway through             *)
(* apps/identity to the table game_account and the sessions in Redis.  A   *)
(* device that is not known is registered by its first login.              *)
(***************************************************************************)
EXTENDS ServiceCalls

CONSTANTS
  Devices,   \* uuids that clients log in with by themselves
  Randoms    \* uuids that randomUUID may draw, each once and none of a device

ASSUME AccountsAssumption == Devices \cap Randoms = {} /\ "none" \notin Devices \cup Randoms

VARIABLES
  accounts,   \* game_account: the uuid of each row, by id
  live,       \* ids whose session has not expired
  drawn,      \* the uuids that randomUUID has drawn
  told,       \* answers that clients have got: uuid and id
  refused,    \* uuids whose login was answered with an error by the unique index
  login       \* login[c]: the request of call c

accountsVars == <<accounts, live, drawn, told, refused, login, callFaults>>

Uuids == Devices \cup Randoms

LoginAt(pc, uuid, id) == [pc |-> pc, uuid |-> uuid, id |-> id]
NoLogin == LoginAt("idle", "none", 0)
SetLogin(c, record) == login' = [login EXCEPT ![c] = record]

FindByUuid(uuid) == {id \in DOMAIN accounts : accounts[id] = uuid}

AccountsInit ==
  /\ accounts = <<>>
  /\ live = {}
  /\ drawn = {}
  /\ told = {}
  /\ refused = {}
  /\ login = [c \in Calls |-> NoLogin]
  /\ callFaults = 0

\* LoginUseCase: the account of the uuid, of a device or of a registration that
\* the client was told, or a new one.
Login(c, uuid) ==
  LET found == FindByUuid(uuid) IN
  /\ login[c].pc = "idle"
  /\ uuid \in Devices \cup {answer.uuid : answer \in told}
  /\ IF found = {} THEN SetLogin(c, LoginAt("persist", uuid, 0))
     ELSE \E id \in found : SetLogin(c, LoginAt("session", uuid, id))
  /\ UNCHANGED <<accounts, live, drawn, told, refused, callFaults>>

\* RegisterUseCase: a new account whatever the nickname.
Register(c) ==
  /\ login[c].pc = "idle"
  /\ \E uuid \in Randoms \ drawn :
       /\ drawn' = drawn \cup {uuid}
       /\ SetLogin(c, LoginAt("persist", uuid, 0))
  /\ UNCHANGED <<accounts, live, told, refused, callFaults>>

\* Mutant: the index of uuid is not unique.
MayInsertAlways(uuid) == TRUE

\* IDX_UUID.
MayInsert(uuid) == FindByUuid(uuid) = {}

\* persist inserts a row, or rejects; the gateway passes the error on.
PersistAccount(c) ==
  LET uuid == login[c].uuid IN
  /\ login[c].pc = "persist"
  /\ IF MayInsert(uuid)
     THEN /\ accounts' = Append(accounts, uuid)
          /\ SetLogin(c, LoginAt("session", uuid, Len(accounts) + 1))
          /\ UNCHANGED refused
     ELSE /\ refused' = refused \cup {uuid}
          /\ SetLogin(c, NoLogin)
          /\ UNCHANGED accounts
  /\ UNCHANGED <<live, drawn, told, callFaults>>

\* The session takes the place of the last one of the account.
SetSession(c) ==
  /\ login[c].pc = "session"
  /\ live' = live \cup {login[c].id}
  /\ SetLogin(c, [login[c] EXCEPT !.pc = "answer"])
  /\ UNCHANGED <<accounts, drawn, told, refused, callFaults>>

\* The gateway signs a token for the account and answers.
AnswerLogin(c) ==
  /\ login[c].pc = "answer"
  /\ told' = told \cup {[uuid |-> login[c].uuid, id |-> login[c].id]}
  /\ SetLogin(c, NoLogin)
  /\ UNCHANGED <<accounts, live, drawn, refused, callFaults>>

\* A rejected call, a lost answer or the end of a process.
LoginStops(c) ==
  /\ login[c].pc # "idle"
  /\ CallFault
  /\ SetLogin(c, NoLogin)
  /\ UNCHANGED <<accounts, live, drawn, told, refused>>

SessionExpires(id) ==
  /\ live' = live \ {id}
  /\ UNCHANGED <<accounts, drawn, told, refused, login, callFaults>>

AccountsNext ==
  \/ \E c \in Calls : \/ \E uuid \in Uuids : Login(c, uuid)
                      \/ Register(c) \/ PersistAccount(c) \/ SetSession(c)
                      \/ AnswerLogin(c) \/ LoginStops(c)
  \/ \E id \in live : SessionExpires(id)

AccountsSpec == AccountsInit /\ [][AccountsNext]_accountsVars

-----------------------------------------------------------------------------
AccountsTypeOK ==
  /\ accounts \in Seq(Uuids)
  /\ live \subseteq DOMAIN accounts /\ drawn \subseteq Randoms
  /\ told \subseteq [uuid : Uuids, id : DOMAIN accounts] /\ refused \subseteq Uuids
  /\ login \in [Calls -> [pc : {"idle", "persist", "session", "answer"},
                          uuid : Uuids \cup {"none"}, id : 0..Len(accounts)]]

\* The accounts that nobody can log in to: their uuid is of no device and was never told,
\* and no request that will tell it is under way.
Unreachable ==
  {id \in DOMAIN accounts :
     /\ accounts[id] \notin Devices \cup {answer.uuid : answer \in told}
     /\ \A c \in Calls : login[c].id # id}

\* Whoever was told an account, by a registration or any login of the uuid, is led to
\* that account by the next login; a login that was answered with an error, because
\* another one had inserted the row in between, can be repeated; and an account that
\* nobody can log in to, since its uuid was never told, is left by a fault only.
AccountsAreReached ==
  /\ \A answer \in told : FindByUuid(answer.uuid) = {answer.id}
  /\ \A uuid \in refused : FindByUuid(uuid) # {}
  /\ Cardinality(Unreachable) <= callFaults

=============================================================================
