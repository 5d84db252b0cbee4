----------------------------- MODULE AdminAccess ----------------------------
(***************************************************************************)
(* What administrators do once they have signed up: activation, login,     *)
(* change of password and removal in apps/admin-server, and the tokens     *)
(* that GatewayAuthGuard accepts.  The steps of a signup are in            *)
(* AdminSignup; here it is one action.                                     *)
(***************************************************************************)
EXTENDS ServiceCalls

CONSTANTS
  Admins,       \* the rows ever inserted; also the person who signed up for it
  AdminEmail,   \* AdminEmail[a]: the email of row a
  Anybody       \* the caller that a guard admits by other means than an admin's token

ASSUME AdminsAssumption == Anybody \notin Admins

\* A password is known by the person who chose it.
VARIABLES
  admins,   \* admins[a]: the row
  tokens,   \* tokens issued at a login and not expired: for which row, to whom
  access    \* access[c]: the request of call c

accessVars == <<admins, tokens, access, callFaults>>

\* activatedAt is null in the code both before the activation and after its end.
Admin(stored, password, activatedAt) ==
  [stored |-> stored, password |-> password, activatedAt |-> activatedAt]
NoAdmin == Admin(FALSE, Anybody, "never")
Token(admin, person) == [admin |-> admin, person |-> person]
NoToken == Token(Anybody, Anybody)
Access(pc, admin, token) == [pc |-> pc, admin |-> admin, token |-> token]
NoAccess == Access("idle", Anybody, NoToken)

SetAccess(c, record) == access' = [access EXCEPT ![c] = record]
RowsOf(email) == {a \in Admins : admins[a].stored /\ AdminEmail[a] = email}

AccessInit ==
  /\ admins = [a \in Admins |-> NoAdmin]
  /\ tokens = {}
  /\ access = [c \in Calls |-> NoAccess]
  /\ callFaults = 0

SignUp(a) ==
  /\ admins[a] = NoAdmin /\ RowsOf(AdminEmail[a]) = {}
  /\ admins' = [admins EXCEPT ![a] = Admin(TRUE, a, "never")]
  /\ UNCHANGED <<tokens, access, callFaults>>

\* Mutant: signIn without the check of activatedAt.
MaySignInEarly(row, person) == row.password = person

\* What signIn asks of the copy of a row: the right password and an activation.
MaySignIn(row, person) == row.password = person /\ row.activatedAt = "on"

\* signIn reads the row and decides on that copy; bcrypt takes an await, after
\* which the row may be another.
SignIn(c, a, person) ==
  /\ access[c].pc = "idle" /\ admins[a].stored /\ MaySignIn(admins[a], person)
  /\ SetAccess(c, Access("sign", a, Token(a, person)))
  /\ UNCHANGED <<admins, tokens, callFaults>>

AdminLogin(c) ==
  /\ access[c].pc = "sign"
  /\ tokens' = tokens \cup {access[c].token}
  /\ SetAccess(c, NoAccess)
  /\ UNCHANGED <<admins, callFaults>>

\* The guard accepts a live token of an administrator, or an API key, a session or
\* the token of a game account, which name no administrator.  It reads nothing that
\* the handlers write, so that it is part of their first step.
Admitted(token) == token \in tokens \cup {NoToken}

SetActivatedAt(a, activatedAt) ==
  admins' = IF admins[a].stored /\ "on" \in {activatedAt, admins[a].activatedAt}
            THEN [admins EXCEPT ![a].activatedAt = activatedAt] ELSE admins

\* By any caller admitted.  What activate and deactivate read after the update is
\* only answered.
ActivateAdminUser(a, activatedAt) ==
  /\ Admitted(NoToken) /\ SetActivatedAt(a, activatedAt)
  /\ UNCHANGED <<tokens, access, callFaults>>

\* Mutant: the executor is not compared.
IsAnyExecutor(token, a) == token # NoToken

\* The executor's email is that of the request.
IsExecutor(token, a) == token # NoToken /\ AdminEmail[token.admin] = AdminEmail[a]

\* changePassword: findUserByEmail, the comparison, and the hash in another await.
ChangePassword(c, a, token) ==
  /\ access[c].pc = "idle" /\ Admitted(token) /\ admins[a].stored /\ IsExecutor(token, a)
  /\ SetAccess(c, Access("hash", a, token))
  /\ UNCHANGED <<admins, tokens, callFaults>>

\* By email: it finds the row that has the email by now, if any.
UpdatePasswordByEmail(c) ==
  LET call == access[c] IN
  /\ call.pc = "hash"
  /\ admins' = [a \in Admins |-> IF a \in RowsOf(AdminEmail[call.admin])
                                 THEN [admins[a] EXCEPT !.password = call.token.person]
                                 ELSE admins[a]]
  /\ SetAccess(c, NoAccess)
  /\ UNCHANGED <<tokens, callFaults>>

\* By any caller admitted.  removeAdminUser: findUserById, and the delete in another await.
FindRemoved(c, a) ==
  /\ access[c].pc = "idle" /\ Admitted(NoToken) /\ admins[a].stored
  /\ SetAccess(c, Access("delete", a, NoToken))
  /\ UNCHANGED <<admins, tokens, callFaults>>

Removed(row) == [row EXCEPT !.stored = FALSE]

SoftDeleteById(c) ==
  /\ access[c].pc = "delete"
  /\ admins' = [admins EXCEPT ![access[c].admin] = Removed(@)]
  /\ SetAccess(c, NoAccess)
  /\ UNCHANGED <<tokens, callFaults>>

\* A rejected call, or a request that the handler refuses.
AccessStops(c) ==
  /\ access[c].pc # "idle" /\ SetAccess(c, NoAccess)
  /\ UNCHANGED <<admins, tokens, callFaults>>

TokenExpires(token) ==
  /\ tokens' = tokens \ {token}
  /\ UNCHANGED <<admins, access, callFaults>>

AccessNext ==
  \/ \E a \in Admins : \/ SignUp(a)
                      \/ \E activatedAt \in {"on", "off"} : ActivateAdminUser(a, activatedAt)
  \/ \E c \in Calls : \/ AdminLogin(c) \/ UpdatePasswordByEmail(c)
                      \/ SoftDeleteById(c) \/ AccessStops(c)
                      \/ \E a \in Admins : \/ \E person \in Admins : SignIn(c, a, person)
                                           \/ \E token \in tokens : ChangePassword(c, a, token)
                                           \/ FindRemoved(c, a)
  \/ \E token \in tokens : TokenExpires(token)

AccessSpec == AccessInit /\ [][AccessNext]_accessVars

-----------------------------------------------------------------------------
Tokens == [admin : Admins, person : Admins]
AdminRows == [stored : BOOLEAN, password : Admins \cup {Anybody},
              activatedAt : {"never", "on", "off"}]

AccessTypeOK ==
  /\ admins \in [Admins -> AdminRows] /\ tokens \subseteq Tokens
  /\ access \in [Calls -> [pc : {"idle", "sign", "hash", "delete"},
                           admin : Admins \cup {Anybody}, token : Tokens \cup {NoToken}]]

\* Whose password row a may have: its owner's, or that of the owner of an earlier row
\* with its email, whose token may outlive that row.
Former(a, b) == AdminEmail[b] = AdminEmail[a] /\ admins[b] # NoAdmin /\ ~admins[b].stored
Chooses(person, a) == person = a \/ Former(a, person)

\* However logins, changes of password and removals interleave, the password of a
\* row is its owner's or, after a removal and a second signup with the same email,
\* the former owner's; a token is of one of these, and of a row that has been activated.
CredentialsAreOwners ==
  /\ \A a \in Admins : admins[a].stored => Chooses(admins[a].password, a)
  /\ \A t \in tokens : Chooses(t.person, t.admin) /\ admins[t.admin].activatedAt # "never"

=============================================================================
