---------------------------- MODULE HomeDirectory ---------------------------
(***************************************************************************)
(* The Worker's directory of homes in D1 (schema.sql): homes, users, Alexa *)
(* accounts and connectors, with every request that changes them - the     *)
(* admin API (provisioning.ts, linking.ts), connector registration         *)
(* (connectors.ts, db.ts), the routing and auto-linking of a play request  *)
(* (db.ts, alexa.ts) and the origin update of the stream proxy (stream.ts).*)
(*                                                                         *)
(* D1 runs one statement at a time and gives no transaction around a       *)
(* request: a step of the module is one statement, and the statements of   *)
(* the requests in flight interleave.  D1 enforces the schema's keys.      *)
(***************************************************************************)
EXTENDS FiniteSets

CONSTANTS
    Tenants, Homes,
    Users,        \* user ids
    AlexaUsers,   \* Alexa user ids; auto-linking uses one as a user id as well
    Connectors,
    Origins,      \* origin base URLs
    Requests,     \* the requests that can be in flight at a time
    D1Fails,      \* whether a statement may fail for reasons of its own
    None

ASSUME AlexaUsersAreUserIds == AlexaUsers \subseteq Users
ASSUME D1FailsIsBoolean == D1Fails \in BOOLEAN
ASSUME NoneIsNoValue ==
    None \notin Tenants \cup Homes \cup Users \cup Connectors \cup Origins

VARIABLES
    homes,       \* tenant, origin_base_url, whether a queue is bound, connector_id
    users,       \* tenant of each user
    accounts,    \* alexa_accounts: user, tenant and home of each Alexa user
    connectors,  \* home_connectors: tenant and home each connector is bound to
    op,          \* what each request in flight asks for
    at,          \* the statement it runs next
    seen,        \* what it has read and still goes by
    overtaken    \* history: an owner it goes by changed under it

tables == <<homes, users, accounts, connectors>>
vars == <<tables, op, at, seen, overtaken>>

HomeRows == [tenant : Tenants, origin : Origins, queue : BOOLEAN,
             connector : Connectors \cup {None}]
AccountRows == [user : Users, tenant : Tenants, home : Homes]
ConnectorRows == [tenant : Tenants, home : Homes]
Places == [tenant : Tenants, home : Homes]

\* The requests: the fields of their bodies after validation.
HomeOps == [kind : {"home"}, tenant : Tenants, home : Homes,
            origin : Origins \cup {None}, queue : BOOLEAN]
UserOps == [kind : {"user"}, tenant : Tenants, user : Users]
LinkOps == [kind : {"link"}, alexa : AlexaUsers, user : Users,
            tenant : Tenants, home : Homes]
BootstrapOps == [kind : {"bootstrap"}, tenant : Tenants, home : Homes,
                 connector : Connectors]
RegisterOps == [kind : {"register"}, tenant : Tenants, home : Homes,
                connector : Connectors, origin : Origins \cup {None}, queue : BOOLEAN]
PlayOps == [kind : {"play"}, alexa : AlexaUsers]
StreamOps == [kind : {"stream"}, tenant : Tenants, home : Homes, origin : Origins]
Ops == HomeOps \cup UserOps \cup LinkOps \cup BootstrapOps \cup RegisterOps
         \cup PlayOps \cup StreamOps

\* A row, a request and what one has read differ from None.
ASSUME NoneIsNoRow ==
    None \notin HomeRows \cup AccountRows \cup ConnectorRows \cup Places \cup Ops

Labels == {"idle", "read", "write", "readHome", "readConnector", "writeConnector",
           "writeHome", "readAccount", "countProvisioned", "selectProvisioned",
           "countActive", "selectActive", "linkUser", "linkAccount"}

TypeOK ==
    /\ homes \in [Homes -> HomeRows \cup {None}]
    /\ users \in [Users -> Tenants \cup {None}]
    /\ accounts \in [AlexaUsers -> AccountRows \cup {None}]
    /\ connectors \in [Connectors -> ConnectorRows \cup {None}]
    /\ op \in [Requests -> Ops \cup {None}]
    /\ at \in [Requests -> Labels]
    /\ seen \in [Requests -> HomeRows \cup AccountRows \cup Places \cup {None}]
    /\ overtaken \in [Requests -> BOOLEAN]

Init ==
    /\ homes = [h \in Homes |-> None]
    /\ users = [u \in Users |-> None]
    /\ accounts = [a \in AlexaUsers |-> None]
    /\ connectors = [c \in Connectors |-> None]
    /\ op = [r \in Requests |-> None]
    /\ at = [r \in Requests |-> "idle"]
    /\ seen = [r \in Requests |-> None]
    /\ overtaken = [r \in Requests |-> FALSE]

\* Request r asks for o; its first statement is l.
Begin(r, o, l) ==
    /\ at[r] = "idle"
    /\ op' = [op EXCEPT ![r] = o]
    /\ at' = [at EXCEPT ![r] = l]
    /\ UNCHANGED <<tables, seen>>

At(r, kind, l) == at[r] = l /\ op[r].kind = kind

\* On to statement l, remembering s.
Go(r, l, s) ==
    /\ at' = [at EXCEPT ![r] = l]
    /\ seen' = [seen EXCEPT ![r] = s]
    /\ UNCHANGED op

\* The request is over: answered, refused with an error, or a failed statement.
End(r) ==
    /\ op' = [op EXCEPT ![r] = None]
    /\ at' = [at EXCEPT ![r] = "idle"]
    /\ seen' = [seen EXCEPT ![r] = None]

\* What a body names wins, what it leaves out is kept.
OrElse(x, y) == IF x # None THEN x ELSE y

-----------------------------------------------------------------------------
(* POST /v1/admin/homes *)

HomeRead(r) ==
    /\ At(r, "home", "read")
    /\ LET row == homes[op[r].home] IN
       IF row # None /\ row.tenant # op[r].tenant THEN End(r) ELSE Go(r, "write", row)
    /\ UNCHANGED tables

\* Mutant: a home may come without an origin.
InsertHome_nullOrigin(o) ==
    IF homes[o.home] = None
    THEN homes' = [homes EXCEPT ![o.home] =
             [tenant |-> o.tenant, origin |-> o.origin, queue |-> o.queue, connector |-> None]]
    ELSE UNCHANGED homes

\* INSERT: the id must still be free and the origin must not be null.
InsertHome(o) ==
    IF homes[o.home] = None /\ o.origin # None
    THEN homes' = [homes EXCEPT ![o.home] =
             [tenant |-> o.tenant, origin |-> o.origin, queue |-> o.queue, connector |-> None]]
    ELSE UNCHANGED homes

MergeHome(o, old) ==
    [origin |-> OrElse(o.origin, old.origin), queue |-> o.queue \/ old.queue]

\* UPDATE ... WHERE id AND tenant_id, merged with the row as it was read.
UpdateHome(o, old) ==
    IF homes[o.home].tenant = o.tenant
    THEN homes' = [homes EXCEPT ![o.home].origin = MergeHome(o, old).origin,
                                ![o.home].queue = MergeHome(o, old).queue]
    ELSE UNCHANGED homes

HomeWrite(r) ==
    /\ At(r, "home", "write")
    /\ IF seen[r] = None THEN InsertHome(op[r]) ELSE UpdateHome(op[r], seen[r])
    /\ End(r)
    /\ UNCHANGED <<users, accounts, connectors>>

(* POST /v1/admin/users: of an existing user only the e-mail changes. *)

UserRead(r) ==
    /\ At(r, "user", "read")
    /\ IF users[op[r].user] # None THEN End(r) ELSE Go(r, "write", None)
    /\ UNCHANGED tables

UserWrite(r) ==
    /\ At(r, "user", "write")
    /\ users' = [users EXCEPT ![op[r].user] = OrElse(@, op[r].tenant)]
    /\ End(r)
    /\ UNCHANGED <<homes, accounts, connectors>>

(* POST /v1/admin/alexa-accounts/link *)

LinkReadUser(r) ==
    /\ At(r, "link", "read")
    /\ IF users[op[r].user] = op[r].tenant THEN Go(r, "readHome", None) ELSE End(r)
    /\ UNCHANGED tables

\* Mutant: any home will do.
OwnHome_any(o) == homes[o.home] # None

OwnHome(o) == homes[o.home] # None /\ homes[o.home].tenant = o.tenant

\* Mutant: the home's tenant is not compared.
LinkReadHome_anyTenant(r) ==
    /\ At(r, "link", "readHome")
    /\ IF OwnHome_any(op[r]) THEN Go(r, "readAccount", None) ELSE End(r)
    /\ UNCHANGED tables

LinkReadHome(r) ==
    /\ At(r, "link", "readHome")
    /\ IF OwnHome(op[r]) THEN Go(r, "readAccount", None) ELSE End(r)
    /\ UNCHANGED tables

Link(o) == [user |-> o.user, tenant |-> o.tenant, home |-> o.home]

\* Mutant: the tenant of an existing link is not compared.
MayLink_anyTenant(o, row) == TRUE

MayLink(o, row) == row = None \/ row.tenant = o.tenant

\* A link as it is asked for already is answered at once.
LinkReadAccount(r) ==
    /\ At(r, "link", "readAccount")
    /\ LET row == accounts[op[r].alexa] IN
       IF row # Link(op[r]) /\ MayLink(op[r], row) THEN Go(r, "write", None) ELSE End(r)
    /\ UNCHANGED tables

\* An upsert.
LinkWrite(r) ==
    /\ At(r, "link", "write")
    /\ accounts' = [accounts EXCEPT ![op[r].alexa] = Link(op[r])]
    /\ End(r)
    /\ UNCHANGED <<homes, users, connectors>>

-----------------------------------------------------------------------------
(* POST /v1/admin/connectors/bootstrap and POST /v1/connectors/register *)

BootstrapReadHome(r) ==
    /\ At(r, "bootstrap", "readHome")
    /\ IF OwnHome(op[r]) THEN Go(r, "readConnector", None) ELSE End(r)
    /\ UNCHANGED tables

\* A home of another tenant is refused; an unknown one needs an origin.
RegisterReadHome(r) ==
    /\ At(r, "register", "readHome")
    /\ IF OwnHome(op[r]) \/ (homes[op[r].home] = None /\ op[r].origin # None)
       THEN Go(r, "readConnector", None) ELSE End(r)
    /\ UNCHANGED tables

MayBind(o, row) == row = None \/ row = [tenant |-> o.tenant, home |-> o.home]

ReadConnector(r) ==
    /\ At(r, "bootstrap", "readConnector") \/ At(r, "register", "readConnector")
    /\ IF MayBind(op[r], connectors[op[r].connector])
       THEN Go(r, "writeConnector", None) ELSE End(r)
    /\ UNCHANGED tables

\* FOREIGN KEY(home_id) of home_connectors.
HomeKeyHolds(o) == homes[o.home] # None

\* The connector's row comes first: without its home the statement fails.
WriteConnector(r) ==
    /\ At(r, "bootstrap", "writeConnector") \/ At(r, "register", "writeConnector")
    /\ IF HomeKeyHolds(op[r])
       THEN /\ connectors' = [connectors EXCEPT ![op[r].connector] =
                   [tenant |-> op[r].tenant, home |-> op[r].home]]
            /\ Go(r, "writeHome", None)
       ELSE UNCHANGED connectors /\ End(r)
    /\ UNCHANGED <<homes, users, accounts>>

\* UPDATE ... WHERE id AND tenant_id; the connector_bootstraps row that follows
\* is never read.
BootstrapWriteHome(r) ==
    /\ At(r, "bootstrap", "writeHome")
    /\ homes' = IF OwnHome(op[r])
                THEN [homes EXCEPT ![op[r].home].connector = op[r].connector] ELSE homes
    /\ End(r)
    /\ UNCHANGED <<users, accounts, connectors>>

\* The row of upsertConnectorRegistration's second statement.
Registered(o, row) ==
    [tenant |-> o.tenant, connector |-> o.connector,
     origin |-> IF row = None THEN o.origin ELSE OrElse(o.origin, row.origin),
     queue |-> o.queue \/ (row # None /\ row.queue)]

RegisterWriteHome(r) ==
    /\ At(r, "register", "writeHome")
    /\ homes' = [homes EXCEPT ![op[r].home] = Registered(op[r], @)]
    /\ End(r)
    /\ UNCHANGED <<users, accounts, connectors>>

-----------------------------------------------------------------------------
(* A play intent: resolveHomeByAlexaUser, then the auto-link *)

Provisioned == {h \in Homes : homes[h] # None /\ homes[h].queue}
Active == {h \in Homes : homes[h] # None}

\* The linked home, under the tenant of the link.
PlayReadAccount(r) ==
    /\ At(r, "play", "readAccount")
    /\ LET row == accounts[op[r].alexa] IN
       IF row # None
       THEN Go(r, "linkUser", [tenant |-> row.tenant, home |-> row.home])
       ELSE Go(r, "countProvisioned", None)
    /\ UNCHANGED tables

\* Without a link: the only active home with a queue, else the only active home.
\* Counting and selecting are statements of their own.
PlayCount(r) ==
    /\ \/ /\ At(r, "play", "countProvisioned")
          /\ Go(r, IF Cardinality(Provisioned) = 1 THEN "selectProvisioned" ELSE "countActive", None)
       \/ /\ At(r, "play", "countActive")
          /\ IF Cardinality(Active) = 1 THEN Go(r, "selectActive", None) ELSE End(r)
    /\ UNCHANGED tables

PlaySelect(r) ==
    /\ \/ /\ At(r, "play", "selectProvisioned")
          /\ \/ \E h \in Provisioned :
                   Go(r, "linkUser", [tenant |-> homes[h].tenant, home |-> h])
             \/ Provisioned = {} /\ Go(r, "countActive", None)
       \/ /\ At(r, "play", "selectActive")
          /\ \E h \in Active : Go(r, "linkUser", [tenant |-> homes[h].tenant, home |-> h])
    /\ UNCHANGED tables

\* INSERT OR IGNORE INTO users, under the Alexa user's own id.
AutoLinkUser(r) ==
    /\ At(r, "play", "linkUser")
    /\ users' = [users EXCEPT ![op[r].alexa] = OrElse(@, seen[r].tenant)]
    /\ Go(r, "linkAccount", seen[r])
    /\ UNCHANGED <<homes, accounts, connectors>>

\* Mutant: INSERT OR REPLACE.
LinkIfNew_replace(old, row) == row

LinkIfNew(old, row) == OrElse(old, row)

\* INSERT OR IGNORE INTO alexa_accounts; the request goes on to the durable
\* object of the home it found and is through with the directory.
AutoLinkAccount(r) ==
    /\ At(r, "play", "linkAccount")
    /\ accounts' = [accounts EXCEPT ![op[r].alexa] =
           LinkIfNew(@, [user |-> op[r].alexa, tenant |-> seen[r].tenant,
                         home |-> seen[r].home])]
    /\ End(r)
    /\ UNCHANGED <<homes, users, connectors>>

(* GET /v1/stream: the add-on named the origin it has now *)

StreamRead(r) ==
    /\ At(r, "stream", "read")
    /\ IF OwnHome(op[r]) /\ homes[op[r].home].origin # op[r].origin
       THEN Go(r, "write", None) ELSE End(r)
    /\ UNCHANGED tables

StreamWrite(r) ==
    /\ At(r, "stream", "write")
    /\ homes' = IF OwnHome(op[r])
                THEN [homes EXCEPT ![op[r].home].origin = op[r].origin] ELSE homes
    /\ End(r)
    /\ UNCHANGED <<users, accounts, connectors>>

-----------------------------------------------------------------------------
\* Mutant: each insert of the auto-link is guarded by itself.
AfterFailure_goesOn(r) ==
    IF at[r] = "linkUser" THEN Go(r, "linkAccount", seen[r]) ELSE End(r)

\* The request ends with a 500, or, as one catch guards both inserts of the
\* auto-link, goes on to its home without the rest of the auto-link.
AfterFailure(r) == End(r)

StatementFails(r) ==
    /\ D1Fails
    /\ at[r] # "idle"
    /\ AfterFailure(r)
    /\ UNCHANGED tables

\* A new request; the homes of stream requests are those of issued tokens.
Arrive(r) ==
    \/ \E o \in HomeOps \cup UserOps \cup LinkOps : Begin(r, o, "read")
    \/ \E o \in BootstrapOps \cup RegisterOps : Begin(r, o, "readHome")
    \/ \E o \in PlayOps : Begin(r, o, "readAccount")
    \/ \E o \in StreamOps : OwnHome(o) /\ Begin(r, o, "read")

Statement(r) ==
    \/ HomeRead(r) \/ HomeWrite(r)
    \/ UserRead(r) \/ UserWrite(r)
    \/ LinkReadUser(r) \/ LinkReadHome(r) \/ LinkReadAccount(r) \/ LinkWrite(r)
    \/ BootstrapReadHome(r) \/ RegisterReadHome(r) \/ ReadConnector(r)
    \/ WriteConnector(r) \/ BootstrapWriteHome(r) \/ RegisterWriteHome(r)
    \/ PlayReadAccount(r) \/ PlayCount(r) \/ PlaySelect(r)
    \/ AutoLinkUser(r) \/ AutoLinkAccount(r)
    \/ StreamRead(r) \/ StreamWrite(r)

HomeOwner(h) == IF homes[h] = None THEN None ELSE homes[h].tenant
LinkOwner(a) == IF accounts[a] = None THEN None ELSE accounts[a].tenant

\* The owners r has read and goes by: its home's tenant, the tenant of the link
\* it replaces, the home its connector is bound to.
Checked(r) ==
    [home |-> IF op[r].kind = "play" /\ at[r] \in {"linkUser", "linkAccount"}
              THEN HomeOwner(seen[r].home)
              ELSE IF \/ op[r].kind = "link" /\ at[r] \in {"readAccount", "write"}
                      \/ op[r].kind \in {"bootstrap", "register"} /\ at[r] # "readHome"
              THEN HomeOwner(op[r].home) ELSE None,
     link |-> IF op[r].kind = "link" /\ at[r] = "write" THEN LinkOwner(op[r].alexa) ELSE None,
     connector |-> IF at[r] \in {"writeConnector", "writeHome"}
                   THEN connectors[op[r].connector] ELSE None]

\* A step of r overtakes the requests in flight whose checks it undoes.
Overtakes(r) ==
    overtaken' = [q \in Requests |->
        /\ at'[q] # "idle"
        /\ overtaken[q] \/ (q # r /\ at[q] # "idle" /\ Checked(q)' # Checked(q))]

Next == \E r \in Requests :
            (Arrive(r) \/ Statement(r) \/ StatementFails(r)) /\ Overtakes(r)

Spec == Init /\ [][Next]_vars

-----------------------------------------------------------------------------
(* What holds however the requests interleave *)

\* A link that exists is changed by link requests only: no play request, on
\* whatever stale lookup, moves an Alexa account somebody linked.
LinksChangeByLinking ==
    [][\A a \in AlexaUsers :
          accounts[a] # None /\ accounts'[a] # accounts[a]
              => \E r \in Requests : At(r, "link", "write") /\ op[r].alexa = a]_vars

\* Every link refers to a user and a home that exist, every connector to a home
\* and every home only to connectors that exist: the keys D1 does not check
\* (homes.connector_id) hold as well, and of those it checks only a registration
\* for an unknown home can run into one, whatever fails and interleaves.
ReferencesResolve ==
    /\ \A a \in AlexaUsers : accounts[a] # None =>
          homes[accounts[a].home] # None /\ users[accounts[a].user] # None
    /\ \A c \in Connectors : connectors[c] # None => homes[connectors[c].home] # None
    /\ \A h \in Homes : homes[h] # None /\ homes[h].connector # None =>
          connectors[homes[h].connector] # None

(* What holds unless a check was overtaken *)

\* A link never changes hands: an Alexa account linked in one tenant stays there.
LinksKeepTheirTenant ==
    [][\A a \in AlexaUsers :
          accounts[a] # None => accounts'[a].tenant = accounts[a].tenant]_vars

\* A step of a request that goes by owners that are no longer so.
OvertakenActs == \E r \in Requests : overtaken[r] /\ at'[r] # at[r]

\* The home names a connector that is bound to it.
NamesItsOwn(h) ==
    homes[h] # None /\ homes[h].connector # None =>
        connectors[homes[h].connector].home = h

\* However requests interleave, fail and stop half-way, a row moves to another
\* owner only by a request overtaken by another one that changed the very owner
\* it had checked: else homes and links keep their tenant, a connector id stays
\* bound to one home, and that is the home that names it.
RowsKeepTheirOwner ==
    [][\/ /\ \A h \in Homes : homes[h] # None => homes'[h].tenant = homes[h].tenant
          /\ \A a \in AlexaUsers :
                accounts[a] # None => accounts'[a].tenant = accounts[a].tenant
          /\ \A c \in Connectors : connectors[c] # None => connectors'[c] = connectors[c]
          /\ \A h \in Homes : NamesItsOwn(h) => NamesItsOwn(h)'
       \/ OvertakenActs]_vars

\* The link's home belongs to the tenant of the link, so that the durable object
\* a play request goes to is the one the home's connector is attached to.
StaysInItsTenant(a) ==
    accounts[a] # None => homes[accounts[a].home].tenant = accounts[a].tenant

\* No link and no home comes to cross tenants but by a request overtaken so.
LinksStayInOneTenant ==
    [][(\A a \in AlexaUsers : StaysInItsTenant(a) => StaysInItsTenant(a)') \/ OvertakenActs]_vars

=============================================================================
