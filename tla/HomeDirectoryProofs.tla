------------------------- MODULE HomeDirectoryProofs ------------------------
(***************************************************************************)
(* What is proved of HomeDirectory for any tenants, homes, users, accounts *)
(* and connectors and any number of requests whose statements interleave   *)
(* and fail: types, resolving references, the stability of links, and that *)
(* rows change owner only by requests that were overtaken.                 *)
(***************************************************************************)
EXTENDS HomeDirectory, TLAPS

SeenValues == HomeRows \cup AccountRows \cup Places \cup {None}

TablesTyped ==
    /\ homes \in [Homes -> HomeRows \cup {None}]
    /\ users \in [Users -> Tenants \cup {None}]
    /\ accounts \in [AlexaUsers -> AccountRows \cup {None}]
    /\ connectors \in [Connectors -> ConnectorRows \cup {None}]

Typed ==
    /\ TablesTyped
    /\ op \in [Requests -> Ops \cup {None}]
    /\ at \in [Requests -> Labels]
    /\ seen \in [Requests -> SeenValues]

\* What a request may rely on at its next statement although others ran since:
\* rows that were there are still there, whatever they say by now.
Ready(r) ==
    /\ op[r] \in Ops
    /\ op[r].kind = "home" /\ at[r] = "write" =>
          seen[r] \in HomeRows \cup {None} /\ (seen[r] # None => homes[op[r].home] # None)
    /\ op[r].kind = "link" /\ at[r] \in {"readHome", "readAccount", "write"} =>
          users[op[r].user] # None
    /\ op[r].kind = "link" /\ at[r] \in {"readAccount", "write"} => homes[op[r].home] # None
    /\ op[r].kind \in {"bootstrap", "register"} /\ at[r] = "writeHome" =>
          homes[op[r].home] # None /\ connectors[op[r].connector] # None
    /\ op[r].kind = "play" /\ at[r] \in {"linkUser", "linkAccount"} =>
          seen[r] \in Places /\ homes[seen[r].home] # None
    /\ op[r].kind = "play" /\ at[r] = "linkAccount" => users[op[r].alexa] # None

\* No row is ever deleted.
Grows ==
    /\ \A h \in Homes : homes[h] # None => homes'[h] # None
    /\ \A u \in Users : users[u] # None => users'[u] # None
    /\ \A c \in Connectors : connectors[c] # None => connectors'[c] # None

RequestsReady == \A r \in Requests : at[r] # "idle" => Ready(r)

IInv == Typed /\ ReferencesResolve /\ RequestsReady

-----------------------------------------------------------------------------
(* Data *)

LEMMA NoneIsNone ==
  /\ None \notin HomeRows /\ None \notin AccountRows /\ None \notin ConnectorRows
  /\ None \notin Places /\ None \notin Ops
  /\ None \notin Tenants /\ None \notin Homes /\ None \notin Users
  /\ None \notin Connectors /\ None \notin Origins
  BY NoneIsNoRow, NoneIsNoValue

\* The fields of a request, by its kind.
LEMMA OpFields ==
  ASSUME NEW o \in Ops
  PROVE  /\ o.kind = "home" => o \in HomeOps
         /\ o.kind = "user" => o \in UserOps
         /\ o.kind = "link" => o \in LinkOps
         /\ o.kind = "bootstrap" => o \in BootstrapOps
         /\ o.kind = "register" => o \in RegisterOps
         /\ o.kind = "play" => o \in PlayOps
         /\ o.kind = "stream" => o \in StreamOps
         /\ o.kind \in {"home", "user", "link", "bootstrap", "register", "play", "stream"}
  BY DEF Ops, HomeOps, UserOps, LinkOps, BootstrapOps, RegisterOps, PlayOps, StreamOps

-----------------------------------------------------------------------------
(* One statement, seen from the tables and from the other requests *)

\* A statement that breaks no table and takes no row away.
Sound == TablesTyped' /\ ReferencesResolve' /\ Grows

LEMMA ReadIsSound ==
  ASSUME IInv, UNCHANGED tables
  PROVE  Sound
  BY DEF IInv, Typed, TablesTyped, ReferencesResolve, Grows, Sound, tables

\* Requests that do not run keep what they rely on.
LEMMA OthersStayReady ==
  ASSUME IInv, Grows, NEW r \in Requests, NEW q \in Requests, at[q] # "idle",
         at'[q] = at[q], op'[q] = op[q], seen'[q] = seen[q]
  PROVE  Ready(q)'
<1>1. Ready(q) /\ op[q] \in Ops
  BY DEF IInv, RequestsReady, Ready
<1>2. op[q].kind = "link" => op[q].user \in Users /\ op[q].home \in Homes
  BY <1>1, OpFields DEF LinkOps
<1>3. op[q].kind \in {"home", "bootstrap", "register"} => op[q].home \in Homes
  BY <1>1, OpFields DEF HomeOps, BootstrapOps, RegisterOps
<1>4. op[q].kind \in {"bootstrap", "register"} => op[q].connector \in Connectors
  BY <1>1, OpFields DEF BootstrapOps, RegisterOps
<1>5. op[q].kind = "play" => op[q].alexa \in Users
  BY <1>1, OpFields, AlexaUsersAreUserIds DEF PlayOps
<1>6. \A s \in Places : s.home \in Homes
  BY DEF Places
<1> QED
  BY <1>1, <1>2, <1>3, <1>4, <1>5, <1>6 DEF Ready, Grows

LEMMA EndKeeps ==
  ASSUME IInv, Sound, NEW r \in Requests, End(r)
  PROVE  IInv'
<1>1. /\ op' = [op EXCEPT ![r] = None] /\ at' = [at EXCEPT ![r] = "idle"]
      /\ seen' = [seen EXCEPT ![r] = None]
      /\ op \in [Requests -> Ops \cup {None}] /\ at \in [Requests -> Labels]
      /\ seen \in [Requests -> SeenValues]
  BY DEF End, IInv, Typed, TablesTyped, SeenValues
<1>2. Typed'
  BY <1>1 DEF Sound, TablesTyped, Typed, SeenValues, Labels
<1>3. RequestsReady'
  <2> SUFFICES ASSUME NEW q \in Requests, at'[q] # "idle" PROVE Ready(q)'
    BY DEF RequestsReady
  <2> QED
    BY <1>1, OthersStayReady DEF Sound
<1> QED
  BY <1>2, <1>3 DEF IInv, Sound

LEMMA GoKeeps ==
  ASSUME IInv, Sound, NEW r \in Requests, NEW l \in Labels, NEW s \in SeenValues,
         at[r] # "idle", Go(r, l, s), Ready(r)'
  PROVE  IInv'
<1>1. /\ op' = op /\ at' = [at EXCEPT ![r] = l] /\ seen' = [seen EXCEPT ![r] = s]
      /\ op \in [Requests -> Ops \cup {None}] /\ at \in [Requests -> Labels]
      /\ seen \in [Requests -> SeenValues]
  BY DEF Go, IInv, Typed, TablesTyped, SeenValues
<1>2. Typed'
  BY <1>1 DEF Sound, TablesTyped, Typed, SeenValues
<1>3. RequestsReady'
  <2> SUFFICES ASSUME NEW q \in Requests, at'[q] # "idle", q # r PROVE Ready(q)'
    BY DEF RequestsReady
  <2> QED
    BY <1>1, OthersStayReady DEF Sound
<1> QED
  BY <1>2, <1>3 DEF IInv, Sound

LEMMA BeginKeeps ==
  ASSUME IInv, NEW r \in Requests, NEW o \in Ops, NEW l \in {"read", "readHome", "readAccount"},
         Begin(r, o, l), l = "read" \/ o.kind # "link"
  PROVE  IInv'
<1>1. /\ op' = [op EXCEPT ![r] = o] /\ at' = [at EXCEPT ![r] = l] /\ UNCHANGED <<tables, seen>>
      /\ op \in [Requests -> Ops \cup {None}] /\ at \in [Requests -> Labels]
      /\ seen \in [Requests -> SeenValues]
  BY DEF Begin, IInv, Typed, TablesTyped, SeenValues
<1>2. Sound
  BY <1>1, ReadIsSound
<1>3. Typed'
  BY <1>1, <1>2 DEF Sound, TablesTyped, Typed, SeenValues, Labels
<1>4. RequestsReady'
  <2> SUFFICES ASSUME NEW q \in Requests, at'[q] # "idle" PROVE Ready(q)'
    BY DEF RequestsReady
  <2>1. CASE q = r
    BY <1>1, <2>1 DEF Ready
  <2> QED
    BY <1>1, <1>2, <2>1, OthersStayReady DEF Sound
<1> QED
  BY <1>2, <1>3, <1>4 DEF IInv, Sound

-----------------------------------------------------------------------------
(* The statements that read *)

\* What is known of a request that is under way.
LEMMA Under ==
  ASSUME IInv, NEW r \in Requests, at[r] # "idle"
  PROVE  /\ op[r] \in Ops /\ Ready(r) /\ seen[r] \in SeenValues
         /\ op[r].kind = "home" => op[r] \in HomeOps
         /\ op[r].kind = "user" => op[r] \in UserOps
         /\ op[r].kind = "link" => op[r] \in LinkOps
         /\ op[r].kind = "bootstrap" => op[r] \in BootstrapOps
         /\ op[r].kind = "register" => op[r] \in RegisterOps
         /\ op[r].kind = "play" => op[r] \in PlayOps
         /\ op[r].kind = "stream" => op[r] \in StreamOps
  BY OpFields DEF IInv, RequestsReady, Ready, Typed, TablesTyped, SeenValues

\* The request as it is after it moved on to another statement.
LEMMA GoMoves ==
  ASSUME IInv, NEW r \in Requests, NEW l, NEW s, Go(r, l, s)
  PROVE  op'[r] = op[r] /\ at'[r] = l /\ seen'[r] = s
  BY DEF Go, IInv, Typed, TablesTyped

LEMMA AdminReads ==
  ASSUME IInv, NEW r \in Requests,
         HomeRead(r) \/ UserRead(r) \/ LinkReadUser(r) \/ LinkReadHome(r) \/ LinkReadAccount(r)
  PROVE  IInv'
<1>1. at[r] # "idle" /\ UNCHANGED tables
  BY DEF HomeRead, UserRead, LinkReadUser, LinkReadHome, LinkReadAccount, At
<1>2. Sound
  BY <1>1, ReadIsSound
<1>3. CASE End(r)
  BY <1>2, <1>3, EndKeeps
<1>4. CASE HomeRead(r) /\ Go(r, "write", homes[op[r].home])
  <2>1. op[r].home \in Homes /\ op[r].kind = "home"
    BY <1>1, <1>4, Under DEF HomeRead, At, HomeOps
  <2>2. homes[op[r].home] \in HomeRows \cup {None}
    BY <2>1 DEF IInv, Typed, TablesTyped
  <2>3. Ready(r)'
    BY <1>1, <1>4, <2>1, <2>2, GoMoves, Under DEF Ready, tables
  <2> QED
    BY <1>1, <1>2, <1>4, <2>2, <2>3, GoKeeps DEF SeenValues, Labels
<1>5. CASE UserRead(r) /\ Go(r, "write", None)
  <2>1. Ready(r)'
    BY <1>1, <1>5, GoMoves, Under DEF Ready, UserRead, At
  <2> QED
    BY <1>1, <1>2, <1>5, <2>1, GoKeeps DEF SeenValues, Labels
<1>6. CASE LinkReadUser(r) /\ users[op[r].user] = op[r].tenant /\ Go(r, "readHome", None)
  <2>1. op[r].tenant \in Tenants /\ op[r].kind = "link"
    BY <1>1, <1>6, Under DEF LinkReadUser, At, LinkOps
  <2>2. Ready(r)'
    BY <1>1, <1>6, <2>1, GoMoves, Under, NoneIsNone DEF Ready, tables
  <2> QED
    BY <1>1, <1>2, <1>6, <2>2, GoKeeps DEF SeenValues, Labels
<1>7. CASE LinkReadHome(r) /\ OwnHome(op[r]) /\ Go(r, "readAccount", None)
  <2>1. Ready(r)'
    BY <1>1, <1>7, GoMoves, Under DEF Ready, LinkReadHome, At, OwnHome, tables
  <2> QED
    BY <1>1, <1>2, <1>7, <2>1, GoKeeps DEF SeenValues, Labels
<1>8. CASE LinkReadAccount(r) /\ Go(r, "write", None)
  <2>1. Ready(r)'
    BY <1>1, <1>8, GoMoves, Under DEF Ready, LinkReadAccount, At, tables
  <2> QED
    BY <1>1, <1>2, <1>8, <2>1, GoKeeps DEF SeenValues, Labels
<1> QED
  BY <1>3, <1>4, <1>5, <1>6, <1>7, <1>8
  DEF HomeRead, UserRead, LinkReadUser, LinkReadHome, LinkReadAccount

LEMMA ConnectorReads ==
  ASSUME IInv, NEW r \in Requests,
         BootstrapReadHome(r) \/ RegisterReadHome(r) \/ ReadConnector(r) \/ StreamRead(r)
  PROVE  IInv'
<1>1. at[r] # "idle" /\ UNCHANGED tables
  BY DEF BootstrapReadHome, RegisterReadHome, ReadConnector, StreamRead, At
<1>2. Sound
  BY <1>1, ReadIsSound
<1>3. CASE End(r)
  BY <1>2, <1>3, EndKeeps
<1>4. ASSUME NEW l \in {"readConnector", "writeConnector", "write"}, Go(r, l, None),
             op[r].kind \in {"bootstrap", "register", "stream"}
      PROVE  IInv'
  <2>1. Ready(r)'
    BY <1>1, <1>4, GoMoves, Under DEF Ready
  <2> QED
    BY <1>1, <1>2, <1>4, <2>1, GoKeeps DEF SeenValues, Labels
<1> QED
  BY <1>3, <1>4 DEF BootstrapReadHome, RegisterReadHome, ReadConnector, StreamRead, At

LEMMA PlayReads ==
  ASSUME IInv, NEW r \in Requests,
         PlayReadAccount(r) \/ PlayCount(r) \/ PlaySelect(r)
  PROVE  IInv'
<1>1. at[r] # "idle" /\ op[r].kind = "play" /\ UNCHANGED tables
  BY DEF PlayReadAccount, PlayCount, PlaySelect, At
<1>2. Sound
  BY <1>1, ReadIsSound
<1>3. CASE End(r)
  BY <1>2, <1>3, EndKeeps
<1>4. ASSUME NEW h \in Homes, NEW t \in Tenants, homes[h] # None,
             Go(r, "linkUser", [tenant |-> t, home |-> h])
      PROVE  IInv'
  <2>1. [tenant |-> t, home |-> h] \in Places
    BY DEF Places
  <2>2. Ready(r)'
    BY <1>1, <1>4, <2>1, GoMoves, Under DEF Ready, tables
  <2> QED
    BY <1>1, <1>2, <1>4, <2>1, <2>2, GoKeeps DEF SeenValues, Labels
<1>5. ASSUME NEW l \in {"countProvisioned", "countActive", "selectProvisioned", "selectActive"},
             Go(r, l, None)
      PROVE  IInv'
  <2>1. Ready(r)'
    BY <1>1, <1>5, GoMoves, Under DEF Ready
  <2> QED
    BY <1>1, <1>2, <1>5, <2>1, GoKeeps DEF SeenValues, Labels
<1>6. CASE PlayReadAccount(r)
  <2> DEFINE row == accounts[op[r].alexa]
  <2>1. op[r].alexa \in AlexaUsers
    BY <1>1, Under DEF PlayOps
  <2>2. row # None => row.home \in Homes /\ row.tenant \in Tenants /\ homes[row.home] # None
    BY <2>1 DEF IInv, Typed, TablesTyped, AccountRows, ReferencesResolve
  <2> QED
    BY <1>4, <1>5, <1>6, <2>2 DEF PlayReadAccount
<1>7. CASE PlaySelect(r)
  <2>1. \A h \in Homes : homes[h] # None => homes[h].tenant \in Tenants
    BY DEF IInv, Typed, TablesTyped, HomeRows
  <2> QED
    BY <1>4, <1>5, <1>7, <2>1 DEF PlaySelect, Provisioned, Active
<1>8. CASE PlayCount(r)
  BY <1>3, <1>5, <1>8 DEF PlayCount
<1> QED
  BY <1>3, <1>6, <1>7, <1>8

-----------------------------------------------------------------------------
(* The statements that write *)

\* A home's row is written; the connector it names exists.
LEMMA HomeRowIsSound ==
  ASSUME IInv, NEW h \in Homes, NEW row \in HomeRows,
         row.connector # None => connectors[row.connector] # None,
         homes' = [homes EXCEPT ![h] = row], UNCHANGED <<users, accounts, connectors>>
  PROVE  Sound
  BY NoneIsNone DEF IInv, Typed, TablesTyped, ReferencesResolve, Grows, Sound

\* A row that was there is rewritten with another origin or queue binding.
LEMMA HomeFieldsAreSound ==
  ASSUME IInv, NEW h \in Homes, homes[h] # None, NEW o \in Origins, NEW q \in BOOLEAN,
         homes' = [homes EXCEPT ![h].origin = o, ![h].queue = q],
         UNCHANGED <<users, accounts, connectors>>
  PROVE  Sound
<1> DEFINE row == [homes[h] EXCEPT !.origin = o, !.queue = q]
<1>1. homes[h] \in HomeRows
  BY DEF IInv, Typed, TablesTyped
<1>2. row \in HomeRows /\ row.connector = homes[h].connector
  BY <1>1 DEF HomeRows
<1>3. homes' = [homes EXCEPT ![h] = row]
  OBVIOUS
<1>4. row.connector # None => connectors[row.connector] # None
  BY <1>2 DEF IInv, ReferencesResolve
<1> HIDE DEF row
<1> QED
  BY <1>2, <1>3, <1>4, HomeRowIsSound

LEMMA HomeWrites ==
  ASSUME IInv, NEW r \in Requests, HomeWrite(r)
  PROVE  IInv'
<1>1. at[r] = "write" /\ op[r] \in HomeOps /\ Ready(r) /\ op[r].kind = "home"
  BY Under DEF HomeWrite, At
<1>2. /\ op[r].home \in Homes /\ op[r].tenant \in Tenants
      /\ op[r].origin \in Origins \cup {None} /\ op[r].queue \in BOOLEAN
  BY <1>1 DEF HomeOps
<1>3. CASE UNCHANGED homes
  BY <1>3, ReadIsSound, EndKeeps DEF HomeWrite, tables
<1>4. CASE seen[r] = None /\ homes[op[r].home] = None /\ op[r].origin # None
  <2> DEFINE row == [tenant |-> op[r].tenant, origin |-> op[r].origin,
                     queue |-> op[r].queue, connector |-> None]
  <2>1. row \in HomeRows /\ row.connector = None
    BY <1>2, <1>4 DEF HomeRows
  <2>2. homes' = [homes EXCEPT ![op[r].home] = row]
    BY <1>4 DEF HomeWrite, InsertHome
  <2> HIDE DEF row
  <2>3. Sound
    BY <1>2, <2>1, <2>2, HomeRowIsSound DEF HomeWrite
  <2> QED
    BY <2>3, EndKeeps DEF HomeWrite
<1>5. CASE seen[r] # None /\ homes[op[r].home].tenant = op[r].tenant
  <2>1. seen[r] \in HomeRows /\ homes[op[r].home] # None
    BY <1>1, <1>5 DEF Ready
  <2>2. /\ MergeHome(op[r], seen[r]).origin \in Origins
        /\ MergeHome(op[r], seen[r]).queue \in BOOLEAN
    BY <1>2, <2>1 DEF MergeHome, OrElse, HomeRows
  <2>3. homes' = [homes EXCEPT ![op[r].home].origin = MergeHome(op[r], seen[r]).origin,
                               ![op[r].home].queue = MergeHome(op[r], seen[r]).queue]
    BY <1>5 DEF HomeWrite, UpdateHome
  <2>4. Sound
    BY <1>2, <2>1, <2>2, <2>3, HomeFieldsAreSound DEF HomeWrite
  <2> QED
    BY <2>4, EndKeeps DEF HomeWrite
<1> QED
  BY <1>3, <1>4, <1>5 DEF HomeWrite, InsertHome, UpdateHome

LEMMA UserAndLinkWrites ==
  ASSUME IInv, NEW r \in Requests, UserWrite(r) \/ LinkWrite(r)
  PROVE  IInv'
<1>1. CASE UserWrite(r)
  <2>1. op[r].user \in Users /\ op[r].tenant \in Tenants
    BY <1>1, Under DEF UserWrite, At, UserOps
  <2>2. Sound
    BY <1>1, <2>1, NoneIsNone
    DEF UserWrite, OrElse, IInv, Typed, TablesTyped, ReferencesResolve, Grows, Sound
  <2> QED
    BY <1>1, <2>2, EndKeeps DEF UserWrite
<1>2. CASE LinkWrite(r)
  <2> DEFINE row == [user |-> op[r].user, tenant |-> op[r].tenant, home |-> op[r].home]
  <2>1. op[r] \in LinkOps /\ users[op[r].user] # None /\ homes[op[r].home] # None
    BY <1>2, Under DEF LinkWrite, At, Ready
  <2>2. row \in AccountRows /\ users[row.user] # None /\ homes[row.home] # None
    BY <2>1 DEF LinkOps, AccountRows
  <2>3. op[r].alexa \in AlexaUsers /\ accounts' = [accounts EXCEPT ![op[r].alexa] = row]
    BY <1>2, <2>1 DEF LinkWrite, Link, LinkOps
  <2> HIDE DEF row
  <2>4. Sound
    BY <1>2, <2>2, <2>3
    DEF LinkWrite, IInv, Typed, TablesTyped, ReferencesResolve, Grows, Sound
  <2> QED
    BY <1>2, <2>4, EndKeeps DEF LinkWrite
<1> QED
  BY <1>1, <1>2

LEMMA ConnectorWrites ==
  ASSUME IInv, NEW r \in Requests, WriteConnector(r)
  PROVE  IInv'
<1>1. at[r] # "idle" /\ op[r].kind \in {"bootstrap", "register"}
  BY DEF WriteConnector, At
<1>2. op[r].home \in Homes /\ op[r].tenant \in Tenants /\ op[r].connector \in Connectors
  BY <1>1, Under DEF BootstrapOps, RegisterOps
<1>3. CASE UNCHANGED connectors /\ End(r)
  BY <1>3, ReadIsSound, EndKeeps DEF WriteConnector, tables
<1>4. CASE /\ homes[op[r].home] # None
           /\ connectors' = [connectors EXCEPT ![op[r].connector] =
                  [tenant |-> op[r].tenant, home |-> op[r].home]]
           /\ Go(r, "writeHome", None)
  <2> DEFINE row == [tenant |-> op[r].tenant, home |-> op[r].home]
  <2>1. row \in ConnectorRows /\ row.home = op[r].home
    BY <1>2 DEF ConnectorRows
  <2>2. connectors' = [connectors EXCEPT ![op[r].connector] = row]
    BY <1>4
  <2> HIDE DEF row
  <2>3. UNCHANGED <<homes, users, accounts>>
    BY DEF WriteConnector
  <2>4. Sound /\ connectors'[op[r].connector] # None
    BY <1>2, <1>4, <2>1, <2>2, <2>3, NoneIsNone
    DEF IInv, Typed, TablesTyped, ReferencesResolve, Grows, Sound
  <2>5. Ready(r)'
    BY <1>1, <1>4, <2>3, <2>4, GoMoves, Under DEF Ready
  <2> QED
    BY <1>1, <1>4, <2>4, <2>5, GoKeeps DEF SeenValues, Labels
<1> QED
  BY <1>3, <1>4 DEF WriteConnector, HomeKeyHolds

LEMMA HomesOfConnectors ==
  ASSUME IInv, NEW r \in Requests, BootstrapWriteHome(r) \/ RegisterWriteHome(r) \/ StreamWrite(r)
  PROVE  IInv'
<1>1. at[r] # "idle" /\ End(r) /\ UNCHANGED <<users, accounts, connectors>>
  BY DEF BootstrapWriteHome, RegisterWriteHome, StreamWrite, At
<1>2. op[r].home \in Homes /\ homes[op[r].home] \in HomeRows \cup {None}
  BY <1>1, Under
  DEF BootstrapWriteHome, RegisterWriteHome, StreamWrite, At, BootstrapOps, RegisterOps,
      StreamOps, IInv, Typed, TablesTyped
<1>3. ASSUME NEW row \in HomeRows, homes' = [homes EXCEPT ![op[r].home] = row],
             row.connector # None => connectors[row.connector] # None
      PROVE  IInv'
  BY <1>1, <1>2, <1>3, HomeRowIsSound, EndKeeps
<1>4. CASE UNCHANGED homes
  BY <1>1, <1>4, ReadIsSound, EndKeeps DEF tables
<1>5. CASE BootstrapWriteHome(r) /\ homes[op[r].home] # None
  <2> DEFINE row == [homes[op[r].home] EXCEPT !.connector = op[r].connector]
  <2>1. op[r].connector \in Connectors /\ connectors[op[r].connector] # None
    BY <1>5, Under DEF BootstrapWriteHome, At, Ready, BootstrapOps
  <2>2. row \in HomeRows /\ row.connector = op[r].connector
    BY <1>2, <1>5, <2>1 DEF HomeRows
  <2>3. homes' = homes \/ homes' = [homes EXCEPT ![op[r].home] = row]
    BY <1>5 DEF BootstrapWriteHome
  <2> QED
    BY <1>3, <1>4, <2>1, <2>2, <2>3
<1>6. CASE RegisterWriteHome(r)
  <2> DEFINE row == Registered(op[r], homes[op[r].home])
  <2>1. op[r] \in RegisterOps /\ Ready(r) /\ op[r].kind = "register" /\ at[r] = "writeHome"
    BY <1>6, Under DEF RegisterWriteHome, At
  <2>2. homes[op[r].home] # None /\ connectors[op[r].connector] # None
    BY <2>1 DEF Ready
  <2>3. row \in HomeRows /\ row.connector = op[r].connector
    BY <1>2, <2>1, <2>2 DEF Registered, OrElse, RegisterOps, HomeRows
  <2>4. homes' = [homes EXCEPT ![op[r].home] = row]
    BY <1>2, <1>6 DEF RegisterWriteHome, IInv, Typed, TablesTyped
  <2> QED
    BY <1>3, <2>2, <2>3, <2>4
<1>7. CASE StreamWrite(r) /\ homes[op[r].home] # None
  <2> DEFINE row == [homes[op[r].home] EXCEPT !.origin = op[r].origin]
  <2>1. op[r].origin \in Origins
    BY <1>7, Under DEF StreamWrite, At, StreamOps
  <2>2. row \in HomeRows /\ row.connector = homes[op[r].home].connector
    BY <1>2, <1>7, <2>1 DEF HomeRows
  <2>3. row.connector # None => connectors[row.connector] # None
    BY <1>2, <1>7, <2>2 DEF IInv, ReferencesResolve
  <2>4. homes' = homes \/ homes' = [homes EXCEPT ![op[r].home] = row]
    BY <1>7 DEF StreamWrite
  <2> QED
    BY <1>3, <1>4, <2>2, <2>3, <2>4
<1> QED
  BY <1>4, <1>5, <1>6, <1>7 DEF BootstrapWriteHome, StreamWrite, OwnHome

LEMMA AutoLinks ==
  ASSUME IInv, NEW r \in Requests, AutoLinkUser(r) \/ AutoLinkAccount(r)
  PROVE  IInv'
<1>1. at[r] \in {"linkUser", "linkAccount"} /\ op[r].kind = "play" /\ Ready(r)
  BY Under DEF AutoLinkUser, AutoLinkAccount, At
<1>2. op[r].alexa \in AlexaUsers /\ op[r].alexa \in Users
  BY <1>1, Under, AlexaUsersAreUserIds DEF PlayOps
<1>3. /\ seen[r] \in Places /\ seen[r].home \in Homes /\ seen[r].tenant \in Tenants
      /\ homes[seen[r].home] # None
  BY <1>1 DEF Ready, Places
<1>4. CASE AutoLinkUser(r)
  <2>1. Sound /\ users'[op[r].alexa] # None
    BY <1>2, <1>3, <1>4, NoneIsNone
    DEF AutoLinkUser, OrElse, IInv, Typed, TablesTyped, ReferencesResolve, Grows, Sound
  <2>2. Go(r, "linkAccount", seen[r]) /\ homes' = homes
    BY <1>4 DEF AutoLinkUser
  <2>3. Ready(r)'
    BY <1>1, <1>3, <2>1, <2>2, GoMoves DEF Ready
  <2> QED
    BY <1>1, <1>3, <2>1, <2>2, <2>3, GoKeeps DEF SeenValues, Labels
<1>5. CASE AutoLinkAccount(r)
  <2> DEFINE row == [user |-> op[r].alexa, tenant |-> seen[r].tenant, home |-> seen[r].home]
  <2>1. users[op[r].alexa] # None
    BY <1>5, <1>1 DEF AutoLinkAccount, At, Ready
  <2>2. row \in AccountRows /\ users[row.user] # None /\ homes[row.home] # None
    BY <1>2, <1>3, <2>1 DEF AccountRows
  <2>3. accounts' = accounts \/ accounts' = [accounts EXCEPT ![op[r].alexa] = row]
    BY <1>2, <1>5 DEF AutoLinkAccount, LinkIfNew, OrElse, IInv, Typed, TablesTyped
  <2> HIDE DEF row
  <2>4. Sound
    BY <1>2, <1>5, <2>2, <2>3
    DEF AutoLinkAccount, IInv, Typed, TablesTyped, ReferencesResolve, Grows, Sound
  <2> QED
    BY <1>5, <2>4, EndKeeps DEF AutoLinkAccount
<1> QED
  BY <1>4, <1>5

-----------------------------------------------------------------------------
(* The theorems for any number of requests *)

LEMMA Arrivals ==
  ASSUME IInv, NEW r \in Requests, Arrive(r)
  PROVE  IInv'
<1>1. ASSUME NEW o \in Ops, Begin(r, o, "read") PROVE IInv'
  BY <1>1, BeginKeeps
<1>2. ASSUME NEW o \in BootstrapOps \cup RegisterOps, Begin(r, o, "readHome") PROVE IInv'
  <2>1. o \in Ops /\ o.kind # "link"
    BY DEF Ops, BootstrapOps, RegisterOps
  <2> QED
    BY <1>2, <2>1, BeginKeeps
<1>3. ASSUME NEW o \in PlayOps, Begin(r, o, "readAccount") PROVE IInv'
  <2>1. o \in Ops /\ o.kind # "link"
    BY DEF Ops, PlayOps
  <2> QED
    BY <1>3, <2>1, BeginKeeps
<1> QED
  BY <1>1, <1>2, <1>3 DEF Arrive, Ops

LEMMA Failures ==
  ASSUME IInv, NEW r \in Requests, StatementFails(r)
  PROVE  IInv'
  BY ReadIsSound, EndKeeps DEF StatementFails, AfterFailure

LEMMA StepIInv == IInv /\ [Next]_vars => IInv'
<1> SUFFICES ASSUME IInv, [Next]_vars PROVE IInv'
  OBVIOUS
<1>1. ASSUME NEW r \in Requests, Statement(r) PROVE IInv'
  BY <1>1, AdminReads, ConnectorReads, PlayReads, HomeWrites, UserAndLinkWrites,
     ConnectorWrites, HomesOfConnectors, AutoLinks
  DEF Statement
<1>2. CASE UNCHANGED vars
  BY <1>2
  DEF vars, tables, IInv, Typed, TablesTyped, ReferencesResolve, RequestsReady, Ready
<1> QED
  BY <1>1, <1>2, Arrivals, Failures DEF Next

LEMMA InitIInv == Init => IInv
  BY NoneIsNone DEF Init, IInv, Typed, TablesTyped, ReferencesResolve, RequestsReady, Labels,
                    SeenValues

\* The inductive invariant holds in every reachable state.
THEOREM Invariance == Spec => []IInv
  BY InitIInv, StepIInv, PTL DEF Spec

\* Type correctness: no statement stores a row that the schema would not take.
THEOREM TypeCorrect == Spec => []TypeOK
<1> DEFINE Overtaking == overtaken \in [Requests -> BOOLEAN]
<1>1. Init => Overtaking
  BY DEF Init
<1>2. Overtaking /\ [Next]_vars => Overtaking'
  BY DEF Next, Overtakes, vars
<1>3. IInv /\ Overtaking => TypeOK
  BY DEF IInv, Typed, TablesTyped, SeenValues, TypeOK
<1> QED
  BY <1>1, <1>2, <1>3, Invariance, PTL DEF Spec

\* No request, interrupted or overtaken by others at any statement, leaves a
\* reference to a row that is not there.
THEOREM ReferencesAreGood == Spec => []ReferencesResolve
<1>1. IInv => ReferencesResolve
  BY DEF IInv
<1> QED
  BY <1>1, Invariance, PTL

\* The only statements that write links; the auto-link inserts or ignores.
LEMMA LinksAreWrittenByLinks ==
  ASSUME IInv, [Next]_vars, NEW a \in AlexaUsers, accounts[a] # None,
         accounts'[a] # accounts[a]
  PROVE  \E r \in Requests : At(r, "link", "write") /\ op[r].alexa = a
<1>1. PICK r \in Requests : LinkWrite(r) \/ AutoLinkAccount(r)
  BY DEF Next, Statement, Arrive, StatementFails, Begin, HomeRead, HomeWrite, UserRead,
         UserWrite, LinkReadUser, LinkReadHome, LinkReadAccount, BootstrapReadHome,
         RegisterReadHome, ReadConnector, WriteConnector, BootstrapWriteHome,
         RegisterWriteHome, PlayReadAccount, PlayCount, PlaySelect, AutoLinkUser,
         StreamRead, StreamWrite, tables, vars
<1>2. accounts \in [AlexaUsers -> AccountRows \cup {None}]
  BY DEF IInv, Typed, TablesTyped
<1>3. ~AutoLinkAccount(r)
  BY <1>2 DEF AutoLinkAccount, LinkIfNew, OrElse
<1> QED
  BY <1>1, <1>2, <1>3 DEF LinkWrite

\* A link that exists is never changed by a play request, on whatever stale
\* lookup it auto-links.
THEOREM LinksAreStable == Spec => LinksChangeByLinking
<1>1. IInv /\ [Next]_vars =>
        \A a \in AlexaUsers : accounts[a] # None /\ accounts'[a] # accounts[a]
            => \E r \in Requests : At(r, "link", "write") /\ op[r].alexa = a
  BY LinksAreWrittenByLinks
<1> QED
  BY <1>1, Invariance, PTL DEF Spec, LinksChangeByLinking

-----------------------------------------------------------------------------
(* Owners: what a request that was not overtaken does *)

\* What a request has checked and no other has changed since.
Current(r) ==
    /\ op[r].kind = "link" /\ at[r] \in {"readAccount", "write"} => OwnHome(op[r])
    /\ op[r].kind = "link" /\ at[r] = "write" => MayLink(op[r], accounts[op[r].alexa])
    /\ op[r].kind = "bootstrap" /\ at[r] \in {"readConnector", "writeConnector"} =>
          OwnHome(op[r])
    /\ op[r].kind = "register" /\ at[r] \in {"readConnector", "writeConnector"} =>
          OwnHome(op[r]) \/ homes[op[r].home] = None
    /\ op[r].kind \in {"bootstrap", "register"} /\ at[r] = "writeConnector" =>
          MayBind(op[r], connectors[op[r].connector])
    /\ op[r].kind \in {"bootstrap", "register"} /\ at[r] = "writeHome" =>
          /\ OwnHome(op[r])
          /\ connectors[op[r].connector] = [tenant |-> op[r].tenant, home |-> op[r].home]
    /\ op[r].kind = "play" /\ at[r] \in {"linkUser", "linkAccount"} =>
          accounts[op[r].alexa] # None \/ homes[seen[r].home].tenant = seen[r].tenant

ChecksHold == \A r \in Requests : at[r] # "idle" /\ ~overtaken[r] => Current(r)

\* What a step may do to the rows.
OwnersStay ==
    /\ \A h \in Homes : homes[h] # None => homes'[h].tenant = homes[h].tenant
    /\ \A a \in AlexaUsers : accounts[a] # None => accounts'[a].tenant = accounts[a].tenant
    /\ \A c \in Connectors : connectors[c] # None => connectors'[c] = connectors[c]
    /\ \A h \in Homes : NamesItsOwn(h) => NamesItsOwn(h)'
    /\ \A a \in AlexaUsers : StaysInItsTenant(a) => StaysInItsTenant(a)'

LEMMA ReadsKeepOwners ==
  ASSUME UNCHANGED tables
  PROVE  OwnersStay
  BY DEF OwnersStay, NamesItsOwn, StaysInItsTenant, tables

\* A home's row keeps its tenant, and the connector it names is bound to it if
\* the one it named was.
LEMMA HomeRowKeepsOwners ==
  ASSUME IInv, NEW h \in Homes, NEW row \in HomeRows,
         homes[h] # None => row.tenant = homes[h].tenant,
         NamesItsOwn(h) /\ row.connector # None => connectors[row.connector].home = h,
         homes' = [homes EXCEPT ![h] = row], UNCHANGED <<accounts, connectors>>
  PROVE  OwnersStay
<1>1. homes \in [Homes -> HomeRows \cup {None}]
      /\ accounts \in [AlexaUsers -> AccountRows \cup {None}]
  BY DEF IInv, Typed, TablesTyped
<1>2. \A g \in Homes : homes'[g] = IF g = h THEN row ELSE homes[g]
  BY <1>1
<1>3. \A g \in Homes : NamesItsOwn(g) => NamesItsOwn(g)'
  BY <1>2 DEF NamesItsOwn
<1>4. \A a \in AlexaUsers : accounts[a] # None =>
          accounts[a].home \in Homes /\ homes[accounts[a].home] # None
  BY <1>1 DEF IInv, ReferencesResolve, AccountRows
<1>5. \A a \in AlexaUsers : StaysInItsTenant(a) => StaysInItsTenant(a)'
  BY <1>2, <1>4 DEF StaysInItsTenant
<1> QED
  BY <1>2, <1>3, <1>5 DEF OwnersStay

\* A home's row is rewritten but for its tenant and its connector.
LEMMA HomeFieldsKeepOwners ==
  ASSUME IInv, NEW h \in Homes, homes[h] # None, NEW o \in Origins, NEW q \in BOOLEAN,
         homes' = [homes EXCEPT ![h].origin = o, ![h].queue = q],
         UNCHANGED <<accounts, connectors>>
  PROVE  OwnersStay
<1> DEFINE row == [homes[h] EXCEPT !.origin = o, !.queue = q]
<1>1. homes[h] \in HomeRows
  BY DEF IInv, Typed, TablesTyped
<1>2. /\ row \in HomeRows /\ row.connector = homes[h].connector
      /\ row.tenant = homes[h].tenant
  BY <1>1 DEF HomeRows
<1>3. homes' = [homes EXCEPT ![h] = row]
  OBVIOUS
<1> HIDE DEF row
<1>4. NamesItsOwn(h) /\ row.connector # None => connectors[row.connector].home = h
  BY <1>2 DEF NamesItsOwn
<1> QED
  BY <1>2, <1>3, <1>4, HomeRowKeepsOwners

\* A link's row keeps its tenant and goes to a home of that tenant.
LEMMA LinkRowKeepsOwners ==
  ASSUME IInv, NEW a \in AlexaUsers, NEW row \in AccountRows,
         accounts[a] # None => row.tenant = accounts[a].tenant,
         homes[row.home].tenant = row.tenant,
         accounts' = [accounts EXCEPT ![a] = row], UNCHANGED <<homes, connectors>>
  PROVE  OwnersStay
<1>1. accounts \in [AlexaUsers -> AccountRows \cup {None}]
  BY DEF IInv, Typed, TablesTyped
<1>2. \A b \in AlexaUsers : accounts'[b] = IF b = a THEN row ELSE accounts[b]
  BY <1>1
<1> QED
  BY <1>2 DEF OwnersStay, NamesItsOwn, StaysInItsTenant

-----------------------------------------------------------------------------
(* The reads and the request that goes on *)

\* A request keeps to its checks: its step moves no row to another owner, and
\* what it has checked afterwards is so.
Keeps(r) == OwnersStay /\ (at'[r] # "idle" => Current(r)')

\* The request is over, or goes on after a statement that changed no row.
LEMMA ReadKeeps ==
  ASSUME IInv, NEW r \in Requests, UNCHANGED tables, End(r) \/ Current(r)'
  PROVE  Keeps(r)
  BY ReadsKeepOwners DEF Keeps, End, IInv, Typed

LEMMA AdminReadsKeep ==
  ASSUME IInv, NEW r \in Requests, Current(r),
         HomeRead(r) \/ UserRead(r) \/ LinkReadUser(r) \/ LinkReadHome(r) \/ LinkReadAccount(r)
  PROVE  Keeps(r)
<1>1. UNCHANGED tables
  BY DEF HomeRead, UserRead, LinkReadUser, LinkReadHome, LinkReadAccount
<1> SUFFICES ASSUME ~End(r) PROVE Current(r)'
  BY <1>1, ReadKeeps
<1>2. CASE HomeRead(r)
  BY <1>2, GoMoves DEF HomeRead, At, Current
<1>3. CASE UserRead(r)
  BY <1>3, GoMoves DEF UserRead, At, Current
<1>4. CASE LinkReadUser(r)
  BY <1>4, GoMoves DEF LinkReadUser, At, Current
<1>5. CASE LinkReadHome(r)
  BY <1>1, <1>5, GoMoves DEF LinkReadHome, At, Current, OwnHome, tables
<1>6. CASE LinkReadAccount(r)
  BY <1>1, <1>6, GoMoves DEF LinkReadAccount, At, Current, OwnHome, MayLink, tables
<1> QED
  BY <1>2, <1>3, <1>4, <1>5, <1>6

LEMMA ConnectorReadsKeep ==
  ASSUME IInv, NEW r \in Requests, Current(r),
         BootstrapReadHome(r) \/ RegisterReadHome(r) \/ ReadConnector(r) \/ StreamRead(r)
  PROVE  Keeps(r)
<1>1. UNCHANGED tables
  BY DEF BootstrapReadHome, RegisterReadHome, ReadConnector, StreamRead
<1> SUFFICES ASSUME ~End(r) PROVE Current(r)'
  BY <1>1, ReadKeeps
<1>2. CASE BootstrapReadHome(r) \/ RegisterReadHome(r)
  BY <1>1, <1>2, GoMoves DEF BootstrapReadHome, RegisterReadHome, At, Current, OwnHome, tables
<1>3. CASE ReadConnector(r)
  BY <1>1, <1>3, GoMoves DEF ReadConnector, At, Current, OwnHome, MayBind, tables
<1>4. CASE StreamRead(r)
  BY <1>4, GoMoves DEF StreamRead, At, Current
<1> QED
  BY <1>2, <1>3, <1>4

LEMMA PlayReadsKeep ==
  ASSUME IInv, NEW r \in Requests, PlayReadAccount(r) \/ PlayCount(r) \/ PlaySelect(r)
  PROVE  Keeps(r)
<1>1. op[r].kind = "play" /\ UNCHANGED tables
  BY DEF PlayReadAccount, PlayCount, PlaySelect, At
<1> SUFFICES ASSUME ~End(r) PROVE Current(r)'
  BY <1>1, ReadKeeps
<1>2. ASSUME NEW h \in Homes, NEW t, accounts[op[r].alexa] # None \/ homes[h].tenant = t,
             Go(r, "linkUser", [tenant |-> t, home |-> h])
      PROVE  Current(r)'
  BY <1>1, <1>2, GoMoves DEF Current, tables
<1>3. ASSUME NEW l \in {"countProvisioned", "countActive", "selectProvisioned", "selectActive"},
             Go(r, l, None)
      PROVE  Current(r)'
  BY <1>1, <1>3, GoMoves DEF Current
<1>4. CASE PlayReadAccount(r)
  <2>1. op[r].alexa \in AlexaUsers
    BY <1>4, Under DEF PlayReadAccount, At, PlayOps
  <2>2. accounts[op[r].alexa] # None => accounts[op[r].alexa].home \in Homes
    BY <2>1 DEF IInv, Typed, TablesTyped, AccountRows
  <2> QED
    BY <1>2, <1>3, <1>4, <2>2 DEF PlayReadAccount
<1>5. CASE PlayCount(r) \/ PlaySelect(r)
  BY <1>2, <1>3, <1>5 DEF PlayCount, PlaySelect, Provisioned, Active
<1> QED
  BY <1>4, <1>5

(* The writes *)

\* The request is over after a write.
LEMMA EndKeepsChecks ==
  ASSUME IInv, NEW r \in Requests, End(r), OwnersStay
  PROVE  Keeps(r)
  BY DEF Keeps, End, IInv, Typed

LEMMA HomeWritesKeep ==
  ASSUME IInv, NEW r \in Requests, HomeWrite(r)
  PROVE  Keeps(r)
<1>1. at[r] = "write" /\ op[r] \in HomeOps /\ op[r].kind = "home" /\ Ready(r)
  BY Under DEF HomeWrite, At
<1>2. /\ op[r].home \in Homes /\ op[r].tenant \in Tenants /\ op[r].queue \in BOOLEAN
      /\ op[r].origin \in Origins \cup {None}
  BY <1>1 DEF HomeOps
<1>3. OwnersStay
  <2>1. CASE UNCHANGED homes
    BY <2>1, ReadsKeepOwners DEF HomeWrite, tables
  <2>2. CASE seen[r] = None /\ homes[op[r].home] = None /\ op[r].origin # None
    <3> DEFINE row == [tenant |-> op[r].tenant, origin |-> op[r].origin,
                       queue |-> op[r].queue, connector |-> None]
    <3>1. row \in HomeRows /\ row.connector = None
      BY <1>2, <2>2 DEF HomeRows
    <3>2. homes' = [homes EXCEPT ![op[r].home] = row]
      BY <2>2 DEF HomeWrite, InsertHome
    <3> HIDE DEF row
    <3> QED
      BY <1>2, <2>2, <3>1, <3>2, HomeRowKeepsOwners DEF HomeWrite
  <2>3. CASE seen[r] # None /\ homes[op[r].home].tenant = op[r].tenant
    <3> DEFINE merged == MergeHome(op[r], seen[r])
    <3>1. seen[r] \in HomeRows /\ homes[op[r].home] # None
      BY <1>1, <2>3 DEF Ready
    <3>2. merged.origin \in Origins /\ merged.queue \in BOOLEAN
      BY <1>2, <3>1 DEF MergeHome, OrElse, HomeRows
    <3>3. homes' = [homes EXCEPT ![op[r].home].origin = merged.origin,
                                 ![op[r].home].queue = merged.queue]
      BY <2>3 DEF HomeWrite, UpdateHome
    <3> HIDE DEF merged
    <3> QED
      BY <1>2, <3>1, <3>2, <3>3, HomeFieldsKeepOwners DEF HomeWrite
  <2> QED
    BY <2>1, <2>2, <2>3 DEF HomeWrite, InsertHome, UpdateHome
<1> QED
  BY <1>3, EndKeepsChecks DEF HomeWrite

LEMMA HomesOfConnectorsKeep ==
  ASSUME IInv, NEW r \in Requests, Current(r),
         BootstrapWriteHome(r) \/ RegisterWriteHome(r) \/ StreamWrite(r)
  PROVE  Keeps(r)
<1>1. at[r] # "idle" /\ End(r) /\ UNCHANGED <<users, accounts, connectors>>
  BY DEF BootstrapWriteHome, RegisterWriteHome, StreamWrite, At
<1>2. op[r].home \in Homes /\ homes[op[r].home] \in HomeRows \cup {None}
  BY <1>1, Under
  DEF BootstrapWriteHome, RegisterWriteHome, StreamWrite, At, BootstrapOps, RegisterOps,
      StreamOps, IInv, Typed, TablesTyped
<1> SUFFICES OwnersStay
  BY <1>1, EndKeepsChecks
<1>3. CASE UNCHANGED homes
  BY <1>1, <1>3, ReadsKeepOwners DEF tables
<1>4. ASSUME NEW row \in HomeRows, homes' = [homes EXCEPT ![op[r].home] = row],
             row.tenant = homes[op[r].home].tenant,
             NamesItsOwn(op[r].home) /\ row.connector # None =>
                 connectors[row.connector].home = op[r].home
      PROVE  OwnersStay
  BY <1>1, <1>2, <1>4, HomeRowKeepsOwners
<1>5. CASE BootstrapWriteHome(r) /\ OwnHome(op[r])
  <2> DEFINE row == [homes[op[r].home] EXCEPT !.connector = op[r].connector]
  <2>1. op[r].connector \in Connectors /\ connectors[op[r].connector].home = op[r].home
    BY <1>1, <1>5, Under DEF BootstrapWriteHome, At, Current, BootstrapOps
  <2>2. row \in HomeRows /\ row.connector = op[r].connector /\ row.tenant = homes[op[r].home].tenant
    BY <1>2, <1>5, <2>1 DEF HomeRows, OwnHome
  <2>3. homes' = [homes EXCEPT ![op[r].home] = row]
    BY <1>5 DEF BootstrapWriteHome
  <2> QED
    BY <1>4, <2>1, <2>2, <2>3
<1>6. CASE RegisterWriteHome(r)
  <2> DEFINE row == Registered(op[r], homes[op[r].home])
  <2>1. op[r] \in RegisterOps /\ op[r].kind = "register" /\ at[r] = "writeHome"
    BY <1>6, Under DEF RegisterWriteHome, At
  <2>2. OwnHome(op[r]) /\ connectors[op[r].connector].home = op[r].home
    BY <2>1 DEF Current
  <2>3. row \in HomeRows /\ row.connector = op[r].connector /\ row.tenant = homes[op[r].home].tenant
    BY <1>2, <2>1, <2>2 DEF Registered, OrElse, RegisterOps, HomeRows, OwnHome
  <2>4. homes' = [homes EXCEPT ![op[r].home] = row]
    BY <1>2, <1>6 DEF RegisterWriteHome, IInv, Typed, TablesTyped
  <2> QED
    BY <1>4, <2>2, <2>3, <2>4
<1>7. CASE StreamWrite(r) /\ OwnHome(op[r])
  <2> DEFINE row == [homes[op[r].home] EXCEPT !.origin = op[r].origin]
  <2>1. op[r].origin \in Origins
    BY <1>7, Under DEF StreamWrite, At, StreamOps
  <2>2. /\ row \in HomeRows /\ row.tenant = homes[op[r].home].tenant
        /\ row.connector = homes[op[r].home].connector
    BY <1>2, <1>7, <2>1 DEF HomeRows, OwnHome
  <2>3. NamesItsOwn(op[r].home) /\ row.connector # None =>
            connectors[row.connector].home = op[r].home
    BY <1>7, <2>2 DEF NamesItsOwn, OwnHome
  <2>4. homes' = [homes EXCEPT ![op[r].home] = row]
    BY <1>7 DEF StreamWrite
  <2> QED
    BY <1>4, <2>2, <2>3, <2>4
<1> QED
  BY <1>3, <1>5, <1>6, <1>7 DEF BootstrapWriteHome, StreamWrite

LEMMA OtherWritesKeep ==
  ASSUME IInv, NEW r \in Requests, Current(r), UserWrite(r) \/ LinkWrite(r) \/ WriteConnector(r)
  PROVE  Keeps(r)
<1>1. CASE UserWrite(r)
  <2>1. OwnersStay
    BY <1>1 DEF UserWrite, OwnersStay, NamesItsOwn, StaysInItsTenant
  <2> QED
    BY <1>1, <2>1, EndKeepsChecks DEF UserWrite
<1>2. CASE LinkWrite(r)
  <2> DEFINE row == [user |-> op[r].user, tenant |-> op[r].tenant, home |-> op[r].home]
  <2>1. op[r] \in LinkOps /\ OwnHome(op[r]) /\ MayLink(op[r], accounts[op[r].alexa])
    BY <1>2, Under DEF LinkWrite, At, Current
  <2>2. /\ row \in AccountRows /\ row.tenant = op[r].tenant /\ row.home = op[r].home
        /\ op[r].alexa \in AlexaUsers
    BY <2>1 DEF LinkOps, AccountRows
  <2>3. accounts' = [accounts EXCEPT ![op[r].alexa] = row] /\ UNCHANGED <<homes, connectors>>
    BY <1>2 DEF LinkWrite, Link
  <2> HIDE DEF row
  <2>4. OwnersStay
    BY <2>1, <2>2, <2>3, LinkRowKeepsOwners DEF OwnHome, MayLink
  <2> QED
    BY <1>2, <2>4, EndKeepsChecks DEF LinkWrite
<1>3. CASE WriteConnector(r)
  <2> DEFINE row == [tenant |-> op[r].tenant, home |-> op[r].home]
  <2>1. op[r].connector \in Connectors /\ at[r] = "writeConnector"
        /\ op[r].kind \in {"bootstrap", "register"}
    BY <1>3, Under DEF WriteConnector, At, BootstrapOps, RegisterOps
  <2>2. connectors[op[r].connector] \in {None, row}
    BY <2>1 DEF Current, MayBind
  <2>3. UNCHANGED <<homes, users, accounts>>
    BY <1>3 DEF WriteConnector
  <2>4. CASE UNCHANGED connectors /\ End(r)
    BY <2>3, <2>4, ReadKeeps DEF tables
  <2>5. CASE /\ homes[op[r].home] # None
             /\ connectors' = [connectors EXCEPT ![op[r].connector] = row]
             /\ Go(r, "writeHome", None)
    <3> HIDE DEF row
    <3>1. connectors \in [Connectors -> ConnectorRows \cup {None}]
          /\ homes \in [Homes -> HomeRows \cup {None}]
      BY DEF IInv, Typed, TablesTyped
    <3>2. \A c \in Connectors : connectors[c] # None => connectors'[c] = connectors[c]
      BY <2>2, <2>5, <3>1
    <3>3. \A h \in Homes : homes[h] # None /\ homes[h].connector # None =>
              homes[h].connector \in Connectors /\ connectors[homes[h].connector] # None
      BY <3>1 DEF HomeRows, IInv, ReferencesResolve
    <3>4. OwnersStay
      BY <2>3, <3>2, <3>3 DEF OwnersStay, NamesItsOwn, StaysInItsTenant
    <3>5. OwnHome(op[r])
      BY <2>1, <2>5 DEF Current, OwnHome
    <3>6. connectors'[op[r].connector] = row
      BY <2>1, <2>5, <3>1
    <3>7. Current(r)'
      BY <2>1, <2>3, <2>5, <3>5, <3>6, GoMoves DEF Current, OwnHome, row
    <3> QED
      BY <3>4, <3>7 DEF Keeps
  <2> QED
    BY <1>3, <2>4, <2>5 DEF WriteConnector, HomeKeyHolds
<1> QED
  BY <1>1, <1>2, <1>3

LEMMA AutoLinksKeep ==
  ASSUME IInv, NEW r \in Requests, Current(r), AutoLinkUser(r) \/ AutoLinkAccount(r)
  PROVE  Keeps(r)
<1>1. /\ at[r] \in {"linkUser", "linkAccount"} /\ op[r].kind = "play"
      /\ Ready(r) /\ op[r].alexa \in AlexaUsers
  BY Under DEF AutoLinkUser, AutoLinkAccount, At, PlayOps
<1>2. seen[r].home \in Homes /\ seen[r].tenant \in Tenants
  BY <1>1 DEF Ready, Places
<1>3. CASE AutoLinkUser(r)
  <2>1. OwnersStay
    BY <1>3 DEF AutoLinkUser, OwnersStay, NamesItsOwn, StaysInItsTenant
  <2>2. Current(r)'
    BY <1>1, <1>3, GoMoves DEF AutoLinkUser, Current
  <2> QED
    BY <2>1, <2>2 DEF Keeps
<1>4. CASE AutoLinkAccount(r)
  <2> DEFINE row == [user |-> op[r].alexa, tenant |-> seen[r].tenant, home |-> seen[r].home]
  <2>1. row \in AccountRows /\ row.tenant = seen[r].tenant /\ row.home = seen[r].home
    BY <1>1, <1>2, AlexaUsersAreUserIds DEF AccountRows
  <2>2. /\ \/ accounts' = accounts
           \/ accounts[op[r].alexa] = None /\ accounts' = [accounts EXCEPT ![op[r].alexa] = row]
        /\ UNCHANGED <<homes, users, connectors>>
    BY <1>1, <1>4 DEF AutoLinkAccount, LinkIfNew, OrElse, IInv, Typed, TablesTyped
  <2> HIDE DEF row
  <2>3. accounts[op[r].alexa] = None => homes[row.home].tenant = row.tenant
    BY <1>1, <2>1 DEF Current
  <2>4. OwnersStay
    BY <1>1, <2>1, <2>2, <2>3, ReadsKeepOwners, LinkRowKeepsOwners DEF tables
  <2> QED
    BY <1>4, <2>4, EndKeepsChecks DEF AutoLinkAccount
<1> QED
  BY <1>3, <1>4

-----------------------------------------------------------------------------
(* The steps of the others, and the theorems on owners *)

\* A request stays as current as it was unless it is overtaken.
LEMMA OthersKeepChecks ==
  ASSUME IInv, IInv', NEW q \in Requests, at[q] # "idle", Current(q),
         at'[q] = at[q], op'[q] = op[q], seen'[q] = seen[q],
         Checked(q)' = Checked(q),
         \A a \in AlexaUsers : accounts[a] # None => accounts'[a] # None
  PROVE  Current(q)'
<1>1. /\ op[q] \in Ops /\ Ready(q)
      /\ op[q].kind = "link" => op[q] \in LinkOps
      /\ op[q].kind = "bootstrap" => op[q] \in BootstrapOps
      /\ op[q].kind = "register" => op[q] \in RegisterOps
      /\ op[q].kind = "play" => op[q] \in PlayOps
  BY Under
<1>2. \A o : o.home \in Homes /\ o.tenant \in Tenants =>
          /\ OwnHome(o) <=> HomeOwner(o.home) = o.tenant
          /\ OwnHome(o)' <=> HomeOwner(o.home)' = o.tenant
          /\ homes[o.home] = None <=> HomeOwner(o.home) = None
          /\ homes'[o.home] = None <=> HomeOwner(o.home)' = None
  BY NoneIsNone DEF OwnHome, HomeOwner, IInv, Typed, TablesTyped, HomeRows
<1>3. CASE op[q].kind = "link"
  <2>1. op[q].home \in Homes /\ op[q].tenant \in Tenants /\ op[q].alexa \in AlexaUsers
    BY <1>1, <1>3 DEF LinkOps
  <2>2. at[q] \in {"readAccount", "write"} => HomeOwner(op[q].home)' = HomeOwner(op[q].home)
    BY <1>3 DEF Checked
  <2>3. at[q] = "write" => LinkOwner(op[q].alexa)' = LinkOwner(op[q].alexa)
    BY <1>3 DEF Checked
  <2>4. /\ MayLink(op[q], accounts[op[q].alexa]) <=>
               LinkOwner(op[q].alexa) \in {None, op[q].tenant}
        /\ MayLink(op[q], accounts[op[q].alexa])' <=>
               LinkOwner(op[q].alexa)' \in {None, op[q].tenant}
    BY <2>1, NoneIsNone DEF MayLink, LinkOwner, IInv, Typed, TablesTyped, AccountRows
  <2> QED
    BY <1>2, <1>3, <2>1, <2>2, <2>3, <2>4 DEF Current
<1>4. CASE op[q].kind \in {"bootstrap", "register"}
  <2>1. op[q].home \in Homes /\ op[q].tenant \in Tenants
    BY <1>1, <1>4 DEF BootstrapOps, RegisterOps
  <2>2. at[q] # "readHome" => HomeOwner(op[q].home)' = HomeOwner(op[q].home)
    BY <1>4 DEF Checked
  <2>3. at[q] \in {"writeConnector", "writeHome"} =>
            connectors'[op[q].connector] = connectors[op[q].connector]
    BY <1>4 DEF Checked
  <2> QED
    BY <1>2, <1>4, <2>1, <2>2, <2>3 DEF Current, MayBind
<1>5. CASE op[q].kind = "play"
  <2> SUFFICES ASSUME at[q] \in {"linkUser", "linkAccount"}
               PROVE  accounts'[op[q].alexa] # None \/ homes'[seen[q].home].tenant = seen[q].tenant
    BY <1>5 DEF Current
  <2>1. seen[q].home \in Homes /\ homes[seen[q].home] # None /\ op[q].alexa \in AlexaUsers
    BY <1>1, <1>5 DEF Ready, Places, PlayOps
  <2>2. HomeOwner(seen[q].home)' = HomeOwner(seen[q].home)
    BY <1>5 DEF Checked
  <2>3. Ready(q)'
    BY DEF IInv, RequestsReady
  <2>4. homes'[seen[q].home] # None
    BY <1>5, <2>3 DEF Ready
  <2> QED
    BY <1>5, <2>1, <2>2, <2>4 DEF Current, HomeOwner
<1>6. CASE op[q].kind \in {"home", "user", "stream"}
  BY <1>6 DEF Current
<1> QED
  BY <1>1, <1>3, <1>4, <1>5, <1>6, OpFields

LEMMA ArrivalsKeep ==
  ASSUME IInv, NEW r \in Requests, Arrive(r)
  PROVE  Keeps(r) /\ UNCHANGED tables
<1>1. UNCHANGED tables
  BY DEF Arrive, Begin
<1>2. ASSUME NEW o, NEW l, Begin(r, o, l), l \in {"read", "readHome", "readAccount"},
             l = "readAccount" => o.kind = "play"
      PROVE  Current(r)'
  BY <1>2 DEF Begin, IInv, Typed, Current
<1>3. \A o \in PlayOps : o.kind = "play"
  BY DEF PlayOps
<1>4. Current(r)'
  BY <1>2, <1>3 DEF Arrive
<1> QED
  BY <1>1, <1>4, ReadKeeps

\* A step of one request leaves the others where they are.
LEMMA StepsAreOwn ==
  ASSUME IInv, NEW r \in Requests, Arrive(r) \/ Statement(r) \/ StatementFails(r),
         NEW q \in Requests, q # r
  PROVE  at'[q] = at[q] /\ op'[q] = op[q] /\ seen'[q] = seen[q]
<1>1. /\ op \in [Requests -> Ops \cup {None}] /\ at \in [Requests -> Labels]
      /\ seen \in [Requests -> SeenValues]
  BY DEF IInv, Typed
<1>2. CASE End(r)
  BY <1>1, <1>2 DEF End
<1>3. ASSUME NEW l, NEW s, Go(r, l, s)
      PROVE  at'[q] = at[q] /\ op'[q] = op[q] /\ seen'[q] = seen[q]
  BY <1>1, <1>3 DEF Go
<1>4. CASE Arrive(r)
  BY <1>1, <1>4 DEF Arrive, Begin
<1>5. CASE StatementFails(r)
  BY <1>2, <1>5 DEF StatementFails, AfterFailure
<1>6. CASE Statement(r)
  BY <1>2, <1>3, <1>6
  DEF Statement, HomeRead, HomeWrite, UserRead, UserWrite, LinkReadUser, LinkReadHome,
      LinkReadAccount, LinkWrite, BootstrapReadHome, RegisterReadHome, ReadConnector,
      WriteConnector, BootstrapWriteHome, RegisterWriteHome, PlayReadAccount, PlayCount,
      PlaySelect, AutoLinkUser, AutoLinkAccount, StreamRead, StreamWrite
<1> QED
  BY <1>4, <1>5, <1>6

\* Every statement takes its request to another one, or ends it.
LEMMA StatementsMoveOn ==
  ASSUME IInv, NEW r \in Requests, Statement(r)
  PROVE  at[r] # "idle" /\ at'[r] # at[r]
<1>1. /\ at \in [Requests -> Labels]
      /\ \A l, s : Go(r, l, s) => at'[r] = l
      /\ End(r) => at'[r] = "idle"
  BY DEF IInv, Typed, Go, End
<1> QED
  BY <1>1
  DEF Statement, At, HomeRead, HomeWrite, UserRead, UserWrite, LinkReadUser, LinkReadHome,
      LinkReadAccount, LinkWrite, BootstrapReadHome, RegisterReadHome, ReadConnector,
      WriteConnector, BootstrapWriteHome, RegisterWriteHome, PlayReadAccount, PlayCount,
      PlaySelect, AutoLinkUser, AutoLinkAccount, StreamRead, StreamWrite

\* Links are never removed.
LEMMA LinksStay ==
  ASSUME IInv, NEW r \in Requests, Arrive(r) \/ Statement(r) \/ StatementFails(r),
         NEW a \in AlexaUsers, accounts[a] # None
  PROVE  accounts'[a] # None
<1>1. accounts \in [AlexaUsers -> AccountRows \cup {None}]
  BY DEF IInv, Typed, TablesTyped
<1>2. CASE LinkWrite(r)
  <2>1. Link(op[r]) \in AccountRows
    BY <1>2, Under DEF LinkWrite, At, Link, LinkOps, AccountRows
  <2> QED
    BY <1>1, <1>2, <2>1, NoneIsNone DEF LinkWrite
<1>3. CASE AutoLinkAccount(r)
  BY <1>1, <1>3 DEF AutoLinkAccount, LinkIfNew, OrElse
<1>4. CASE UNCHANGED accounts
  BY <1>4
<1> QED
  BY <1>2, <1>3, <1>4
  DEF Arrive, Begin, StatementFails, Statement, HomeRead, HomeWrite, UserRead, UserWrite,
      LinkReadUser, LinkReadHome, LinkReadAccount, BootstrapReadHome, RegisterReadHome,
      ReadConnector, WriteConnector, BootstrapWriteHome, RegisterWriteHome, PlayReadAccount,
      PlayCount, PlaySelect, AutoLinkUser, StreamRead, StreamWrite, tables

\* A step of a request that was not overtaken keeps every owner; one that was
\* is an overtaken request's act, and arrivals and failures change no row.
LEMMA OwnStepKeeps ==
  ASSUME IInv, ChecksHold, NEW r \in Requests, Arrive(r) \/ Statement(r) \/ StatementFails(r)
  PROVE  /\ OwnersStay \/ OvertakenActs
         /\ at'[r] # "idle" /\ ~(overtaken[r] /\ at[r] # "idle") => Current(r)'
<1>1. CASE Arrive(r)
  BY <1>1, ArrivalsKeep DEF Keeps
<1>2. CASE StatementFails(r)
  BY <1>2, ReadKeeps DEF StatementFails, AfterFailure, Keeps
<1>3. CASE Statement(r) /\ overtaken[r]
  BY <1>3, StatementsMoveOn DEF OvertakenActs
<1>4. CASE Statement(r) /\ ~overtaken[r]
  <2>1. Current(r)
    BY <1>4, StatementsMoveOn DEF ChecksHold
  <2> QED
    BY <1>4, <2>1, AdminReadsKeep, ConnectorReadsKeep, PlayReadsKeep, HomeWritesKeep,
       HomesOfConnectorsKeep, OtherWritesKeep, AutoLinksKeep
    DEF Statement, Keeps
<1> QED
  BY <1>1, <1>2, <1>3, <1>4

LEMMA StepKeepsChecks ==
  ASSUME IInv, ChecksHold, [Next]_vars
  PROVE  ChecksHold' /\ (OwnersStay \/ OvertakenActs)
<1>1. CASE UNCHANGED vars
  <2>1. OwnersStay
    BY <1>1, ReadsKeepOwners DEF vars
  <2>2. ChecksHold'
    BY <1>1 DEF vars, tables, ChecksHold, Current, OwnHome, MayLink, MayBind
  <2> QED
    BY <2>1, <2>2
<1>2. ASSUME NEW r \in Requests, Arrive(r) \/ Statement(r) \/ StatementFails(r), Overtakes(r)
      PROVE  ChecksHold' /\ (OwnersStay \/ OvertakenActs)
  <2>1. OwnersStay \/ OvertakenActs
    BY <1>2, OwnStepKeeps
  <2>2. ASSUME NEW q \in Requests, at'[q] # "idle", ~overtaken'[q] PROVE Current(q)'
    <3>1. /\ ~overtaken[q]
          /\ q # r /\ at[q] # "idle" => Checked(q)' = Checked(q)
      BY <1>2, <2>2 DEF Overtakes
    <3>2. CASE q = r
      BY <1>2, <2>2, <3>1, <3>2, OwnStepKeeps
    <3>3. CASE q # r
      <4>1. at'[q] = at[q] /\ op'[q] = op[q] /\ seen'[q] = seen[q]
        BY <1>2, <3>3, StepsAreOwn
      <4>2. \A a \in AlexaUsers : accounts[a] # None => accounts'[a] # None
        BY <1>2, LinksStay
      <4>3. IInv'
        BY StepIInv
      <4> QED
        BY <2>2, <3>1, <3>3, <4>1, <4>2, <4>3, OthersKeepChecks DEF ChecksHold
    <3> QED
      BY <3>2, <3>3
  <2> QED
    BY <2>1, <2>2 DEF ChecksHold
<1> QED
  BY <1>1, <1>2 DEF Next

LEMMA ChecksInvariance == Spec => [](IInv /\ ChecksHold)
<1>1. Init => ChecksHold
  BY DEF Init, ChecksHold
<1>2. IInv /\ ChecksHold /\ [Next]_vars => ChecksHold'
  BY StepKeepsChecks
<1> QED
  BY <1>1, <1>2, Invariance, PTL DEF Spec

\* However requests interleave, fail and stop half-way, homes and links keep
\* their tenant and connectors their home, and a home that names a connector of
\* its own goes on doing so, unless a request acts on an owner it checked that
\* another has changed since.
THEOREM RowsAreKept == Spec => RowsKeepTheirOwner
<1>1. IInv /\ ChecksHold /\ [Next]_vars =>
        \/ /\ \A h \in Homes : homes[h] # None => homes'[h].tenant = homes[h].tenant
           /\ \A a \in AlexaUsers :
                 accounts[a] # None => accounts'[a].tenant = accounts[a].tenant
           /\ \A c \in Connectors : connectors[c] # None => connectors'[c] = connectors[c]
           /\ \A h \in Homes : NamesItsOwn(h) => NamesItsOwn(h)'
        \/ OvertakenActs
  BY StepKeepsChecks DEF OwnersStay
<1> QED
  BY <1>1, ChecksInvariance, PTL DEF Spec, RowsKeepTheirOwner

\* Nor does any other step take a link out of its home's tenant.
THEOREM LinksAreInOneTenant == Spec => LinksStayInOneTenant
<1>1. IInv /\ ChecksHold /\ [Next]_vars =>
        (\A a \in AlexaUsers : StaysInItsTenant(a) => StaysInItsTenant(a)') \/ OvertakenActs
  BY StepKeepsChecks DEF OwnersStay
<1> QED
  BY <1>1, ChecksInvariance, PTL DEF Spec, LinksStayInOneTenant

=============================================================================
