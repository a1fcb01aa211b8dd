--------------------------- MODULE WorkspacesProofs ---------------------------
(***************************************************************************)
(* Proofs about Workspaces, for any users, names and requests: what the    *)
(* guard has found holds until its handler is done, whoever else is at     *)
(* work, and what becomes of a key's name when the key is rotated.         *)
(***************************************************************************)
EXTENDS Workspaces, TLAPS

WorkspaceRows == [owner : Users, slug : Slugs, title : Titles, isDeleted : BOOLEAN]
KeyRows == [api : Apis \cup {None}, prefix : Seq(Parts \cup Ids),
            environment : {None, "production", "development"}, name : Seq(Parts), active : BOOLEAN]
RequestStates == [pc : {"idle", "guarded", "found"}, user : Users \cup {None},
                  slug : Slugs \cup {None}, workspace : Workspaces \cup {None},
                  api : Apis \cup {None}]

\* What each variable may hold, in full.
Types ==
  /\ workspace \in [Workspaces -> {NoWorkspace} \cup WorkspaceRows]
  /\ api \in [Apis -> Workspaces \cup {None}]
  /\ key \in [Ids -> KeyRows]
  /\ request \in [Requests -> RequestStates]

\* A slug belongs to one workspace.
UniqueSlugs ==
  \A w1, w2 \in Workspaces :
    workspace[w1].slug \in Slugs /\ workspace[w1].slug = workspace[w2].slug => w1 = w2

\* What a request has found is still there.
StillFound ==
  \A r \in Requests :
    LET q == request[r] IN
    /\ q.pc # "idle" => /\ q.workspace \in Workspaces
                        /\ q.user \in Users
                        /\ workspace[q.workspace].owner = q.user
                        /\ workspace[q.workspace].slug = q.slug
    /\ q.pc = "found" => q.api \in Apis /\ api[q.api] = q.workspace

\* A key is as createApiKey made it, or as rotateApiKey makes it of that.
Shaped(k) ==
  /\ k.api \in Apis /\ k.name \in Names
  /\ \E env \in Envs, id \in Ids :
       LET p == KeyPrefix(k.name, env, id) IN
       k.environment = Environment(env) /\ (k.prefix = p \/ k.prefix = Rotated(p, id))

KeysShaped == \A i \in Ids : key[i] # NoKey => Shaped(key[i])

OwnerInv == Types /\ UniqueSlugs /\ StillFound
Inv == OwnerInv /\ KeysShaped

-----------------------------------------------------------------------------
(* Requests. *)

\* A request that is done has found nothing.
LEMMA ReturnKeeps ==
  ASSUME OwnerInv, NEW r \in Requests, Return(r), UNCHANGED <<workspace, api>>
  PROVE  request' \in [Requests -> RequestStates] /\ StillFound'
<1>1. \A q \in Requests : request'[q] = IF q = r THEN NoRequest ELSE request[q]
  BY DEF Return, OwnerInv, Types
<1>2. NoRequest \in RequestStates /\ NoRequest.pc = "idle"
  BY DEF NoRequest, RequestStates
<1>3. request' \in [Requests -> RequestStates]
  BY <1>2 DEF Return, OwnerInv, Types
<1> QED
  BY <1>1, <1>2, <1>3 DEF OwnerInv, StillFound

\* A row that is written keeps what requests have found, if it keeps its owner and slug.
LEMMA RowKeeps ==
  ASSUME OwnerInv, NEW w \in Workspaces, NEW row \in WorkspaceRows,
         workspace' = [workspace EXCEPT ![w] = row],
         \/ workspace[w].owner = row.owner /\ workspace[w].slug = row.slug
         \/ workspace[w] = NoWorkspace /\ ~Taken(row.slug),
         api' = api, \A r \in Requests : request'[r] \in {request[r], NoRequest}
  PROVE  /\ workspace' \in [Workspaces -> {NoWorkspace} \cup WorkspaceRows]
         /\ UniqueSlugs' /\ StillFound'
<1>1. \A v \in Workspaces : workspace'[v] = IF v = w THEN row ELSE workspace[v]
  BY DEF OwnerInv, Types
<1>2. workspace' \in [Workspaces -> {NoWorkspace} \cup WorkspaceRows]
  BY DEF OwnerInv, Types
<1>3. UniqueSlugs'
  BY <1>1 DEF OwnerInv, UniqueSlugs, Taken, WorkspaceRows
<1>4. \A r \in Requests : request[r].pc # "idle" => workspace[request[r].workspace].owner # None
  BY NoneAssumption DEF OwnerInv, StillFound
<1>5. NoRequest.pc = "idle" /\ NoWorkspace.owner = None
  BY DEF NoRequest, NoWorkspace
<1>6. \A v \in Workspaces :
        /\ workspace'[v].owner = workspace[v].owner /\ workspace'[v].slug = workspace[v].slug
        \/ workspace[v].owner = None
  BY <1>1, <1>5
<1>7. StillFound'
  BY <1>4, <1>5, <1>6 DEF OwnerInv, StillFound
<1> QED
  BY <1>2, <1>3, <1>7

\* The request of r takes its next query.
LEMMA RequestKeeps ==
  ASSUME OwnerInv, NEW r \in Requests, NEW q \in RequestStates,
         request' = [request EXCEPT ![r] = q],
         q.workspace \in Workspaces, q.user \in Users,
         workspace[q.workspace].owner = q.user, workspace[q.workspace].slug = q.slug,
         q.pc = "found" => q.api \in Apis /\ api[q.api] = q.workspace,
         UNCHANGED <<workspace, api>>
  PROVE  request' \in [Requests -> RequestStates] /\ StillFound'
<1>1. \A s \in Requests : request'[s] = IF s = r THEN q ELSE request[s]
  BY DEF OwnerInv, Types
<1>2. request' \in [Requests -> RequestStates]
  BY DEF OwnerInv, Types
<1> QED
  BY <1>1, <1>2 DEF OwnerInv, StillFound

\* The workspace that a guarded request names by its slug is the one the guard has found.
LEMMA GuardHolds == OwnerInv => GuardStillHolds
<1> SUFFICES ASSUME OwnerInv, NEW r \in Requests, NEW w \in Workspaces,
                    request[r].pc # "idle", workspace[w].slug = request[r].slug
             PROVE  w = request[r].workspace /\ workspace[w].owner = request[r].user
  BY DEF GuardStillHolds
<1> DEFINE v == request[r].workspace
<1>1. /\ v \in Workspaces /\ request[r].user \in Users
      /\ workspace[v].owner = request[r].user /\ workspace[v].slug = request[r].slug
  BY DEF OwnerInv, StillFound
<1>2. workspace[v] # NoWorkspace
  BY <1>1, NoneAssumption DEF NoWorkspace
<1>3. workspace[v].slug \in Slugs
  BY <1>1, <1>2 DEF OwnerInv, Types, WorkspaceRows
<1>4. v = w
  BY <1>1, <1>3 DEF OwnerInv, UniqueSlugs
<1> QED
  BY <1>1, <1>4

-----------------------------------------------------------------------------
(* Keys. *)

\* The first two parts of a key are those of its name, or its name and its environment.
LEMMA FirstParts ==
  ASSUME NEW name \in Names, NEW env \in Envs, NEW id \in Ids
  PROVE  LET p == KeyPrefix(name, env, id) IN
         /\ p \in Seq(Parts \cup Ids) /\ Len(p) = Len(name) + 2
         /\ Len(name) = 1 \/ Len(name) > 1
         /\ p[1] = name[1] /\ p[1] \in Parts
         /\ p[2] = (IF Len(name) = 1 THEN env ELSE name[2]) /\ p[2] \in Parts
         /\ Len(name) = 1 => p = <<name[1], env, id>>
<1> DEFINE p == KeyPrefix(name, env, id)
<1>1. name \in Seq(Parts) /\ name # <<>> /\ env \in Parts
  BY FormatAssumption DEF Names
<1>2. Len(name) \in Nat /\ Len(name) >= 1 /\ (Len(name) = 1 \/ Len(name) > 1)
  <2>1. Len(name) \in Nat /\ Len(name) >= 1
    BY <1>1
  <2>2. \A n \in Nat : n >= 1 => n = 1 \/ n > 1
    OBVIOUS
  <2> QED
    BY <2>1, <2>2, Zenon
<1>3. <<env, id>> \in Seq(Parts \cup Ids) /\ name \in Seq(Parts \cup Ids)
  BY <1>1
<1>4. p \in Seq(Parts \cup Ids) /\ Len(p) = Len(name) + 2
  BY <1>3 DEF KeyPrefix
<1>5. \A n \in 1 .. Len(p) : p[n] = IF n <= Len(name) THEN name[n] ELSE <<env, id>>[n - Len(name)]
  BY <1>3 DEF KeyPrefix
<1>6. p[1] = name[1] /\ p[1] \in Parts
  BY <1>1, <1>2, <1>4, <1>5
<1>7. p[2] = (IF Len(name) = 1 THEN env ELSE name[2]) /\ p[2] \in Parts
  <2>1. Len(name) = 1 => p[2] = env /\ p[2] \in Parts
    BY <1>1, <1>4, <1>5
  <2>2. Len(name) > 1 => p[2] = name[2] /\ p[2] \in Parts
    BY <1>1, <1>2, <1>4, <1>5
  <2> HIDE DEF p
  <2> QED
    BY <1>2, <2>1, <2>2
<1>8. Len(name) = 1 => p = <<name[1], env, id>>
  BY <1>1, <1>4, <1>5
<1> QED
  BY <1>2, <1>4, <1>6, <1>7, <1>8

\* A new key is shaped, and so is what a rotation makes of one that is.
LEMMA CreatedShaped ==
  ASSUME NEW x \in Apis, NEW name \in Names, NEW env \in Envs, NEW id \in Ids,
         NEW k, k = [api |-> x, prefix |-> KeyPrefix(name, env, id),
                     environment |-> Environment(env), name |-> name, active |-> TRUE]
  PROVE  k \in KeyRows /\ Shaped(k)
<1>1. KeyPrefix(name, env, id) \in Seq(Parts \cup Ids)
  BY FirstParts
<1>2. k \in KeyRows
  BY <1>1 DEF KeyRows, Names, Environment
<1> QED
  BY <1>2 DEF Shaped

\* A rotation keeps the shape of a prefix.
LEMMA RotatedShaped ==
  ASSUME NEW k \in KeyRows, Shaped(k), NEW new \in Ids,
         NEW h, h = [k EXCEPT !.prefix = Rotated(k.prefix, new)]
  PROVE  h \in KeyRows /\ Shaped(h)
<1> PICK env \in Envs, id \in Ids :
      /\ k.environment = Environment(env)
      /\ \/ k.prefix = KeyPrefix(k.name, env, id)
         \/ k.prefix = Rotated(KeyPrefix(k.name, env, id), id)
  BY DEF Shaped
<1>1. k.name \in Names /\ k.api \in Apis
  BY DEF Shaped
<1> DEFINE p == KeyPrefix(k.name, env, id)
           q == KeyPrefix(k.name, env, new)
<1>2. p[1] = q[1] /\ p[2] = q[2] /\ p[1] \in Parts /\ p[2] \in Parts
  BY <1>1, FirstParts
<1> HIDE DEF p, q
<1>3. Rotated(p, id)[1] = p[1] /\ Rotated(p, id)[2] = p[2]
  BY DEF Rotated
<1>4. Rotated(k.prefix, new) = Rotated(q, new)
  BY <1>2, <1>3 DEF Rotated, p
<1>5. Rotated(q, new) \in Seq(Parts \cup Ids)
  BY <1>2 DEF Rotated
<1>6. /\ h \in KeyRows /\ h.prefix = Rotated(q, new) /\ h.name = k.name /\ h.api = k.api
      /\ h.environment = k.environment
  BY <1>4, <1>5 DEF KeyRows
<1> QED
  BY <1>1, <1>6 DEF Shaped, q

\* What the parser of verify makes of a shaped key.
LEMMA ShapedParses ==
  ASSUME NEW k, Shaped(k)
  PROVE  /\ Len(k.name) = 1 /\ k.name[1] \in Words
              => /\ Parses(k.prefix) /\ LookupKey(k.prefix) = k.prefix
                 /\ k.prefix[1] = k.name[1] /\ Environment(k.prefix[2]) = k.environment
         /\ Parses(k.prefix)
              => \/ Environment(k.prefix[2]) = k.environment /\ k.prefix[1] = k.name[1]
                 \/ Len(k.name) > 1 /\ k.prefix[2] = k.name[2]
<1> PICK env \in Envs, id \in Ids :
      /\ k.environment = Environment(env)
      /\ \/ k.prefix = KeyPrefix(k.name, env, id)
         \/ k.prefix = Rotated(KeyPrefix(k.name, env, id), id)
  BY DEF Shaped
<1>1. k.name \in Names
  BY DEF Shaped
<1> DEFINE p == KeyPrefix(k.name, env, id)
<1>2. /\ Len(p) = Len(k.name) + 2
      /\ Len(k.name) = 1 \/ Len(k.name) > 1
      /\ p[1] = k.name[1]
      /\ p[2] = (IF Len(k.name) = 1 THEN env ELSE k.name[2])
      /\ Len(k.name) = 1 => p = <<k.name[1], env, id>>
  BY <1>1, FirstParts
<1>3. k.prefix = p \/ k.prefix = <<p[1], p[2], id>>
  BY DEF Rotated
<1> HIDE DEF p
<1>4. CASE Len(k.name) = 1
  <2>1. k.prefix = <<k.name[1], env, id>>
    BY <1>2, <1>3, <1>4
  <2> QED
    BY <1>4, <2>1 DEF Parses, LookupKey
<1>5. CASE Len(k.name) > 1
  <2>1. k.prefix[2] = k.name[2]
    BY <1>2, <1>3, <1>5
  <2> QED
    BY <1>5, <2>1
<1> QED
  BY <1>2, <1>4, <1>5

-----------------------------------------------------------------------------
(* The invariant. *)

\* The workspace that a handler names by its slug is a row.
LEMMA NamedRow ==
  ASSUME OwnerInv, NEW r \in Requests, NEW w \in Workspaces,
         request[r].pc # "idle", workspace[w].slug = request[r].slug
  PROVE  workspace[w] \in WorkspaceRows
<1>1. w = request[r].workspace /\ workspace[w].owner = request[r].user /\ request[r].user \in Users
  BY GuardHolds DEF GuardStillHolds, OwnerInv, StillFound
<1>2. workspace[w] # NoWorkspace
  BY <1>1, NoneAssumption DEF NoWorkspace
<1> QED
  BY <1>2 DEF OwnerInv, Types

\* At first there is nothing to be found.
LEMMA InvInit == Init => Inv
<1> SUFFICES ASSUME Init PROVE Inv
  OBVIOUS
<1>1. NoKey \in KeyRows /\ NoRequest \in RequestStates /\ NoRequest.pc = "idle"
  BY DEF NoKey, KeyRows, NoRequest, RequestStates
<1>2. Types
  BY <1>1 DEF Init, Types
<1>3. UniqueSlugs
  BY NoneAssumption DEF Init, UniqueSlugs, NoWorkspace
<1>4. StillFound /\ KeysShaped
  BY <1>1 DEF Init, StillFound, KeysShaped
<1> QED
  BY <1>2, <1>3, <1>4 DEF Inv, OwnerInv

\* A row of a key is written, and the handler returns.
LEMMA KeyWritten ==
  ASSUME Inv, NEW r \in Requests, NEW i \in Ids, NEW k \in KeyRows,
         key' = [key EXCEPT ![i] = k], k = NoKey \/ Shaped(k),
         Return(r), UNCHANGED <<workspace, api>>
  PROVE  Inv'
<1>1. OwnerInv /\ Types
  BY DEF Inv, OwnerInv
<1>2. request' \in [Requests -> RequestStates] /\ StillFound'
  BY <1>1, ReturnKeeps
<1>3. key' \in [Ids -> KeyRows] /\ \A j \in Ids : key'[j] = IF j = i THEN k ELSE key[j]
  BY <1>1 DEF Types
<1>4. KeysShaped'
  BY <1>3 DEF Inv, KeysShaped
<1>5. Types' /\ UniqueSlugs'
  BY <1>1, <1>2, <1>3 DEF OwnerInv, Types, UniqueSlugs
<1> QED
  BY <1>2, <1>4, <1>5 DEF Inv, OwnerInv

\* Every handler keeps the invariant.
LEMMA InvStep == Inv /\ [Next]_vars => Inv'
<1> SUFFICES ASSUME Inv, [Next]_vars PROVE Inv'
  OBVIOUS
<1>inv. OwnerInv /\ Types /\ KeysShaped
  BY DEF Inv, OwnerInv
<1>return. ASSUME NEW r \in Requests, Return(r)
           PROVE  \A q \in Requests : request'[q] \in {request[q], NoRequest}
  BY <1>inv, <1>return DEF Return, Types
<1>1. ASSUME NEW u \in Users, NEW s \in Slugs, NEW t \in Titles, NEW w \in Workspaces,
             createWorkspace(u, s, t, w)
      PROVE  Inv'
  <2> DEFINE row == [owner |-> u, slug |-> s, title |-> t, isDeleted |-> FALSE]
  <2>1. row \in WorkspaceRows /\ row.slug = s
    BY DEF WorkspaceRows
  <2>2. /\ workspace' = [workspace EXCEPT ![w] = row] /\ workspace[w] = NoWorkspace /\ ~Taken(s)
        /\ UNCHANGED <<api, key, request>>
    BY <1>1 DEF createWorkspace
  <2> HIDE DEF row
  <2>3. /\ workspace' \in [Workspaces -> {NoWorkspace} \cup WorkspaceRows]
        /\ UniqueSlugs' /\ StillFound'
    BY <1>inv, <2>1, <2>2, RowKeeps
  <2> QED
    BY <1>inv, <2>2, <2>3 DEF Inv, OwnerInv, Types, KeysShaped
<1>2. ASSUME NEW r \in Requests, NEW u \in Users, NEW w \in Workspaces, canActivate(r, u, w)
      PROVE  Inv'
  <2> DEFINE q == [pc |-> "guarded", user |-> u, slug |-> workspace[w].slug,
                   workspace |-> w, api |-> None]
  <2>1. workspace[w] \in WorkspaceRows
    BY <1>inv, <1>2, NoneAssumption DEF canActivate, Types, NoWorkspace
  <2>2. q \in RequestStates
    BY <2>1 DEF RequestStates, WorkspaceRows
  <2>3. request' = [request EXCEPT ![r] = q] /\ UNCHANGED <<workspace, api, key>>
        /\ workspace[w].owner = u
    BY <1>2 DEF canActivate
  <2>4. request' \in [Requests -> RequestStates] /\ StillFound'
    BY <1>inv, <2>2, <2>3, RequestKeeps
  <2> QED
    BY <1>inv, <2>3, <2>4 DEF Inv, OwnerInv, Types, UniqueSlugs, KeysShaped
<1>3. ASSUME NEW r \in Requests, NEW w \in Workspaces, NEW row \in WorkspaceRows,
             request[r].pc = "guarded",
             workspace' = [workspace EXCEPT ![w] = row],
             workspace[w].owner = row.owner, workspace[w].slug = row.slug,
             Return(r), UNCHANGED <<api, key>>
      PROVE  Inv'
  <2>1. /\ workspace' \in [Workspaces -> {NoWorkspace} \cup WorkspaceRows]
        /\ UniqueSlugs' /\ StillFound'
    BY <1>inv, <1>3, <1>return, RowKeeps
  <2>2. request' \in [Requests -> RequestStates]
    BY <1>inv, <1>3 DEF Return, NoRequest, RequestStates, Types
  <2> QED
    BY <1>inv, <1>3, <2>1, <2>2 DEF Inv, OwnerInv, Types, KeysShaped
<1>4. ASSUME NEW r \in Requests, NEW w \in Workspaces, NEW t \in Titles, updateWorkspace(r, w, t)
      PROVE  Inv'
  <2>1. workspace[w] \in WorkspaceRows
    BY <1>inv, <1>4, NamedRow DEF updateWorkspace
  <2> DEFINE row == [workspace[w] EXCEPT !.title = t]
  <2>2. row \in WorkspaceRows /\ workspace[w].owner = row.owner /\ workspace[w].slug = row.slug
    BY <2>1 DEF WorkspaceRows
  <2>3. workspace' = [workspace EXCEPT ![w] = row] /\ request[r].pc = "guarded" /\ Return(r)
        /\ UNCHANGED <<api, key>>
    BY <1>4 DEF updateWorkspace
  <2> HIDE DEF row
  <2> QED
    BY <1>3, <2>2, <2>3
<1>5. ASSUME NEW r \in Requests, NEW w \in Workspaces, deleteWorkspace(r, w)
      PROVE  Inv'
  <2>1. workspace[w] \in WorkspaceRows
    BY <1>inv, <1>5, NamedRow DEF deleteWorkspace
  <2> DEFINE row == [workspace[w] EXCEPT !.isDeleted = TRUE]
  <2>2. row \in WorkspaceRows /\ workspace[w].owner = row.owner /\ workspace[w].slug = row.slug
    BY <2>1 DEF WorkspaceRows
  <2>3. workspace' = [workspace EXCEPT ![w] = row] /\ request[r].pc = "guarded" /\ Return(r)
        /\ UNCHANGED <<api, key>>
    BY <1>5 DEF deleteWorkspace
  <2> HIDE DEF row
  <2> QED
    BY <1>3, <2>2, <2>3
<1>6. ASSUME NEW r \in Requests, NEW x \in Apis, createApi(r, x)
      PROVE  Inv'
  <2>1. request[r].workspace \in Workspaces /\ api[x] = None
    BY <1>6 DEF createApi, Inv, OwnerInv, StillFound
  <2>2. /\ api' \in [Apis -> Workspaces \cup {None}]
        /\ \A y \in Apis : api[y] # None => api'[y] = api[y]
    BY <1>inv, <1>6, <2>1 DEF createApi, Types
  <2>3. request' \in [Requests -> RequestStates] /\ UNCHANGED <<workspace, key>>
    BY <1>inv, <1>6 DEF createApi, Return, NoRequest, RequestStates, Types
  <2>4. \A q \in Requests : request'[q] \in {request[q], NoRequest}
    BY <1>6, <1>return DEF createApi
  <2>5. StillFound'
    <3>1. NoRequest.pc = "idle"
      BY DEF NoRequest
    <3>2. \A q \in Requests : request[q].pc \in {"idle", "guarded", "found"}
      BY <1>inv DEF Types, RequestStates
    <3> QED
      BY <2>2, <2>3, <2>4, <3>1, <3>2, NoneAssumption DEF Inv, OwnerInv, StillFound
  <2> QED
    BY <1>inv, <2>2, <2>3, <2>5 DEF Inv, OwnerInv, Types, UniqueSlugs, KeysShaped
<1>7. ASSUME NEW r \in Requests, NEW x \in Apis, getApiId(r, x)
      PROVE  Inv'
  <2> DEFINE q == [request[r] EXCEPT !.pc = "found", !.api = x]
  <2>1. request[r] \in RequestStates
    BY <1>inv DEF Types
  <2>2. /\ q \in RequestStates /\ q.workspace = request[r].workspace /\ q.user = request[r].user
        /\ q.slug = request[r].slug /\ q.api = x
    BY <2>1 DEF RequestStates
  <2>3. request' = [request EXCEPT ![r] = q] /\ UNCHANGED <<workspace, api, key>>
    BY <1>7 DEF getApiId
  <2>4. /\ request[r].workspace \in Workspaces /\ request[r].user \in Users
        /\ workspace[request[r].workspace].owner = request[r].user
        /\ workspace[request[r].workspace].slug = request[r].slug
        /\ api[x] = request[r].workspace
    BY <1>7 DEF getApiId, Inv, OwnerInv, StillFound
  <2> HIDE DEF q
  <2>5. request' \in [Requests -> RequestStates] /\ StillFound'
    BY <1>inv, <2>2, <2>3, <2>4, RequestKeeps
  <2> QED
    BY <1>inv, <2>3, <2>5 DEF Inv, OwnerInv, Types, UniqueSlugs, KeysShaped
<1>8. ASSUME NEW r \in Requests, NEW i \in Ids, NEW name \in KeyNames, NEW env \in Envs,
             createApiKey(r, i, name, env)
      PROVE  Inv'
  <2> DEFINE k == [api |-> request[r].api, prefix |-> KeyPrefix(name, env, i),
                   environment |-> Environment(env), name |-> name, active |-> TRUE]
  <2>1. request[r].api \in Apis /\ name \in Names
    BY <1>8, KeyNamesAssumption DEF createApiKey, Inv, OwnerInv, StillFound
  <2>2. k \in KeyRows /\ Shaped(k)
    BY <2>1, CreatedShaped
  <2>3. key' = [key EXCEPT ![i] = k] /\ Return(r) /\ UNCHANGED <<workspace, api>>
    BY <1>8 DEF createApiKey
  <2> HIDE DEF k
  <2> QED
    BY <2>2, <2>3, KeyWritten
<1>kept. ASSUME NEW i \in Ids, key[i].api \in Apis, NEW b \in BOOLEAN,
                NEW k, k = [key[i] EXCEPT !.active = b]
         PROVE  Shaped(key[i]) /\ key[i] \in KeyRows /\ k \in KeyRows /\ Shaped(k)
  <2>1. Shaped(key[i]) /\ key[i] \in KeyRows
    BY <1>inv, <1>kept, NoneAssumption DEF KeysShaped, NoKey, Types
  <2>2. /\ k \in KeyRows /\ k.api = key[i].api /\ k.name = key[i].name
        /\ k.environment = key[i].environment /\ k.prefix = key[i].prefix
    BY <1>kept, <2>1 DEF KeyRows
  <2> QED
    BY <2>1, <2>2 DEF Shaped
<1>found. ASSUME NEW r \in Requests, request[r].pc = "found"
          PROVE  request[r].api \in Apis
  BY <1>found DEF Inv, OwnerInv, StillFound
<1>9. ASSUME NEW r \in Requests, NEW i \in Ids, NEW b \in BOOLEAN, updateApiKeyStatus(r, i, b)
      PROVE  Inv'
  <2>1. key[i].api \in Apis
    BY <1>9, <1>found DEF updateApiKeyStatus
  <2> DEFINE k == [key[i] EXCEPT !.active = b]
  <2>2. k \in KeyRows /\ Shaped(k)
    BY <1>kept, <2>1
  <2>3. key' = [key EXCEPT ![i] = k] /\ Return(r) /\ UNCHANGED <<workspace, api>>
    BY <1>9 DEF updateApiKeyStatus
  <2> HIDE DEF k
  <2> QED
    BY <2>2, <2>3, KeyWritten
<1>10. ASSUME NEW r \in Requests, NEW i \in Ids, deleteApiKey(r, i)
       PROVE  Inv'
  <2>1. NoKey \in KeyRows
    BY DEF NoKey, KeyRows
  <2> QED
    BY <1>10, <2>1, KeyWritten DEF deleteApiKey
<1>11. ASSUME NEW r \in Requests, NEW i \in Ids, NEW new \in Ids, rotateApiKey(r, i, new)
       PROVE  Inv'
  <2> DEFINE k == [key[i] EXCEPT !.active = FALSE]
             h == [key[i] EXCEPT !.prefix = Rotated(key[i].prefix, new)]
  <2>1. key[i].api \in Apis
    BY <1>11, <1>found DEF rotateApiKey
  <2>2. k \in KeyRows /\ Shaped(k) /\ key[i] \in KeyRows /\ Shaped(key[i])
    BY <1>kept, <2>1
  <2>3. h \in KeyRows /\ Shaped(h)
    BY <2>2, RotatedShaped
  <2>4. i # new
    BY <1>11, <2>1, NoneAssumption DEF rotateApiKey, NoKey
  <2>5. key' = [key EXCEPT ![i] = k, ![new] = h] /\ Return(r) /\ UNCHANGED <<workspace, api>>
    BY <1>11 DEF rotateApiKey
  <2> HIDE DEF k, h
  <2>6. /\ key' \in [Ids -> KeyRows]
        /\ \A j \in Ids : key'[j] \in {key[j], k, h}
    BY <1>inv, <2>2, <2>3, <2>5 DEF Types
  <2>7. KeysShaped'
    BY <1>inv, <2>2, <2>3, <2>6 DEF KeysShaped
  <2>8. request' \in [Requests -> RequestStates] /\ StillFound'
    BY <1>inv, <2>5, ReturnKeeps
  <2> QED
    BY <1>inv, <2>5, <2>6, <2>7, <2>8 DEF Inv, OwnerInv, Types, UniqueSlugs
<1>12. ASSUME NEW r \in Requests, HandlerFails(r)
       PROVE  Inv'
  <2>1. request' \in [Requests -> RequestStates] /\ StillFound'
    BY <1>inv, <1>12, ReturnKeeps DEF HandlerFails
  <2> QED
    BY <1>inv, <1>12, <2>1 DEF HandlerFails, Inv, OwnerInv, Types, UniqueSlugs, KeysShaped
<1>13. CASE UNCHANGED vars
  BY <1>inv, <1>13 DEF vars, Inv, OwnerInv, Types, UniqueSlugs, StillFound, KeysShaped
<1> QED
  BY <1>1, <1>2, <1>4, <1>5, <1>6, <1>7, <1>8, <1>9, <1>10, <1>11, <1>12, <1>13
     DEF Next, WorkspaceRoutes, ApiRoutes, KeyRoutes

-----------------------------------------------------------------------------
(* Theorems. *)

\* Every variable keeps its type, and a slug belongs to one workspace.
THEOREM TypeCorrect == Spec => []TypeOK
<1>1. Inv => TypeOK
  <2> SUFFICES ASSUME Inv PROVE TypeOK
    OBVIOUS
  <2>1. Types
    BY DEF Inv, OwnerInv
  <2>2. \A i \in Ids : key[i] # NoKey => key[i].api \in Apis /\ key[i].active \in BOOLEAN
    BY <2>1 DEF Inv, KeysShaped, Shaped, Types, KeyRows
  <2>3. \A r \in Requests : /\ request[r].pc \in {"idle", "guarded", "found"}
                            /\ request[r].pc # "idle" => request[r].workspace \in Workspaces
                            /\ request[r].pc = "found" => request[r].api \in Apis
    BY <2>1 DEF Inv, OwnerInv, StillFound, Types, RequestStates
  <2>4. \A v, w \in Workspaces :
          workspace[v] # NoWorkspace /\ workspace[v].slug = workspace[w].slug => v = w
    <3> SUFFICES ASSUME NEW v \in Workspaces, NEW w \in Workspaces, workspace[v] # NoWorkspace,
                        workspace[v].slug = workspace[w].slug
                 PROVE  v = w
      OBVIOUS
    <3>1. workspace[v].slug \in Slugs
      BY <2>1 DEF Types, WorkspaceRows
    <3> QED
      BY <3>1 DEF Inv, OwnerInv, UniqueSlugs
  <2> QED
    BY <2>1, <2>2, <2>3, <2>4 DEF TypeOK, Types, WorkspaceRows
<1> QED
  BY InvInit, InvStep, <1>1, PTL DEF Spec

\* What the guard has found still holds when its handler runs.
THEOREM GuardStays == Spec => []GuardStillHolds
<1>1. Inv => GuardStillHolds
  BY GuardHolds DEF Inv
<1> QED
  BY InvInit, InvStep, <1>1, PTL DEF Spec

\* What a key's name makes of it in rotations and in the parser.
THEOREM RoundTrip == Spec => []PrefixesRoundTrip
<1>1. Inv => PrefixesRoundTrip
  BY ShapedParses DEF Inv, KeysShaped, PrefixesRoundTrip, WordsMakeGoodKeys,
                      OtherNamesRefusedUntilRotated
<1> QED
  BY InvInit, InvStep, <1>1, PTL DEF Spec

\* A request changes only what is its user's.
THEOREM OwnerAlone == Spec => OnlyOwnerChanges
<1> DEFINE A(r) ==
      /\ \A w \in Workspaces :
           workspace'[w] # workspace[w] => workspace[w].owner = request[r].user
      /\ \A x \in Apis :
           api'[x] # api[x] => workspace[api'[x]].owner = request[r].user
      /\ \A i \in Ids :
           key'[i] # key[i] =>
             /\ key[i].api # None => OwnerOf(key[i].api) = request[r].user
             /\ key'[i].api # None => OwnerOf(key'[i].api) = request[r].user
<1>1. Inv /\ [Next]_vars => [\A r \in Requests : request'[r] # request[r] => A(r)]_vars
  <2> SUFFICES ASSUME Inv, Next, NEW r \in Requests, request'[r] # request[r]
               PROVE  A(r)
    BY DEF vars
  <2>inv. OwnerInv /\ Types /\ GuardStillHolds
    BY GuardHolds DEF Inv, OwnerInv
  <2>1. ASSUME NEW q \in Requests, Return(q)
        PROVE  q = r
    BY <2>inv, <2>1 DEF Return, Types
  <2>2. ASSUME UNCHANGED <<workspace, api, key>>
        PROVE  A(r)
    BY <2>2
  <2>3. ASSUME NEW u \in Users, NEW s \in Slugs, NEW t \in Titles, NEW w \in Workspaces,
               createWorkspace(u, s, t, w)
        PROVE  A(r)
    BY <2>3 DEF createWorkspace
  <2>4. ASSUME NEW q \in Requests, WorkspaceRoutes(q)
        PROVE  A(r)
    <3>1. PICK w \in Workspaces :
            deleteWorkspace(q, w) \/ \E t \in Titles : updateWorkspace(q, w, t)
      BY <2>4 DEF WorkspaceRoutes
    <3>2. /\ request[q].pc # "idle" /\ workspace[w].slug = request[q].slug /\ Return(q)
          /\ \A v \in Workspaces : v # w => workspace'[v] = workspace[v]
          /\ UNCHANGED <<api, key>>
      BY <2>inv, <3>1 DEF deleteWorkspace, updateWorkspace, Types
    <3>3. q = r
      BY <2>1, <3>2
    <3> QED
      BY <2>inv, <3>2, <3>3 DEF GuardStillHolds
  <2>5. ASSUME NEW q \in Requests, NEW x \in Apis, createApi(q, x)
        PROVE  A(r)
    <3>1. /\ q = r /\ api'[x] = request[q].workspace /\ request[q].pc # "idle"
          /\ \A y \in Apis : y # x => api'[y] = api[y]
          /\ UNCHANGED <<workspace, key>>
      BY <2>inv, <2>1, <2>5 DEF createApi, Types
    <3> QED
      BY <2>inv, <3>1 DEF OwnerInv, StillFound
  <2>found. ASSUME request[r].pc = "found"
            PROVE  request[r].api \in Apis /\ OwnerOf(request[r].api) = request[r].user
    BY <2>inv, <2>found DEF OwnerInv, StillFound, OwnerOf
  <2>6. ASSUME request[r].pc = "found", UNCHANGED <<workspace, api>>,
               \A i \in Ids : key'[i] # key[i] => /\ key[i].api \in {None, request[r].api}
                                                  /\ key'[i].api \in {None, request[r].api}
        PROVE  A(r)
    BY <2>6, <2>found
  <2>7. ASSUME NEW q \in Requests, KeyRoutes(q)
        PROVE  A(r)
    <3> HIDE DEF A
    <3>none. NoKey.api = None
      BY DEF NoKey
    <3>0. /\ q = r /\ request[r].pc = "found" /\ UNCHANGED <<workspace, api>>
      BY <2>1, <2>7 DEF KeyRoutes, createApiKey, rotateApiKey, updateApiKeyStatus, deleteApiKey
    <3>1. ASSUME NEW i \in Ids, \A j \in Ids : j # i => key'[j] = key[j],
                 key[i].api \in {None, request[r].api}, key'[i].api \in {None, request[r].api}
          PROVE  A(r)
      BY <2>6, <3>0, <3>1
    <3>2. ASSUME NEW i \in Ids, NEW name \in KeyNames, NEW env \in Envs, createApiKey(r, i, name, env)
          PROVE  A(r)
      <4>1. key[i] = NoKey /\ key'[i].api = request[r].api /\ \A j \in Ids : j # i => key'[j] = key[j]
        BY <2>inv, <3>2 DEF createApiKey, Types
      <4> QED
        BY <3>none, <3>1, <4>1
    <3>3. ASSUME NEW i \in Ids, NEW b \in BOOLEAN, updateApiKeyStatus(r, i, b)
          PROVE  A(r)
      <4>1. /\ key[i].api = request[r].api /\ key'[i].api = key[i].api
            /\ \A j \in Ids : j # i => key'[j] = key[j]
        BY <2>inv, <3>3 DEF updateApiKeyStatus, Types, KeyRows
      <4> QED
        BY <3>1, <4>1
    <3>4. ASSUME NEW i \in Ids, deleteApiKey(r, i)
          PROVE  A(r)
      <4>1. /\ key[i].api = request[r].api /\ key'[i] = NoKey
            /\ \A j \in Ids : j # i => key'[j] = key[j]
        BY <2>inv, <3>4 DEF deleteApiKey, Types
      <4> QED
        BY <3>none, <3>1, <4>1
    <3>5. ASSUME NEW i \in Ids, NEW new \in Ids, rotateApiKey(r, i, new)
          PROVE  A(r)
      <4> DEFINE k == [key[i] EXCEPT !.active = FALSE]
                 h == [key[i] EXCEPT !.prefix = Rotated(key[i].prefix, new)]
      <4>1. k.api = key[i].api /\ h.api = key[i].api
        BY <2>inv DEF Types, KeyRows
      <4>2. key' = [key EXCEPT ![i] = k, ![new] = h] /\ key[i].api = request[r].api
            /\ key[new] = NoKey
        BY <3>5 DEF rotateApiKey
      <4> HIDE DEF k, h
      <4>3. \A j \in Ids : key'[j] = IF j = new THEN h ELSE IF j = i THEN k ELSE key[j]
        BY <2>inv, <4>2 DEF Types
      <4> QED
        BY <2>6, <3>none, <3>0, <4>1, <4>2, <4>3
    <3> QED
      BY <2>7, <3>0, <3>2, <3>3, <3>4, <3>5 DEF KeyRoutes
  <2>8. CASE \/ \E q \in Requests, u \in Users, w \in Workspaces : canActivate(q, u, w)
             \/ \E q \in Requests, x \in Apis : getApiId(q, x)
             \/ \E q \in Requests : HandlerFails(q)
    BY <2>2, <2>8 DEF canActivate, getApiId, HandlerFails
  <2> HIDE DEF A
  <2> QED
    BY <2>3, <2>4, <2>5, <2>7, <2>8 DEF Next, ApiRoutes
<1> QED
  BY InvInit, InvStep, <1>1, PTL DEF Spec, OnlyOwnerChanges

=============================================================================
