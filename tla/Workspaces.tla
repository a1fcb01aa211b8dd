------------------------------ MODULE Workspaces ------------------------------
(***************************************************************************)
(* Workspaces, the API containers in them and the keys in these, as the    *)
(* requests of several users see them.  Every route below a workspace runs *)
(* WorkspaceOwnerGuard first, then getApiId where it names a container,    *)
(* then its handler: each is a query of its own, and other requests run in *)
(* between.  What a key allows and whether it still does is the subject of *)
(* ApiKeys; here it has a prefix, and is active or not.                    *)
(***************************************************************************)
EXTENDS KeyFormat

CONSTANTS
  Users,
  Slugs,       \* what slugify yields: names that differ only in case or signs share one
  Workspaces,  \* their internal ids
  Apis,        \* public ids of API containers
  Titles,      \* display names
  KeyNames,    \* the prefix names that are tried
  Requests,    \* concurrent requests
  None

ASSUME KeyNamesAssumption == KeyNames \subseteq Names
ASSUME NoneAssumption == None \notin Users \cup Slugs \cup Workspaces \cup Apis

VARIABLES
  workspace,  \* workspace[w]: its row
  api,        \* api[x]: the workspace of container x
  key,        \* key[i]: the row of the key whose random identifier is i
  request     \* request[r]: whose request, and what its guard and look-ups have found

vars == <<workspace, api, key, request>>

NoWorkspace == [owner |-> None, slug |-> None, title |-> None, isDeleted |-> FALSE]
NoKey == [api |-> None, prefix |-> <<>>, environment |-> None, name |-> <<>>, active |-> FALSE]
NoRequest == [pc |-> "idle", user |-> None, slug |-> None, workspace |-> None, api |-> None]

Init ==
  /\ workspace = [w \in Workspaces |-> NoWorkspace]
  /\ api = [x \in Apis |-> None]
  /\ key = [i \in Ids |-> NoKey]
  /\ request = [r \in Requests |-> NoRequest]

Return(r) == request' = [request EXCEPT ![r] = NoRequest]

-----------------------------------------------------------------------------
(* workspace.service.ts, workspace.guard.ts. *)

\* Mutant: the slugs of deleted workspaces are free again.
TakenByLiving(s) == \E w \in Workspaces : workspace[w].slug = s /\ ~workspace[w].isDeleted

\* The unique column: deleted workspaces keep their slugs.
Taken(s) == \E w \in Workspaces : workspace[w].slug = s

\* One insert; ConflictException if the slug is taken.
createWorkspace(u, s, t, w) ==
  /\ workspace[w] = NoWorkspace
  /\ ~Taken(s)
  /\ workspace' = [workspace EXCEPT ![w] = [owner |-> u, slug |-> s, title |-> t, isDeleted |-> FALSE]]
  /\ UNCHANGED <<api, key, request>>

\* canActivate: the row of the slug, deleted or not, belongs to the caller.  A guard that
\* refuses changes nothing.
canActivate(r, u, w) ==
  /\ request[r].pc = "idle"
  /\ workspace[w].owner = u
  /\ request' = [request EXCEPT ![r] = [pc |-> "guarded", user |-> u, slug |-> workspace[w].slug,
                                        workspace |-> w, api |-> None]]
  /\ UNCHANGED <<workspace, api, key>>

\* The workspace is named by its slug once more: where: { slug }.
updateWorkspace(r, w, t) ==
  /\ request[r].pc = "guarded"
  /\ workspace[w].slug = request[r].slug
  /\ workspace' = [workspace EXCEPT ![w].title = t]
  /\ Return(r)
  /\ UNCHANGED <<api, key>>

\* updateMany where: { slug, isDeleted: false }; NotFoundException if it matches no row.
deleteWorkspace(r, w) ==
  /\ request[r].pc = "guarded"
  /\ workspace[w].slug = request[r].slug
  /\ ~workspace[w].isDeleted
  /\ workspace' = [workspace EXCEPT ![w].isDeleted = TRUE]
  /\ Return(r)
  /\ UNCHANGED <<api, key>>

-----------------------------------------------------------------------------
(* apiKey.service.ts. *)

\* The container goes into the workspace that the guard has found.
createApi(r, x) ==
  /\ request[r].pc = "guarded"
  /\ api[x] = None
  /\ api' = [api EXCEPT ![x] = request[r].workspace]
  /\ Return(r)
  /\ UNCHANGED <<workspace, key>>

\* Mutant: the query names the public id only.
ApiOfAnyone(r, x) ==
  /\ request[r].pc = "guarded"
  /\ api[x] # None
  /\ request' = [request EXCEPT ![r].pc = "found", ![r].api = x]
  /\ UNCHANGED <<workspace, api, key>>

\* The first query of every handler of keys; NotFoundException if nothing matches.
getApiId(r, x) ==
  /\ request[r].pc = "guarded"
  /\ api[x] = request[r].workspace
  /\ request' = [request EXCEPT ![r].pc = "found", ![r].api = x]
  /\ UNCHANGED <<workspace, api, key>>

createApiKey(r, i, name, env) ==
  /\ request[r].pc = "found"
  /\ key[i] = NoKey
  /\ key' = [key EXCEPT ![i] = [api |-> request[r].api, prefix |-> KeyPrefix(name, env, i),
                                environment |-> Environment(env), name |-> name,
                                active |-> TRUE]]
  /\ Return(r)
  /\ UNCHANGED <<workspace, api>>

\* Mutant: the new row is created without its container.
RotateDetached(r, i, new) ==
  /\ request[r].pc = "found"
  /\ key[i].api = request[r].api
  /\ key[new] = NoKey
  /\ key[i].active
  /\ key' = [key EXCEPT ![i].active = FALSE,
                        ![new] = [key[i] EXCEPT !.prefix = Rotated(key[i].prefix, new), !.api = None]]
  /\ Return(r)
  /\ UNCHANGED <<workspace, api>>

\* where: { apiId_publicId }: the key is one of the container that was found.
rotateApiKey(r, i, new) ==
  /\ request[r].pc = "found"
  /\ key[i].api = request[r].api
  /\ key[new] = NoKey
  /\ key[i].active
  /\ key' = [key EXCEPT ![i].active = FALSE,
                        ![new] = [key[i] EXCEPT !.prefix = Rotated(key[i].prefix, new)]]
  /\ Return(r)
  /\ UNCHANGED <<workspace, api>>

\* As above; a revocation, or any other change of the status, likewise.
updateApiKeyStatus(r, i, active) ==
  /\ request[r].pc = "found"
  /\ key[i].api = request[r].api
  /\ key' = [key EXCEPT ![i].active = active]
  /\ Return(r)
  /\ UNCHANGED <<workspace, api>>

\* The same where.
deleteApiKey(r, i) ==
  /\ request[r].pc = "found"
  /\ key[i].api = request[r].api
  /\ key' = [key EXCEPT ![i] = NoKey]
  /\ Return(r)
  /\ UNCHANGED <<workspace, api>>

\* A query finds nothing or throws, or the process dies: no handler has written by then.
HandlerFails(r) ==
  /\ request[r].pc # "idle"
  /\ Return(r)
  /\ UNCHANGED <<workspace, api, key>>

-----------------------------------------------------------------------------
(* workspace.controller.ts, apiKey.controller.ts: which guard and look-up a route has.     *)

WorkspaceRoutes(r) ==
  \E w \in Workspaces : deleteWorkspace(r, w) \/ \E t \in Titles : updateWorkspace(r, w, t)

ApiRoutes(r) == \E x \in Apis : createApi(r, x) \/ getApiId(r, x)

KeyRoutes(r) ==
  \E i \in Ids :
    \/ \E name \in KeyNames, env \in Envs : createApiKey(r, i, name, env)
    \/ \E new \in Ids : rotateApiKey(r, i, new)
    \/ \E active \in BOOLEAN : updateApiKeyStatus(r, i, active)
    \/ deleteApiKey(r, i)

Next ==
  \/ \E u \in Users, s \in Slugs, t \in Titles, w \in Workspaces : createWorkspace(u, s, t, w)
  \/ \E r \in Requests, u \in Users, w \in Workspaces : canActivate(r, u, w)
  \/ \E r \in Requests : WorkspaceRoutes(r) \/ ApiRoutes(r) \/ KeyRoutes(r) \/ HandlerFails(r)

Spec == Init /\ [][Next]_vars

-----------------------------------------------------------------------------
(* Properties. *)

\* What each variable may hold; a slug belongs to one workspace, deleted or not.
TypeOK ==
  /\ workspace \in [Workspaces -> {NoWorkspace} \cup
       [owner : Users, slug : Slugs, title : Titles, isDeleted : BOOLEAN]]
  /\ \A v, w \in Workspaces :
       workspace[v] # NoWorkspace /\ workspace[v].slug = workspace[w].slug => v = w
  /\ api \in [Apis -> Workspaces \cup {None}]
  /\ \A i \in Ids : key[i] # NoKey => key[i].api \in Apis /\ key[i].active \in BOOLEAN
  /\ \A r \in Requests : /\ request[r].pc \in {"idle", "guarded", "found"}
                         /\ request[r].pc # "idle" => request[r].workspace \in Workspaces
                         /\ request[r].pc = "found" => request[r].api \in Apis

\* The owner of a container's workspace.
OwnerOf(x) == workspace[api[x]].owner

\* The guard is done when the handler runs, and names the workspace by another query: what
\* it found still holds then, because a slug is never given to a second workspace, not even
\* after its first one was deleted.
GuardStillHolds ==
  \A r \in Requests, w \in Workspaces :
    request[r].pc # "idle" /\ workspace[w].slug = request[r].slug
      => w = request[r].workspace /\ workspace[w].owner = request[r].user

\* Whatever is created, renamed, rotated or deleted in a workspace, the request that does
\* it is its owner's, whichever requests of other users run between guard, look-ups and
\* handler.
OnlyOwnerChanges ==
  [][\A r \in Requests :
       request'[r] # request[r] =>
         /\ \A w \in Workspaces :
              workspace'[w] # workspace[w] => workspace[w].owner = request[r].user
         /\ \A x \in Apis :
              api'[x] # api[x] => workspace[api'[x]].owner = request[r].user
         /\ \A i \in Ids :
              key'[i] # key[i] =>
                /\ key[i].api # None => OwnerOf(key[i].api) = request[r].user
                /\ key'[i].api # None => OwnerOf(key'[i].api) = request[r].user]_vars

\* A key whose name is one word passes parseAuthHeaders, and so does every key that comes
\* from it by rotations; it is looked up under its own keyPrefix, and it tells its
\* environment.
WordsMakeGoodKeys ==
  \A i \in Ids :
    LET k == key[i] IN
    k # NoKey /\ Len(k.name) = 1 /\ k.name[1] \in Words =>
      /\ Parses(k.prefix) /\ LookupKey(k.prefix) = k.prefix
      /\ k.prefix[1] = k.name[1] /\ Environment(k.prefix[2]) = k.environment

\* Any other name makes keys that verify answers with 400, until one of them is rotated: if
\* the first two of its parts look like a name and an environment, they are taken for them,
\* and nothing else ever makes a key tell an environment that is not its own.
OtherNamesRefusedUntilRotated ==
  \A i \in Ids :
    LET k == key[i] IN
    k # NoKey /\ Parses(k.prefix) =>
      \/ Environment(k.prefix[2]) = k.environment /\ k.prefix[1] = k.name[1]
      \/ Len(k.name) > 1 /\ k.prefix[2] = k.name[2]

\* A key's name decides when it is created what becomes of it in rotations and in the
\* parser of verify: see the two parts of this.
PrefixesRoundTrip == WordsMakeGoodKeys /\ OtherNamesRefusedUntilRotated

=============================================================================
