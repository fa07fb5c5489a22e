---------------------------- MODULE DocumentStore ----------------------------
(***************************************************************************)
(* The ChromaStorageManager (storage/chromadb.go) of one or more processes *)
(* over one ChromaDB server, through the ChromaDBClient                    *)
(* (clients/chromadb.go), which repeats a request that fails, whatever the *)
(* request was: an attempt whose answer got lost may have had its effect,  *)
(* or may have it later.                                                   *)
(*                                                                         *)
(* A process initialises its manager (factory.go) and then the meta        *)
(* collections (idaes_subsystem.go).  Then the pipeline stores documents   *)
(* with what was extracted, and the handlers of the web server delete and  *)
(* search.  All of them use one map from collection names to identifiers,  *)
(* without a lock: Go ends a process that it sees reading or writing a map *)
(* while another goroutine writes it.                                      *)
(***************************************************************************)
EXTENDS Integers, Sequences, FiniteSets

CONSTANTS
  Managers,    \* the managers, one per process
  Main,        \* the one whose users are modelled
  Users,       \* goroutines that store, delete or search
  Own,         \* the collections of a manager, "documents" the first
  Meta,        \* the meta collections, in the order of their creation
  MaxRetries,  \* of a client (3)
  MaxLate      \* bound: the abandoned attempts still under way

ASSUME StoreAssumption ==
  /\ Main \in Managers /\ Users \cap Managers = {}
  /\ {Own, Meta} \subseteq Seq(STRING) \ {<<>>} /\ Own[1] = "documents"
  /\ {MaxRetries, MaxLate} \subseteq Nat
ASSUME MainAssumption == Main \in Managers

Callers == Managers \cup Users
Named(names) == {names[i] : i \in DOMAIN names}
Names == Named(Own) \cup Named(Meta)
Owner(c) == IF c \in Managers THEN c ELSE Main

VARIABLES
  collections, \* the identifier of each collection at the server, or 0
  content,     \* the collections that hold something of the document
  late,        \* what abandoned attempts may still do at the server
  cached,      \* collectionIDs of each manager
  task,        \* what each caller is doing
  position,    \* at which of the names it is
  request,     \* the request it is making, or "none"
  link,        \* where that request stands
  attempt, reply,
  problems,    \* a user: whether something of the document was not stored
  effected,    \* whose requests have had their effect, in which collection
  ended        \* Go has ended the process

serverVars == <<collections, content, late>>
requestVars == <<request, link, attempt, reply>>
storeVars == <<serverVars, requestVars, cached, task, position, problems, effected, ended>>

ManagerTasks == {"new", "health", "ensure", "relist", "getMeta", "meta", "ready", "failed"}
UserTasks == {"idle", "resolve", "writing", "embed", "act", "ok", "error"}
Requests == {"none", "health", "list", "create", "get", "add", "delete", "query"}

StoreTypeOK ==
  /\ collections \in [Names -> Nat]
  /\ content \subseteq Names /\ effected \subseteq Users \X Names
  /\ late \subseteq {"create", "add", "delete"} \X Names
  /\ cached \in [Managers -> [Names -> Nat]]
  /\ \A m \in Managers : task[m] \in ManagerTasks
  /\ \A u \in Users : task[u] \in UserTasks \X {"store", "delete", "search"}
  /\ position \in [Callers -> Nat]
  /\ request \in [Callers -> Requests]
  /\ link \in [Callers -> {"none", "sent", "backoff", "ok", "exists", "error"}]
  /\ attempt \in [Callers -> 0 .. MaxRetries]
  /\ reply \in [Callers -> Nat]
  /\ problems \subseteq Users /\ ended \in BOOLEAN

StoreInit ==
  /\ collections = [n \in Names |-> 0] /\ content = {} /\ late = {}
  /\ cached = [m \in Managers |-> [n \in Names |-> 0]]
  /\ task = [c \in Callers |-> IF c \in Managers THEN "new" ELSE <<"idle", "store">>]
  /\ position = [c \in Callers |-> 1]
  /\ request = [c \in Callers |-> "none"]
  /\ link = [c \in Callers |-> "none"]
  /\ attempt = [c \in Callers |-> 0]
  /\ reply = [c \in Callers |-> 0]
  /\ problems = {} /\ effected = {} /\ ended = FALSE

\* The name a caller is concerned with.
NameOf(c) ==
  IF c \in Users THEN Append(Own, Meta[Len(Meta)])[position[c]]
  ELSE IF task[c] \in {"getMeta", "meta"} THEN Meta[position[c]]
  ELSE Own[position[c]]

-----------------------------------------------------------------------------
(* The server, known from what the client makes of its answers: a name is    *)
(* given to one collection, what is there already is not added again, and    *)
(* deleting what is not there succeeds.                                      *)

Fresh == 1 + Cardinality({n \in Names : collections[n] # 0})

Effect(what, n) ==
  /\ collections' = IF what = "create" /\ collections[n] = 0
                    THEN [collections EXCEPT ![n] = Fresh] ELSE collections
  /\ content' = CASE what = "add"    -> content \cup {n}
                  [] what = "delete" -> content \ {n}
                  [] OTHER           -> content

LateEffect ==
  \E r \in late :
    /\ late' = late \ {r}
    /\ Effect(r[1], r[2]) \/ UNCHANGED <<collections, content>>
    /\ UNCHANGED <<requestVars, cached, task, position, problems, effected, ended>>

-----------------------------------------------------------------------------
(* makeRequest *)

elsewhere == <<cached, task, position, problems, ended>>

Refused(c) ==
  \/ request[c] = "create" /\ collections[NameOf(c)] # 0
  \/ request[c] = "get" /\ collections[NameOf(c)] = 0

Executes(c) ==
  /\ Effect(request[c], NameOf(c))
  /\ effected' = IF request[c] \in {"add", "delete"} THEN effected \cup {<<c, NameOf(c)>>} ELSE effected
  /\ UNCHANGED late

\* An attempt has failed; the last failure is what the caller gets.
Again(c, problem) ==
  /\ link' = [link EXCEPT ![c] = IF attempt[c] < MaxRetries THEN "backoff" ELSE problem]
  /\ UNCHANGED <<request, attempt>>

Answers(c) ==
  /\ link[c] = "sent" /\ ~Refused(c)
  /\ Executes(c)
  /\ link' = [link EXCEPT ![c] = "ok"]
  /\ reply' = [reply EXCEPT ![c] = collections'[NameOf(c)]]
  /\ UNCHANGED <<request, attempt, elsewhere>>

\* "already exists" for a create, "not found" for a get, which asks for an
\* identifier and gives a name: servers that find it so, and that do not.
AnswersError(c) ==
  /\ link[c] = "sent" /\ (Refused(c) \/ request[c] = "get")
  /\ Again(c, IF request[c] = "create" THEN "exists" ELSE "error")
  /\ UNCHANGED <<reply, effected, serverVars, elsewhere>>

\* The effect has taken place, the answer is lost or cannot be decoded.
AnswerLost(c) ==
  /\ link[c] = "sent" /\ ~Refused(c)
  /\ Executes(c)
  /\ Again(c, "error")
  /\ UNCHANGED <<reply, elsewhere>>

\* No connection, an error of the server, or a timeout while the request is
\* still under way.
NoAnswer(c) ==
  /\ link[c] = "sent"
  /\ Again(c, "error")
  /\ \/ UNCHANGED late
     \/ /\ request[c] \in {"create", "add", "delete"} /\ Cardinality(late) < MaxLate
        /\ late' = late \cup {<<request[c], NameOf(c)>>}
  /\ UNCHANGED <<reply, effected, collections, content, elsewhere>>

\* Mutant of Retries: the attempts are not counted.
RetriesForEver(c) ==
  /\ link[c] = "backoff"
  /\ link' = [link EXCEPT ![c] = "sent"]
  /\ UNCHANGED <<attempt, request, reply, effected, serverVars, elsewhere>>

Retries(c) ==
  /\ link[c] = "backoff"
  /\ link' = [link EXCEPT ![c] = "sent"]
  /\ attempt' = [attempt EXCEPT ![c] = @ + 1]
  /\ UNCHANGED <<request, reply, effected, serverVars, elsewhere>>

GivesUp(c) ==
  /\ link[c] = "backoff"
  /\ link' = [link EXCEPT ![c] = "error"]
  /\ UNCHANGED <<request, attempt, reply, effected, serverVars, elsewhere>>

ClientStep(c) ==
  \/ Answers(c) \/ AnswersError(c) \/ AnswerLost(c) \/ NoAnswer(c)
  \/ Retries(c) \/ GivesUp(c)

Free(c) == link[c] \notin {"sent", "backoff"}

\* A caller goes on to a task at a position, with a request or without.
Goes2(c, to, at, what) ==
  /\ task' = [task EXCEPT ![c] = to]
  /\ position' = [position EXCEPT ![c] = at]
  /\ request' = [request EXCEPT ![c] = what]
  /\ link' = [link EXCEPT ![c] = IF what = "none" THEN "none" ELSE "sent"]
  /\ attempt' = [attempt EXCEPT ![c] = 0]
  /\ reply' = [reply EXCEPT ![c] = 0]

Here(c, to, what) == Goes2(c, to, position[c], what)

-----------------------------------------------------------------------------
(* Initialize, and the meta collections after it *)

ManagerAt(m, t) ==
  /\ task[m] = t /\ Free(m)
  /\ UNCHANGED <<serverVars, problems, effected, ended>>

\* Every process may fail and be started again, with an empty map.
StartManager(m) ==
  /\ ManagerAt(m, "new") \/ ManagerAt(m, "failed")
  /\ Goes2(m, "health", 1, "health")
  /\ cached' = [cached EXCEPT ![m] = [n \in Names |-> 0]]

CheckHealth(m) ==
  /\ ManagerAt(m, "health")
  /\ IF link[m] = "ok" THEN Goes2(m, "ensure", 1, "list") ELSE Here(m, "failed", "none")
  /\ UNCHANGED cached

\* The next collection, or the first of the meta collections.
NextName(m) ==
  IF position[m] < Len(Own) THEN Goes2(m, "ensure", position[m] + 1, "list")
  ELSE Goes2(m, "getMeta", 1, "get")

Caches(m) == cached' = [cached EXCEPT ![m][NameOf(m)] = reply[m]]

\* ensureCollection with the list it asked for.
EnsureFound(m) ==
  /\ ManagerAt(m, "ensure") /\ request[m] = "list" /\ link[m] = "ok" /\ reply[m] # 0
  /\ Caches(m) /\ NextName(m)

EnsureCreates(m) ==
  /\ ManagerAt(m, "ensure") /\ request[m] = "list" /\ link[m] = "ok" /\ reply[m] = 0
  /\ Here(m, "ensure", "create") /\ UNCHANGED cached

Created(m) ==
  /\ ManagerAt(m, "ensure") /\ request[m] = "create" /\ link[m] = "ok"
  /\ Caches(m) /\ NextName(m)

\* Mutant of CreateRaced: it exists, so nothing is left to do.
CreateRacedDone(m) ==
  /\ ManagerAt(m, "ensure") /\ request[m] = "create" /\ link[m] = "exists"
  /\ NextName(m) /\ UNCHANGED cached

\* Created by another process, or by an earlier attempt of this one.
CreateRaced(m) ==
  /\ ManagerAt(m, "ensure") /\ request[m] = "create" /\ link[m] = "exists"
  /\ Here(m, "relist", "list") /\ UNCHANGED cached

Relisted(m) ==
  /\ ManagerAt(m, "relist") /\ link[m] = "ok" /\ reply[m] # 0
  /\ Caches(m) /\ NextName(m)

EnsureFails(m) ==
  /\ ManagerAt(m, "ensure") \/ ManagerAt(m, "relist")
  /\ \/ link[m] = "error"
     \/ task[m] = "relist" /\ link[m] = "ok" /\ reply[m] = 0
  /\ Here(m, "failed", "none") /\ UNCHANGED cached

\* The first failure to create one leaves out the rest; the process goes on.
NextMeta(m) ==
  IF position[m] < Len(Meta) THEN Goes2(m, "getMeta", position[m] + 1, "get")
  ELSE Here(m, "ready", "none")

MetaGot(m) ==
  /\ ManagerAt(m, "getMeta")
  /\ IF link[m] = "ok" THEN NextMeta(m) ELSE Here(m, "meta", "create")
  /\ UNCHANGED cached

MetaCreated(m) ==
  /\ ManagerAt(m, "meta")
  /\ IF link[m] = "ok" THEN NextMeta(m) ELSE Here(m, "ready", "none")
  /\ UNCHANGED cached

ManagerStep(m) ==
  \/ CheckHealth(m) \/ EnsureFound(m) \/ EnsureCreates(m) \/ Created(m) \/ CreateRaced(m)
  \/ Relisted(m) \/ EnsureFails(m) \/ MetaGot(m) \/ MetaCreated(m)

-----------------------------------------------------------------------------
(* Store, delete and search *)

UserAt(u, t, kind) ==
  /\ task[u] = <<t, kind>> /\ Free(u)
  /\ UNCHANGED <<serverVars, effected>>

Kinds == {"store", "delete", "search"}
Initialised(m) == task[m] \in {"getMeta", "meta", "ready"}

\* A user starts with its document, or with the collection a search names.
Ask(u, kind) ==
  /\ UserAt(u, "idle", "store") /\ task[Main] = "ready"
  /\ \E at \in 1 .. Len(Own) + 1 :
       /\ kind # "search" => at = 1
       /\ Goes2(u, <<"resolve", kind>>, at, "none")
  /\ UNCHANGED <<cached, problems, ended>>

\* Another goroutine is writing the map.
Clash(u) == \E v \in Users \ {u} : \E k \in Kinds : task[v] = <<"writing", k>>
MayEnd(u) == (ended' = TRUE /\ Clash(u)) \/ ended' = FALSE

\* getCollectionID: the map, then the list.
Resolve(u, kind) ==
  /\ UserAt(u, "resolve", kind) /\ request[u] = "none"
  /\ IF cached[Main][NameOf(u)] # 0
     THEN Here(u, <<IF kind = "delete" THEN "act" ELSE "embed", kind>>,
                  IF kind = "delete" THEN "delete" ELSE "none")
     ELSE Here(u, <<"resolve", kind>>, "list")
  /\ MayEnd(u)
  /\ UNCHANGED <<cached, problems>>

\* The end of a store of one item; a document is followed by what was
\* extracted from it, even if it was not stored itself.
ItemDone(u, ok) ==
  /\ problems' = IF ok THEN problems ELSE problems \cup {u}
  /\ IF position[u] < Len(Own) THEN Goes2(u, <<"resolve", "store">>, position[u] + 1, "none")
     ELSE Here(u, <<IF u \in problems' THEN "error" ELSE "ok", "store">>, "none")

Fails(u, kind) ==
  IF kind = "store" THEN ItemDone(u, FALSE)
  ELSE Here(u, <<"error", kind>>, "none") /\ UNCHANGED problems

ResolveListed(u, kind) ==
  /\ UserAt(u, "resolve", kind) /\ request[u] = "list"
  /\ IF link[u] = "ok" /\ reply[u] # 0
     THEN task' = [task EXCEPT ![u] = <<"writing", kind>>]
          /\ UNCHANGED <<requestVars, position, problems>>
     ELSE Fails(u, kind)
  /\ MayEnd(u)
  /\ UNCHANGED cached

Written(u, kind) ==
  /\ UserAt(u, "writing", kind)
  /\ cached' = [cached EXCEPT ![Main][NameOf(u)] = reply[u]]
  /\ Here(u, <<IF kind = "delete" THEN "act" ELSE "embed", kind>>,
             IF kind = "delete" THEN "delete" ELSE "none")
  /\ UNCHANGED <<problems, ended>>

EmbedDone(u, kind) ==
  /\ UserAt(u, "embed", kind)
  /\ \/ /\ Here(u, <<"act", kind>>, IF kind = "store" THEN "add" ELSE "query")
        /\ UNCHANGED problems
     \/ Fails(u, kind)
  /\ UNCHANGED <<cached, ended>>

\* Mutant of Acted: an error of the client is not looked at.
ActedAnyhow(u, kind) ==
  /\ UserAt(u, "act", kind)
  /\ IF kind = "store" THEN ItemDone(u, TRUE)
     ELSE Here(u, <<"ok", kind>>, "none") /\ UNCHANGED problems
  /\ UNCHANGED <<cached, ended>>

Acted(u, kind) ==
  /\ UserAt(u, "act", kind)
  /\ IF link[u] # "ok" THEN Fails(u, kind)
     ELSE IF kind = "store" THEN ItemDone(u, TRUE)
     ELSE Here(u, <<"ok", kind>>, "none") /\ UNCHANGED problems
  /\ UNCHANGED <<cached, ended>>

UserStep(u) ==
  \E kind \in Kinds :
    \/ Resolve(u, kind) \/ ResolveListed(u, kind) \/ Written(u, kind)
    \/ EmbedDone(u, kind) \/ Acted(u, kind)

CallerStep(c) ==
  /\ ~ended
  /\ ClientStep(c) \/ (c \in Managers /\ ManagerStep(c)) \/ (c \in Users /\ UserStep(c))

StoreNext ==
  \/ \E c \in Callers : CallerStep(c)
  \/ ~ended /\ \/ LateEffect
               \/ \E m \in Managers : StartManager(m)
               \/ \E u \in Users, kind \in Kinds : Ask(u, kind)

\* Every wait of a client ends by its timeout.
StoreFairness == \A c \in Callers : WF_storeVars(CallerStep(c))
StoreSpec == StoreInit /\ [][StoreNext]_storeVars /\ StoreFairness

-----------------------------------------------------------------------------
(* Properties *)

\* However the creations of two processes and their lost or late attempts mix,
\* no manager takes another identifier for that of a collection, and one that
\* is initialised knows all of its own.  So nobody has to write the map after
\* that but a search that names a collection of none: nothing else can make Go
\* end the process.
CachesAgree ==
  /\ StoreTypeOK
  /\ \A m \in Managers :
       /\ \A n \in Names : cached[m][n] \in {0, collections[n]}
       /\ Initialised(m) => \A n \in Named(Own) : cached[m][n] # 0
  /\ ended => \E u \in Users : task[u] = <<"writing", "search">> /\ NameOf(u) \notin Named(Own)

\* A store that reports no problem has put the document and all that was
\* extracted from it into the server, a delete that does has removed it.
SuccessIsEffect ==
  \A u \in Users :
    /\ task[u] = <<"ok", "store">> => \A n \in Named(Own) : <<u, n>> \in effected
    /\ task[u] = <<"ok", "delete">> => <<u, Own[1]>> \in effected

\* Whatever the server does not answer, every call returns.
StoreCallsReturn ==
  /\ \A u \in Users : task[u][1] # "idle" ~> task[u][1] \in {"ok", "error"} \/ ended
  /\ \A m \in Managers : task[m] = "health" ~> task[m] \in {"ready", "failed"} \/ ended
=============================================================================
